------------------------- MODULE DescriptionProofs -------------------------
(***************************************************************************)
(* Payloads described by what the peer already holds come back: for every  *)
(* set of payloads and materials, every catalog that blocks and bundles    *)
(* have been added to, and any limits of the search, whatever transform    *)
(* the sender generates rebuilds the payload from its bases, and whatever  *)
(* state program it weighs decodes to it.                                  *)
(*                                                                         *)
(* Transforms.  What each kind of plan measures on the base and the target *)
(* is what carrying it out undoes (FromOne): the bytes it finds equal are  *)
(* where the base is kept, and those it finds different are residuals.     *)
(* The loops of the plans are folds, and each is followed with the type    *)
(* of its intermediate results: cuts that ascend (CutsRight), slots that   *)
(* lie one after the other, patches applied from the last to the first.    *)
(* Collecting the candidates adds none (PushStep).                         *)
(*                                                                         *)
(* References.  A bundle is as long as it says (BundleIs), so the range    *)
(* that a sender cuts from it is the range that the peer reads (RangeGives *)
(* for transforms, RangeReads for programs).  That every member of every   *)
(* bundle can be read (CatalogRight) is the inductive invariant.           *)
(*                                                                         *)
(* Programs.  The search of composites finds sequences of references that  *)
(* spell the payload from a place on (Spelled), by induction over the      *)
(* depth that is left (SearchSpells); so the bytes they cover are the      *)
(* beginning of the payload, and the residual is the rest.                 *)
(***************************************************************************)
EXTENDS Reconstruction, Induction, FiniteSetTheorems, TLAPS

----------------------------------------------------------------------------
(* Parts of sequences. *)

\* The bounds of a slice.
Within(s, a, b) == a \in Nat /\ b \in Nat /\ a <= b /\ b <= Len(s)

\* A slice has the elements of its places.
LEMMA SliceIs ==
  ASSUME NEW T, NEW s \in Seq(T), NEW a, NEW b, Within(s, a, b)
  PROVE  /\ Slice(s, a, b) \in Seq(T) /\ Len(Slice(s, a, b)) = b - a
         /\ \A i \in 1 .. b - a : Slice(s, a, b)[i] = s[a + i]
<1> DEFINE t == SubSeq(s, a + 1, b)
<1>1. a \in Nat /\ b \in Nat /\ a <= b /\ b <= Len(s)
  BY DEF Within
<1>2. a + 1 \in Nat /\ \A i \in a + 1 .. b : i \in 1 .. Len(s)
  BY <1>1
<1>3. t \in Seq(T) /\ Len(t) = b - a /\ \A i \in 1 .. b - a : t[i] = s[a + i]
  BY <1>1, <1>2
<1>4. QED
  BY <1>3 DEF Slice

\* A set of numbers with an upper bound has a largest one.
LEMMA LargestIs ==
  ASSUME NEW n \in Nat, NEW S \in SUBSET (0 .. n), S # {}
  PROVE  Max(S) \in S /\ \A x \in S : x <= Max(S)
<1> DEFINE R == {i \in Nat : n - i \in S}
<1>1. R \in SUBSET Nat /\ R # {}
  <2>1. PICK x \in S : TRUE
    OBVIOUS
  <2>2. n - x \in Nat /\ n - (n - x) = x
    BY <2>1
  <2>3. QED
    BY <2>1, <2>2
<1>2. PICK m \in R : \A k \in R : m <= k
  <2> HIDE DEF R
  <2>1. QED
    BY <1>1, LeastNumber
<1>3. n - m \in S /\ \A x \in S : x <= n - m
  <2>1. ASSUME NEW x \in S PROVE x <= n - m
    <3>1. n - x \in Nat /\ n - (n - x) = x
      OBVIOUS
    <3>2. n - x \in R
      BY <3>1
    <3>3. m <= n - x
      BY <1>2, <3>2
    <3>4. QED
      BY <3>1, <3>3
  <2>2. QED
    BY <1>2, <2>1
<1>4. S \in SUBSET Nat
  OBVIOUS
<1>5. Max(S) = n - m
  BY <1>3, <1>4, MaxIs
<1>6. QED
  BY <1>3, <1>5

\* The length of the longest common beginning of two sequences.
LEMMA PrefixLen ==
  ASSUME NEW T, NEW left \in Seq(T), NEW right \in Seq(T)
  PROVE  LET n == common_prefix_len(left, right)
         IN /\ n \in 0 .. Len(left) /\ n <= Len(right)
            /\ \A i \in 1 .. n : left[i] = right[i]
            /\ (n < Len(left) /\ n < Len(right)) => left[n + 1] # right[n + 1]
<1> DEFINE L == Len(left)
           C == {k \in 0 .. L : k <= Len(right) /\ \A i \in 1 .. k : left[i] = right[i]}
           Fits(k) == /\ k <= Len(right)
                      /\ \A i \in 1 .. k : left[i] = right[i]
                      /\ (k < L /\ k < Len(right)) => left[k + 1] # right[k + 1]
<1>1. L \in Nat /\ Len(right) \in Nat /\ C \in SUBSET (0 .. L) /\ 0 \in C
  OBVIOUS
<1>2. PICK m \in C : \A x \in C : x <= m
  <2> HIDE DEF C, L
  <2>1. QED
    BY <1>1, LargestIs
<1>3. m \in 0 .. L /\ Fits(m)
  <2>1. ASSUME m < L, m < Len(right), left[m + 1] = right[m + 1] PROVE FALSE
    <3>1. m + 1 \in 0 .. L /\ m + 1 <= Len(right)
      BY <1>1, <1>2, <2>1
    <3>2. \A i \in 1 .. m + 1 : i \in 1 .. m \/ i = m + 1
      BY <1>2
    <3>3. m + 1 \in C
      BY <1>2, <2>1, <3>1, <3>2
    <3>4. QED
      BY <1>2, <3>3
  <2>2. QED
    BY <1>2, <2>1
<1> DEFINE c == CHOOSE k \in 0 .. L : Fits(k)
<1>4. c \in 0 .. L /\ Fits(c)
  <2> HIDE DEF Fits, L
  <2>1. QED
    BY <1>3
<1>5. common_prefix_len(left, right) = c
  BY DEF common_prefix_len
<1>6. QED
  BY <1>4, <1>5

\* Slices that follow on each other make up one slice.
LEMMA SliceJoin ==
  ASSUME NEW T, NEW s \in Seq(T), NEW a, NEW b, NEW c, Within(s, a, b), Within(s, b, c)
  PROVE  Slice(s, a, b) \o Slice(s, b, c) = Slice(s, a, c)
<1>1. a \in Nat /\ b \in Nat /\ c \in Nat /\ a <= b /\ b <= c /\ c <= Len(s)
  BY DEF Within
<1>2. a + 1 \in 1 .. Len(s) + 1 /\ b \in (a + 1) - 1 .. Len(s) /\ c \in b .. Len(s)
  BY <1>1
<1>3. QED
  BY <1>2, ConcatAdjacentSubSeq DEF Slice

\* All of a sequence, and nothing of it.
LEMMA SliceEnds ==
  ASSUME NEW T, NEW s \in Seq(T), NEW a \in 0 .. Len(s)
  PROVE  /\ Slice(s, 0, Len(s)) = s /\ Slice(s, a, a) = << >>
         /\ Slice(s, 0, a) \o Slice(s, a, Len(s)) = s
<1>1. Within(s, 0, Len(s)) /\ Within(s, a, a) /\ Within(s, 0, a) /\ Within(s, a, Len(s))
  BY DEF Within
<1>2. Slice(s, 0, Len(s)) = s
  <2> DEFINE n == Len(s)
             x == Slice(s, 0, n)
  <2>1. n \in Nat
    OBVIOUS
  <2>2. x \in Seq(T) /\ Len(x) = n - 0 /\ \A i \in 1 .. n - 0 : x[i] = s[0 + i]
    <3> HIDE DEF n
    <3>1. Within(s, 0, n)
      BY <1>1 DEF n
    <3>2. QED
      BY <3>1, SliceIs
  <2> HIDE DEF x
  <2>3. x = s
    BY <2>1, <2>2
  <2>4. QED
    BY <2>3 DEF x
<1>3. Slice(s, a, a) = << >>
  <2> DEFINE x == Slice(s, a, a)
  <2>1. x \in Seq(T) /\ Len(x) = a - a
    BY <1>1, SliceIs
  <2> HIDE DEF x
  <2>2. x = << >>
    BY <2>1
  <2>3. QED
    BY <2>2 DEF x
<1>4. QED
  BY <1>1, <1>2, <1>3, SliceJoin

\* A slice of two sequences that lie one after the other.
LEMMA SliceOfJoined ==
  ASSUME NEW T, NEW s \in Seq(T), NEW t \in Seq(T)
  PROVE  /\ Slice(s \o t, 0, Len(s)) = s
         /\ Slice(s \o t, Len(s), Len(s \o t)) = t
<1> DEFINE u == s \o t
           m == Len(s)
           n == Len(u)
<1>1. m \in Nat /\ n \in Nat /\ n = m + Len(t) /\ u \in Seq(T) /\ n = Len(u)
  OBVIOUS
<1>2. (\A i \in 1 .. m : u[i] = s[i]) /\ (\A i \in 1 .. Len(t) : u[m + i] = t[i])
  OBVIOUS
<1> HIDE DEF u, n
<1>3. Within(u, 0, m) /\ Within(u, m, n)
  BY <1>1 DEF Within
<1> DEFINE x == Slice(u, 0, m)
           y == Slice(u, m, n)
<1>4. x \in Seq(T) /\ Len(x) = m - 0 /\ \A i \in 1 .. m - 0 : x[i] = u[0 + i]
  BY <1>1, <1>3, SliceIs
<1>5. y \in Seq(T) /\ Len(y) = n - m /\ \A i \in 1 .. n - m : y[i] = u[m + i]
  BY <1>1, <1>3, SliceIs
<1> HIDE DEF x, y
<1>6. x = s
  BY <1>1, <1>2, <1>4
<1>7. y = t
  BY <1>1, <1>2, <1>5
<1>8. QED
  BY <1>6, <1>7 DEF x, y, u, n

\* A common beginning.
LEMMA CommonBeginning ==
  ASSUME NEW T, NEW left \in Seq(T), NEW right \in Seq(T)
  PROVE  LET n == common_prefix_len(left, right)
         IN  n \in Nat /\ n <= Len(left) /\ n <= Len(right) /\ Slice(left, 0, n) = Slice(right, 0, n)
<1> DEFINE n == common_prefix_len(left, right)
           x == Slice(left, 0, n)
           y == Slice(right, 0, n)
<1>1. n \in 0 .. Len(left) /\ n <= Len(right) /\ \A i \in 1 .. n : left[i] = right[i]
  BY PrefixLen
<1> HIDE DEF n
<1>2. n \in Nat /\ n <= Len(left) /\ Within(left, 0, n) /\ Within(right, 0, n)
  BY <1>1 DEF Within
<1>3. x \in Seq(T) /\ Len(x) = n - 0 /\ \A i \in 1 .. n - 0 : x[i] = left[0 + i]
  BY <1>2, SliceIs
<1>4. y \in Seq(T) /\ Len(y) = n - 0 /\ \A i \in 1 .. n - 0 : y[i] = right[0 + i]
  BY <1>2, SliceIs
<1> HIDE DEF x, y
<1>5. x = y
  BY <1>1, <1>2, <1>3, <1>4
<1>6. QED
  BY <1>1, <1>2, <1>5 DEF x, y, n

\* A sequence backwards.
LEMMA ReverseIs ==
  ASSUME NEW T, NEW s \in Seq(T)
  PROVE  /\ Reverse(s) \in Seq(T) /\ Len(Reverse(s)) = Len(s)
         /\ \A i \in 1 .. Len(s) : Reverse(s)[i] = s[Len(s) - i + 1]
<1>1. PICK n \in Nat : Len(s) = n
  OBVIOUS
<1> DEFINE r == [i \in 1 .. n |-> s[n - i + 1]]
<1>2. Reverse(s) = r
  BY <1>1 DEF Reverse
<1>3. \A i \in 1 .. n : n - i + 1 \in 1 .. n
  OBVIOUS
<1>4. r \in Seq(T) /\ Len(r) = n
  BY <1>1, <1>3
<1>5. \A i \in 1 .. n : r[i] = s[n - i + 1]
  OBVIOUS
<1> HIDE DEF r
<1>6. QED
  BY <1>1, <1>2, <1>4, <1>5

\* A common end that leaves the first bytes alone.
LEMMA CommonEnd ==
  ASSUME NEW T, NEW base \in Seq(T), NEW target \in Seq(T), NEW keep \in Nat,
         keep <= Len(base), keep <= Len(target)
  PROVE  LET n == CommonSuffix(base, target, keep)
         IN  /\ n \in Nat /\ keep + n <= Len(base) /\ keep + n <= Len(target)
             /\ Slice(base, Len(base) - n, Len(base)) = Slice(target, Len(target) - n, Len(target))
<1> DEFINE b == SubSeq(base, keep + 1, Len(base))
           t == SubSeq(target, keep + 1, Len(target))
           rb == Reverse(b)
           rt == Reverse(t)
           n == CommonSuffix(base, target, keep)
           p == Len(base)
           q == Len(target)
<1>1. p \in Nat /\ q \in Nat /\ keep <= p /\ keep <= q
  OBVIOUS
<1>2. b \in Seq(T) /\ Len(b) = p - keep /\ \A i \in 1 .. p - keep : b[i] = base[keep + i]
  <2>1. Within(base, keep, p)
    BY <1>1 DEF Within
  <2> HIDE DEF p
  <2>2. QED
    BY <2>1, SliceIs DEF Slice, p
<1>3. t \in Seq(T) /\ Len(t) = q - keep /\ \A i \in 1 .. q - keep : t[i] = target[keep + i]
  <2>1. Within(target, keep, q)
    BY <1>1 DEF Within
  <2> HIDE DEF q
  <2>2. QED
    BY <2>1, SliceIs DEF Slice, q
<1> HIDE DEF b, t
<1>4. rb \in Seq(T) /\ Len(rb) = p - keep /\ (\A i \in 1 .. p - keep : rb[i] = base[p - i + 1])
  <2>1. \A i \in 1 .. p - keep : /\ Len(b) - i + 1 \in 1 .. p - keep
                                 /\ keep + (Len(b) - i + 1) = p - i + 1
    BY <1>1, <1>2
  <2>2. rb \in Seq(T) /\ Len(rb) = Len(b) /\ \A i \in 1 .. Len(b) : rb[i] = b[Len(b) - i + 1]
    BY <1>2, ReverseIs
  <2> HIDE DEF rb
  <2>3. QED
    BY <1>2, <2>1, <2>2
<1>5. rt \in Seq(T) /\ Len(rt) = q - keep /\ (\A i \in 1 .. q - keep : rt[i] = target[q - i + 1])
  <2>1. \A i \in 1 .. q - keep : /\ Len(t) - i + 1 \in 1 .. q - keep
                                 /\ keep + (Len(t) - i + 1) = q - i + 1
    BY <1>1, <1>3
  <2>2. rt \in Seq(T) /\ Len(rt) = Len(t) /\ \A i \in 1 .. Len(t) : rt[i] = t[Len(t) - i + 1]
    BY <1>3, ReverseIs
  <2> HIDE DEF rt
  <2>3. QED
    BY <1>3, <2>1, <2>2
<1>6. n = common_prefix_len(rb, rt)
  BY DEF CommonSuffix, b, t
<1> HIDE DEF n, rb, rt
<1>7. n \in 0 .. p - keep /\ n <= q - keep /\ \A i \in 1 .. n : rb[i] = rt[i]
  <2>1. rb \in Seq(T) /\ rt \in Seq(T)
    BY <1>4, <1>5
  <2>2. n \in 0 .. Len(rb) /\ n <= Len(rt) /\ \A i \in 1 .. n : rb[i] = rt[i]
    BY <1>6, <2>1, PrefixLen
  <2>3. QED
    BY <1>4, <1>5, <2>2
<1>8. n \in Nat /\ keep + n <= p /\ keep + n <= q
  BY <1>1, <1>7
<1> DEFINE x == Slice(base, p - n, p)
           y == Slice(target, q - n, q)
           pn == p - n
           qn == q - n
<1>9. x \in Seq(T) /\ Len(x) = n /\ \A i \in 1 .. n : x[i] = base[p - n + i]
  <2>1. Within(base, pn, p) /\ p - pn = n
    BY <1>1, <1>8 DEF Within
  <2>2. x = Slice(base, pn, p)
    OBVIOUS
  <2>3. \A i \in 1 .. n : pn + i = p - n + i
    OBVIOUS
  <2> HIDE DEF pn, x, p
  <2>4. QED
    BY <2>1, <2>2, <2>3, SliceIs
<1>10. y \in Seq(T) /\ Len(y) = n /\ \A i \in 1 .. n : y[i] = target[q - n + i]
  <2>1. Within(target, qn, q) /\ q - qn = n
    BY <1>1, <1>8 DEF Within
  <2>2. y = Slice(target, qn, q)
    OBVIOUS
  <2>3. \A i \in 1 .. n : qn + i = q - n + i
    OBVIOUS
  <2> HIDE DEF qn, y, q
  <2>4. QED
    BY <2>1, <2>2, <2>3, SliceIs
<1>11. ASSUME NEW i \in 1 .. n PROVE x[i] = y[i]
  <2> DEFINE j == n + 1 - i
  <2>1. j \in 1 .. n /\ j \in 1 .. p - keep /\ j \in 1 .. q - keep
    BY <1>1, <1>8
  <2>2. p - j + 1 = p - n + i /\ q - j + 1 = q - n + i
    BY <1>1, <1>8
  <2>3. rb[j] = base[p - j + 1] /\ rt[j] = target[q - j + 1] /\ rb[j] = rt[j]
    BY <1>4, <1>5, <1>7, <2>1
  <2> HIDE DEF j
  <2>4. QED
    BY <1>9, <1>10, <2>2, <2>3
<1> HIDE DEF x, y
<1>12. x = y
  BY <1>8, <1>9, <1>10, <1>11
<1>13. QED
  BY <1>8, <1>12 DEF x, y, n

\* What stands between a common beginning and a common end makes up the difference.
LEMMA PatchedBack ==
  ASSUME NEW T, NEW base \in Seq(T), NEW target \in Seq(T), NEW start \in Nat, NEW tail \in Nat,
         start + tail <= Len(base), start + tail <= Len(target),
         Slice(base, 0, start) = Slice(target, 0, start),
         Slice(base, Len(base) - tail, Len(base)) = Slice(target, Len(target) - tail, Len(target))
  PROVE  Splice(base, start, Len(base) - tail - start, Slice(target, start, Len(target) - tail)) = Done(target)
<1> DEFINE p == Len(base)
           q == Len(target)
           len == p - tail - start
           b == p - tail
           c == q - tail
<1>1. /\ p \in Nat /\ q \in Nat /\ len \in Nat /\ b \in Nat /\ c \in Nat /\ start + len = b
      /\ start <= b /\ b <= p /\ start <= c /\ c <= q
  OBVIOUS
<1>2. Splice(base, start, len, Slice(target, start, c))
        = Done(Slice(base, 0, start) \o Slice(target, start, c) \o Slice(base, b, p))
  BY <1>1 DEF Splice, checked_range
<1>3. Slice(base, b, p) = Slice(target, c, q)
  OBVIOUS
<1>4. Within(target, 0, start) /\ Within(target, start, c) /\ Within(target, 0, c) /\ Within(target, c, q)
      /\ Within(target, 0, q)
  BY <1>1 DEF Within
<1>5. Slice(target, 0, start) \o Slice(target, start, c) = Slice(target, 0, c)
  <2> HIDE DEF c
  <2>1. QED
    BY <1>4, SliceJoin
<1>6. Slice(target, 0, c) \o Slice(target, c, q) = Slice(target, 0, q)
  <2> HIDE DEF c, q
  <2>1. QED
    BY <1>4, SliceJoin
<1>7. Slice(target, 0, q) = target
  <2>1. 0 \in 0 .. Len(target)
    OBVIOUS
  <2>2. QED
    BY <2>1, SliceEnds
<1>8. Slice(base, 0, start) \o Slice(target, start, c) \o Slice(base, b, p) = target
  <2> HIDE DEF c, b, p, q
  <2>1. QED
    BY <1>3, <1>5, <1>6, <1>7
<1>9. QED
  BY <1>2, <1>8

----------------------------------------------------------------------------
(* Carrying out a transform. *)

Gives(cat, ref, base) == resolve_transform_basis(cat, ref) = Done(base)

Rebuilds(cat, c, target) == apply_transform_instance(cat, c, Len(target)) = Done(target)

\* A transform of one basis is carried out on the bytes of that basis.
LEMMA FromOne ==
  ASSUME NEW cat, NEW c, NEW ref, NEW base, NEW target, c.refs = <<ref>>, Gives(cat, ref, base),
         c.kind # "SpliceFromTwoBases", ApplyToOne(c, base) = Done(target)
  PROVE  Rebuilds(cat, c, target)
<1> DEFINE bases == [i \in DOMAIN c.refs |-> resolve_transform_basis(cat, c.refs[i])]
           out == IF c.kind = "SpliceFromTwoBases" THEN ApplySpliceOfTwo(c, bases[1].value, bases[2].value)
                  ELSE ApplyToOne(c, bases[1].value)
<1>1. DOMAIN bases = {1} /\ bases[1] = Done(base)
  BY DEF Gives
<1> HIDE DEF bases
<1>2. out = Done(target)
  BY <1>1 DEF Done
<1>3. out.ok /\ Len(out.value) = Len(target) /\ \A i \in DOMAIN bases : bases[i].ok
  BY <1>1, <1>2 DEF Done
<1>4. apply_transform_instance(cat, c, Len(target))
        = IF (\A i \in DOMAIN bases : bases[i].ok) /\ out.ok /\ Len(out.value) = Len(target) THEN out ELSE Failed
  BY DEF apply_transform_instance, bases
<1> HIDE DEF out
<1>5. QED
  BY <1>2, <1>3, <1>4 DEF Rebuilds

\* What a candidate is made of.
LEMMA CandidateIs ==
  ASSUME NEW kind, NEW refs, NEW params, NEW residuals, NEW wire, NEW steps, NEW gain, NEW invertible,
         NEW c, c = TransformCandidate(kind, refs, params, residuals, wire, steps, gain, invertible)
  PROVE  c.kind = kind /\ c.refs = refs /\ c.params = params /\ c.residuals = residuals
BY DEF TransformCandidate

\* Candidates of which every one rebuilds the target.
AllRebuild(cat, cs, target) == cs \in Seq(ToSet(cs)) /\ \A i \in DOMAIN cs : Rebuilds(cat, cs[i], target)

\* No candidate is one that does not.
LEMMA NoneRebuild == ASSUME NEW cat, NEW target PROVE AllRebuild(cat, << >>, target)
BY EmptySeq DEF AllRebuild

\* One that does, ...
LEMMA OneRebuilds ==
  ASSUME NEW cat, NEW target, NEW c, Rebuilds(cat, c, target)
  PROVE  AllRebuild(cat, <<c>>, target)
<1>1. ToSet(<<c>>) = {c}
  BY DEF ToSet
<1>2. QED
  BY <1>1 DEF AllRebuild

\* ... two of them, ...
LEMMA TwoRebuild ==
  ASSUME NEW cat, NEW target, NEW c, NEW d, Rebuilds(cat, c, target), Rebuilds(cat, d, target)
  PROVE  AllRebuild(cat, <<c, d>>, target)
<1> DEFINE s == <<c, d>>
<1>1. DOMAIN s = 1 .. 2 /\ s[1] = c /\ s[2] = d /\ s \in Seq({c, d})
  OBVIOUS
<1>2. ToSet(s) = {c, d}
  <2> HIDE DEF s
  <2>1. QED
    BY <1>1 DEF ToSet
<1>3. \A i \in 1 .. 2 : i = 1 \/ i = 2
  OBVIOUS
<1> HIDE DEF s
<1>4. AllRebuild(cat, s, target)
  BY <1>1, <1>2, <1>3 DEF AllRebuild
<1>5. QED
  BY <1>4 DEF s

\* ... and two sequences of them one after the other.
LEMMA JoinedRebuild ==
  ASSUME NEW cat, NEW target, NEW cs, NEW ds, AllRebuild(cat, cs, target), AllRebuild(cat, ds, target)
  PROVE  AllRebuild(cat, cs \o ds, target)
<1> DEFINE S == ToSet(cs) \cup ToSet(ds)
           u == cs \o ds
<1>1. cs \in Seq(ToSet(cs)) /\ ds \in Seq(ToSet(ds))
  BY DEF AllRebuild
<1>2. cs \in Seq(S) /\ ds \in Seq(S)
  BY <1>1, SeqMonotonic
<1> HIDE DEF S
<1>3. /\ u \in Seq(S) /\ Len(u) = Len(cs) + Len(ds)
      /\ \A i \in 1 .. Len(cs) + Len(ds) : u[i] = IF i <= Len(cs) THEN cs[i] ELSE ds[i - Len(cs)]
  BY <1>2, ConcatProperties
<1>4. Len(cs) \in Nat /\ Len(ds) \in Nat /\ DOMAIN cs = 1 .. Len(cs) /\ DOMAIN ds = 1 .. Len(ds)
      /\ DOMAIN u = 1 .. Len(cs) + Len(ds)
  BY <1>2, <1>3
<1> HIDE DEF u
<1>5. ASSUME NEW i \in DOMAIN u PROVE Rebuilds(cat, u[i], target)
  <2>1. CASE i <= Len(cs)
    <3>1. i \in DOMAIN cs /\ u[i] = cs[i]
      BY <1>3, <1>4, <2>1
    <3>2. QED
      BY <3>1 DEF AllRebuild
  <2>2. CASE i > Len(cs)
    <3>1. i - Len(cs) \in DOMAIN ds /\ u[i] = ds[i - Len(cs)]
      BY <1>3, <1>4, <2>2
    <3>2. QED
      BY <3>1 DEF AllRebuild
  <2>3. QED
    BY <1>4, <2>1, <2>2
<1>6. u \in Seq(ToSet(u))
  <2>1. \A i \in 1 .. Len(u) : u[i] \in ToSet(u)
    BY <1>3, <1>4 DEF ToSet
  <2>2. u = [i \in 1 .. Len(u) |-> u[i]] /\ Len(u) \in Nat
    BY <1>3
  <2>3. QED
    BY <2>1, <2>2
<1>7. QED
  BY <1>5, <1>6 DEF AllRebuild, u

----------------------------------------------------------------------------
(* Transforms that replace one place. *)

\* The delta between a base and a target leads from one to the other.
LEMMA DeltaIs ==
  ASSUME NEW T, NEW base \in Seq(T), NEW target \in Seq(T), NEW delta,
         delta = bounded_substitution_delta(base, target), delta.ok
  PROVE  Splice(base, delta.value.start, delta.value.remove, delta.value.fill) = Done(target)
<1> DEFINE start == common_prefix_len(base, target)
           tail == CommonSuffix(base, target, start)
           fill == Slice(target, start, Len(target) - tail)
           remove == Len(base) - tail - start
<1>1. base # target
  BY DEF bounded_substitution_delta, Failed
<1>2. delta.value = [start |-> start, remove |-> remove, fill |-> fill]
  BY <1>1 DEF bounded_substitution_delta, Done
<1>3. start \in Nat /\ start <= Len(base) /\ start <= Len(target) /\ Slice(base, 0, start) = Slice(target, 0, start)
  BY CommonBeginning
<1> HIDE DEF start
<1>4. /\ tail \in Nat /\ start + tail <= Len(base) /\ start + tail <= Len(target)
      /\ Slice(base, Len(base) - tail, Len(base)) = Slice(target, Len(target) - tail, Len(target))
  BY <1>3, CommonEnd
<1> HIDE DEF tail
<1>5. Splice(base, start, remove, fill) = Done(target)
  BY <1>3, <1>4, PatchedBack
<1>6. QED
  BY <1>2, <1>5

\* Substitutions rebuild the target.
LEMMA SubstitutionsRebuild ==
  ASSUME NEW T, NEW base \in Seq(T), NEW target \in Seq(T), NEW cat, NEW ref, Gives(cat, ref, base)
  PROVE  AllRebuild(cat, SubstitutionCandidates(ref, bounded_substitution_delta(base, target),
                                                copy_with_gap_plan(base, target)), target)
<1> DEFINE delta == bounded_substitution_delta(base, target)
           gap == copy_with_gap_plan(base, target)
           dc == TransformCandidate("BoundedSubstitution", <<ref>>, <<delta.value.start, delta.value.remove>>,
                   <<delta.value.fill>>, Bytes(<<delta.value.fill>>) + 12, 2, 6, FALSE)
           gc == TransformCandidate("CopyWithGap", <<ref>>, <<gap.value.start, gap.value.remove>>,
                   <<gap.value.fill>>, Bytes(<<gap.value.fill>>) + 10, 2, 8, FALSE)
           ds == IF delta.ok THEN <<dc>> ELSE << >>
           gs == IF gap.ok THEN <<gc>> ELSE << >>
<1>1. gap.ok => gap = delta
  BY DEF copy_with_gap_plan, Failed
<1> HIDE DEF gap
<1>2. delta.ok => Splice(base, delta.value.start, delta.value.remove, delta.value.fill) = Done(target)
  BY DeltaIs
<1> HIDE DEF delta
<1>3. ASSUME delta.ok PROVE Rebuilds(cat, dc, target)
  <2>1. /\ dc.kind = "BoundedSubstitution" /\ dc.refs = <<ref>> /\ dc.residuals = <<delta.value.fill>>
        /\ dc.params = <<delta.value.start, delta.value.remove>>
    BY DEF TransformCandidate
  <2> HIDE DEF dc
  <2>2. ApplyToOne(dc, base) = Done(target)
    BY <1>2, <1>3, <2>1 DEF ApplyToOne, ApplyCut
  <2>3. QED
    BY <2>1, <2>2, FromOne
<1>4. ASSUME gap.ok PROVE Rebuilds(cat, gc, target)
  <2>1. /\ gc.kind = "CopyWithGap" /\ gc.refs = <<ref>> /\ gc.residuals = <<gap.value.fill>>
        /\ gc.params = <<gap.value.start, gap.value.remove>>
    BY DEF TransformCandidate
  <2> HIDE DEF gc
  <2>2. ApplyToOne(gc, base) = Done(target)
    BY <1>1, <1>2, <1>4, <2>1 DEF ApplyToOne, ApplyCut
  <2>3. QED
    BY <2>1, <2>2, FromOne
<1> HIDE DEF dc, gc
<1>5. AllRebuild(cat, ds, target)
  BY <1>3, OneRebuilds, NoneRebuild
<1>6. AllRebuild(cat, gs, target)
  BY <1>4, OneRebuilds, NoneRebuild
<1>7. SubstitutionCandidates(ref, delta, gap) = ds \o gs
  BY DEF SubstitutionCandidates, dc, gc
<1> HIDE DEF ds, gs
<1>8. QED
  BY <1>5, <1>6, <1>7, JoinedRebuild DEF delta, gap

\* A rewrite with the same delimiters rebuilds the target.
LEMMA RewritesRebuild ==
  ASSUME NEW base, NEW target, NEW cat, NEW ref, Gives(cat, ref, base)
  PROVE  AllRebuild(cat, RewriteCandidates(ref, base, target), target)
<1> DEFINE c == TransformCandidate("DelimiterPreservingRewrite", <<ref>>, <<>>, <<target>>,
                              Bytes(<<target>>), 3, 10, FALSE)
           same == delimiter_inventory(base) = delimiter_inventory(target) /\ base # target
<1>1. ASSUME same PROVE Rebuilds(cat, c, target)
  <2>1. c.kind = "DelimiterPreservingRewrite" /\ c.refs = <<ref>> /\ c.residuals = <<target>>
    BY DEF TransformCandidate
  <2> HIDE DEF c
  <2>2. ApplyToOne(c, base) = Done(target)
    BY <1>1, <2>1 DEF ApplyToOne, ApplyCut
  <2>3. QED
    BY <2>1, <2>2, FromOne
<1> HIDE DEF c
<1>2. RewriteCandidates(ref, base, target) = IF same THEN <<c>> ELSE << >>
  BY DEF RewriteCandidates, c
<1>3. QED
  BY <1>1, <1>2, OneRebuilds, NoneRebuild

\* Mirrored bytes.
LEMMA MirrorsRebuild ==
  ASSUME NEW base, NEW target, NEW cat, NEW ref, Gives(cat, ref, base)
  PROVE  AllRebuild(cat, MirrorCandidates(ref, base, target), target)
<1> DEFINE c == TransformCandidate("MirrorSymmetry", <<ref>>, <<>>, <<>>, 8, 2, 16, TRUE)
           d == TransformCandidate("LocalMirror", <<ref>>, <<>>, <<>>, 8, 2, 14, TRUE)
<1>1. ASSUME target = base \o Reverse(base) PROVE Rebuilds(cat, c, target) /\ Rebuilds(cat, d, target)
  <2>1. c.kind = "MirrorSymmetry" /\ c.refs = <<ref>> /\ d.kind = "LocalMirror" /\ d.refs = <<ref>>
    BY DEF TransformCandidate
  <2> HIDE DEF c, d
  <2>2. ApplyToOne(c, base) = Done(target) /\ ApplyToOne(d, base) = Done(target)
    BY <1>1, <2>1 DEF ApplyToOne, ApplyShape
  <2>3. QED
    BY <2>1, <2>2, FromOne
<1> HIDE DEF c, d
<1>2. MirrorCandidates(ref, base, target) = IF target = base \o Reverse(base) THEN <<c, d>> ELSE << >>
  BY DEF MirrorCandidates, c, d
<1>3. QED
  BY <1>1, <1>2, TwoRebuild, NoneRebuild

----------------------------------------------------------------------------
(* What is kept of a sequence. *)

Singles(s, S) == [i \in DOMAIN s |-> IF s[i] \in S THEN <<s[i]>> ELSE << >>]

\* The sequence that is flattened.
LEMMA SinglesAre ==
  ASSUME NEW A, NEW S, NEW s \in Seq(A)
  PROVE  Singles(s, S) \in Seq(Seq(A)) /\ Len(Singles(s, S)) = Len(s)
<1>1. PICK n \in Nat : Len(s) = n
  OBVIOUS
<1>2. DOMAIN s = 1 .. n /\ \A i \in 1 .. n : s[i] \in A
  BY <1>1
<1> DEFINE r == [i \in 1 .. n |-> IF s[i] \in S THEN <<s[i]>> ELSE << >>]
<1>3. \A i \in 1 .. n : (IF s[i] \in S THEN <<s[i]>> ELSE << >>) \in Seq(A)
  BY <1>2
<1>4. r \in Seq(Seq(A)) /\ Len(r) = n
  BY <1>3
<1>5. QED
  BY <1>1, <1>2, <1>4 DEF Singles

\* An element more is kept or it is not.
LEMMA KeptAppend ==
  ASSUME NEW A, NEW S, NEW s \in Seq(A), NEW e \in A
  PROVE  /\ Kept(s, S) \in Seq(A)
         /\ Kept(Append(s, e), S) = Kept(s, S) \o (IF e \in S THEN <<e>> ELSE << >>)
<1> DEFINE t == Append(s, e)
           last == IF e \in S THEN <<e>> ELSE << >>
           ss == Singles(s, S)
           tt == Singles(t, S)
<1>1. PICK n \in Nat : Len(s) = n
  OBVIOUS
<1>2. /\ t \in Seq(A) /\ Len(t) = n + 1 /\ t[n + 1] = e /\ DOMAIN t = 1 .. n + 1 /\ DOMAIN s = 1 .. n
      /\ \A i \in 1 .. n : t[i] = s[i]
  BY <1>1
<1>3. last \in Seq(A)
  OBVIOUS
<1> HIDE DEF t
<1>4. ss \in Seq(Seq(A)) /\ Len(ss) = n /\ tt \in Seq(Seq(A)) /\ Len(tt) = n + 1
  BY <1>1, <1>2, SinglesAre
<1>5. /\ \A i \in 1 .. n : ss[i] = IF s[i] \in S THEN <<s[i]>> ELSE << >>
      /\ \A i \in 1 .. n + 1 : tt[i] = IF t[i] \in S THEN <<t[i]>> ELSE << >>
  BY <1>2 DEF Singles
<1> HIDE DEF ss, tt, last
<1>6. tt = Append(ss, last)
  <2>1. Append(ss, last) \in Seq(Seq(A)) /\ Len(Append(ss, last)) = n + 1 /\ Append(ss, last)[n + 1] = last
        /\ \A i \in 1 .. n : Append(ss, last)[i] = ss[i]
    BY <1>3, <1>4
  <2>2. \A i \in 1 .. n : tt[i] = Append(ss, last)[i]
    <3>1. ASSUME NEW i \in 1 .. n PROVE tt[i] = Append(ss, last)[i]
      <4>1. i \in 1 .. n + 1 /\ t[i] = s[i]
        BY <1>2
      <4>2. Append(ss, last)[i] = ss[i]
        BY <2>1
      <4>3. tt[i] = (IF t[i] \in S THEN <<t[i]>> ELSE << >>) /\ ss[i] = (IF s[i] \in S THEN <<s[i]>> ELSE << >>)
        BY <1>5, <4>1
      <4>4. QED
        BY <4>1, <4>2, <4>3
    <3>2. QED
      BY <3>1
  <2>3. tt[n + 1] = Append(ss, last)[n + 1]
    BY <1>2, <1>5, <2>1 DEF last
  <2>4. \A i \in 1 .. n + 1 : i \in 1 .. n \/ i = n + 1
    OBVIOUS
  <2>5. \A i \in 1 .. Len(tt) : tt[i] = Append(ss, last)[i]
    BY <1>4, <2>2, <2>3, <2>4
  <2> DEFINE u == Append(ss, last)
  <2> HIDE DEF u
  <2>6. tt = u
    BY <1>4, <2>1, <2>5, SeqEqual DEF u
  <2>7. QED
    BY <2>6 DEF u
<1>7. FlattenSeq(ss) \in Seq(A) /\ FlattenSeq(Append(ss, last)) = FlattenSeq(ss) \o last
  BY <1>3, <1>4, FlattenType, FlattenAppend
<1>8. Kept(s, S) = FlattenSeq(ss) /\ Kept(t, S) = FlattenSeq(tt)
  BY DEF Kept, Singles, ss, tt
<1>9. QED
  BY <1>6, <1>7, <1>8 DEF t, last

\* Nothing is kept of nothing.
LEMMA KeptEmpty == ASSUME NEW S PROVE Kept(<< >>, S) = << >>
<1>1. [i \in DOMAIN << >> |-> IF << >>[i] \in S THEN <<<< >>[i]>> ELSE << >>] = << >>
  OBVIOUS
<1>2. QED
  BY <1>1, FlattenEmpty DEF Kept

\* The places of the elements of k in s: they ascend, and every element of S is at one of them.
Places(s, S, k, at) ==
  /\ at \in [1 .. Len(k) -> 1 .. Len(s)]
  /\ \A i, j \in 1 .. Len(k) : i < j => at[i] < at[j]
  /\ \A i \in 1 .. Len(k) : k[i] = s[at[i]] /\ s[at[i]] \in S
  /\ \A p \in 1 .. Len(s) : s[p] \in S => \E i \in 1 .. Len(k) : at[i] = p

\* What is kept of a sequence has its places.
LEMMA KeptIs ==
  ASSUME NEW A, NEW S, NEW s \in Seq(A)
  PROVE  Kept(s, S) \in Seq(A) /\ \E at : Places(s, S, Kept(s, S), at)
<1> DEFINE Good == {t \in Seq(A) : Kept(t, S) \in Seq(A) /\ \E at : Places(t, S, Kept(t, S), at)}
<1>1. << >> \in Good
  <2>1. Kept(<< >>, S) = << >>
    BY KeptEmpty
  <2>2. Places(<< >>, S, << >>, << >>)
    BY DEF Places
  <2>3. << >> \in Seq(A)
    OBVIOUS
  <2>4. QED
    BY <2>1, <2>2, <2>3
<1>2. ASSUME NEW t \in Seq(A), NEW e \in A, t \in Good PROVE Append(t, e) \in Good
  <2> DEFINE u == Append(t, e)
             k == Kept(t, S)
  <2>1. k \in Seq(A)
    BY KeptAppend
  <2>2. PICK at : Places(t, S, k, at)
    BY <1>2
  <2>3. Kept(u, S) = k \o (IF e \in S THEN <<e>> ELSE << >>)
    BY KeptAppend
  <2> HIDE DEF k
  <2>4. PICK n \in Nat, m \in Nat : Len(t) = n /\ Len(k) = m
    BY <2>1
  <2>5. u \in Seq(A) /\ Len(u) = n + 1 /\ u[n + 1] = e /\ \A i \in 1 .. n : u[i] = t[i]
    BY <2>4
  <2> HIDE DEF u
  <2>6. /\ at \in [1 .. m -> 1 .. n]
        /\ \A i, j \in 1 .. m : i < j => at[i] < at[j]
        /\ \A i \in 1 .. m : k[i] = t[at[i]] /\ t[at[i]] \in S
        /\ \A p \in 1 .. n : t[p] \in S => \E i \in 1 .. m : at[i] = p
    BY <2>2, <2>4 DEF Places
  <2>7. CASE e \notin S
    <3>1. Kept(u, S) = k
      BY <2>1, <2>3, <2>7
    <3>2. at \in [1 .. m -> 1 .. n + 1]
      BY <2>6
    <3>3. \A i \in 1 .. m : u[at[i]] = t[at[i]]
      BY <2>5, <2>6
    <3>4. \A p \in 1 .. n + 1 : u[p] \in S => p \in 1 .. n /\ t[p] \in S
      BY <2>5, <2>7
    <3>5. Places(u, S, k, at)
      BY <2>4, <2>5, <2>6, <3>2, <3>3, <3>4 DEF Places
    <3>6. QED
      BY <2>1, <2>5, <3>1, <3>5 DEF u
  <2>8. CASE e \in S
    <3> DEFINE l == k \o <<e>>
               bt == [i \in 1 .. m + 1 |-> IF i = m + 1 THEN n + 1 ELSE at[i]]
    <3>1. l \in Seq(A) /\ Len(l) = m + 1 /\ l[m + 1] = e /\ \A i \in 1 .. m : l[i] = k[i]
      BY <2>1, <2>4
    <3>2. \A i \in 1 .. m + 1 : i = m + 1 \/ (i \in 1 .. m /\ i # m + 1)
      OBVIOUS
    <3>3. bt \in [1 .. m + 1 -> 1 .. n + 1]
      BY <2>6, <3>2
    <3>4. bt[m + 1] = n + 1 /\ \A i \in 1 .. m : bt[i] = at[i] /\ at[i] \in 1 .. n
      BY <2>6
    <3> HIDE DEF bt, l
    <3>5. \A i, j \in 1 .. m + 1 : i < j => bt[i] < bt[j]
      <4>1. ASSUME NEW i \in 1 .. m + 1, NEW j \in 1 .. m + 1, i < j PROVE bt[i] < bt[j]
        <5>1. i \in 1 .. m
          BY <4>1
        <5>2. CASE j = m + 1
          BY <3>4, <5>1, <5>2
        <5>3. CASE j \in 1 .. m
          BY <2>6, <3>4, <4>1, <5>1, <5>3
        <5>4. QED
          BY <3>2, <5>2, <5>3
      <4>2. QED
        BY <4>1
    <3>6. \A i \in 1 .. m + 1 : l[i] = u[bt[i]] /\ u[bt[i]] \in S
      <4>1. ASSUME NEW i \in 1 .. m PROVE l[i] = u[bt[i]] /\ u[bt[i]] \in S
        <5>1. bt[i] = at[i] /\ at[i] \in 1 .. n /\ l[i] = k[i]
          BY <3>1, <3>4
        <5>2. QED
          BY <2>5, <2>6, <5>1
      <4>2. l[m + 1] = u[bt[m + 1]] /\ u[bt[m + 1]] \in S
        BY <2>5, <2>8, <3>1, <3>4
      <4>3. QED
        BY <3>2, <4>1, <4>2
    <3>7. ASSUME NEW p \in 1 .. n + 1, u[p] \in S PROVE \E i \in 1 .. m + 1 : bt[i] = p
      <4>1. CASE p = n + 1
        BY <3>4, <4>1
      <4>2. CASE p \in 1 .. n
        <5>1. PICK i \in 1 .. m : at[i] = p
          BY <2>5, <2>6, <3>7, <4>2
        <5>2. i \in 1 .. m + 1 /\ bt[i] = p
          BY <3>4, <5>1
        <5>3. QED
          BY <5>2
      <4>3. QED
        BY <4>1, <4>2
    <3>8. Places(u, S, l, bt)
      BY <2>5, <3>1, <3>3, <3>5, <3>6, <3>7 DEF Places
    <3>9. Kept(u, S) = l
      BY <2>3, <2>8 DEF l
    <3>10. QED
      BY <2>5, <3>1, <3>8, <3>9 DEF u
  <2>9. QED
    BY <2>7, <2>8
<1>3. Seq(A) \subseteq Good
  <2> HIDE DEF Good
  <2>1. QED
    BY <1>1, <1>2, SeqSetInduction
<1>4. QED
  BY <1>3

\* What is kept is in the sequence and in the set.
LEMMA KeptFrom ==
  ASSUME NEW A, NEW S, NEW s \in Seq(A), NEW i \in DOMAIN Kept(s, S)
  PROVE  Kept(s, S)[i] \in S /\ Kept(s, S)[i] \in A /\ \E p \in DOMAIN s : Kept(s, S)[i] = s[p]
<1> DEFINE k == Kept(s, S)
<1>1. k \in Seq(A) /\ i \in DOMAIN k
  BY KeptIs
<1>2. PICK at : Places(s, S, k, at)
  BY KeptIs
<1> HIDE DEF k
<1>3. i \in 1 .. Len(k) /\ DOMAIN s = 1 .. Len(s)
  BY <1>1
<1>4. k[i] = s[at[i]] /\ s[at[i]] \in S /\ at[i] \in DOMAIN s
  BY <1>2, <1>3 DEF Places
<1>5. QED
  BY <1>1, <1>4 DEF k

----------------------------------------------------------------------------
(* Delimiters and parts. *)

\* The cuts ascend from before the first byte to behind the last; between are the delimiters.
CutsRight(bytes, d, cuts, n) ==
  /\ n \in Nat \ {0} /\ cuts \in [1 .. n + 1 -> Nat]
  /\ cuts[1] = 0 /\ cuts[n + 1] = Len(bytes) + 1
  /\ \A k \in 1 .. n : cuts[k] < cuts[k + 1]
  /\ \A k \in 2 .. n : cuts[k] <= Len(bytes) /\ bytes[cuts[k]] = d

\* Those that Cuts gives do.
LEMMA CutsAre ==
  ASSUME NEW T, NEW bytes \in Seq(T), NEW d
  PROVE  /\ Cuts(bytes, d) \in Seq(Nat)
         /\ CutsRight(bytes, d, Cuts(bytes, d), Len(Cuts(bytes, d)) - 1)
<1> DEFINE s == [i \in DOMAIN bytes |-> i]
           S == {i \in DOMAIN bytes : bytes[i] = d}
           k == Kept(s, S)
           c == <<0>> \o k
           cuts == c \o <<Len(bytes) + 1>>
<1>1. PICK L \in Nat : Len(bytes) = L
  OBVIOUS
<1>2. s \in Seq(Nat) /\ Len(s) = L /\ \A i \in 1 .. L : s[i] = i
  <2> DEFINE r == [i \in 1 .. L |-> i]
  <2>1. r \in Seq(Nat) /\ Len(r) = L /\ \A i \in 1 .. L : r[i] = i
    OBVIOUS
  <2>2. s = r
    BY <1>1
  <2> HIDE DEF r, s
  <2>3. QED
    BY <2>1, <2>2
<1>3. k \in Seq(Nat) /\ \E at : Places(s, S, k, at)
  <2> HIDE DEF s, S
  <2>1. QED
    BY <1>2, KeptIs
<1> HIDE DEF k, s, S
<1>4. PICK at : Places(s, S, k, at)
  BY <1>3
<1>5. PICK m \in Nat : Len(k) = m
  BY <1>3
<1>6. /\ at \in [1 .. m -> 1 .. L]
      /\ \A i, j \in 1 .. m : i < j => at[i] < at[j]
      /\ \A i \in 1 .. m : k[i] = s[at[i]] /\ s[at[i]] \in S
  BY <1>2, <1>4, <1>5 DEF Places
<1>7. \A i \in 1 .. m : k[i] = at[i] /\ k[i] \in 1 .. L /\ bytes[k[i]] = d
  BY <1>2, <1>6 DEF S
<1>8. c \in Seq(Nat) /\ Len(c) = m + 1 /\ c[1] = 0 /\ \A i \in 1 .. m : c[i + 1] = k[i]
  BY <1>3, <1>5
<1> HIDE DEF c
<1>9. /\ cuts \in Seq(Nat) /\ Len(cuts) = m + 2 /\ cuts[m + 2] = L + 1
      /\ \A i \in 1 .. m + 1 : cuts[i] = c[i]
  BY <1>1, <1>8
<1> HIDE DEF cuts
<1>10. cuts[1] = 0 /\ \A i \in 1 .. m : cuts[i + 1] = k[i]
  BY <1>8, <1>9
<1>11. ASSUME NEW i \in 1 .. m + 1 PROVE cuts[i] < cuts[i + 1]
  <2>1. CASE i = m + 1
    <3>1. CASE m = 0
      BY <1>9, <1>10, <2>1, <3>1
    <3>2. CASE m # 0
      <4>1. m \in 1 .. m /\ cuts[m + 1] = k[m]
        BY <1>10, <3>2
      <4>2. QED
        BY <1>7, <1>9, <2>1, <4>1
    <3>3. QED
      BY <3>1, <3>2
  <2>2. CASE i # m + 1 /\ i = 1
    <3>1. 1 \in 1 .. m /\ cuts[1 + 1] = k[1]
      BY <1>10, <2>2
    <3>2. QED
      BY <1>7, <1>10, <2>2, <3>1
  <2>3. CASE i # m + 1 /\ i # 1
    <3>1. i - 1 \in 1 .. m /\ i \in 1 .. m /\ i - 1 < i /\ (i - 1) + 1 = i
      BY <2>3
    <3>2. cuts[i] = k[i - 1] /\ cuts[i + 1] = k[i]
      BY <1>10, <3>1
    <3>3. at[i - 1] < at[i]
      BY <1>6, <3>1
    <3>4. QED
      BY <1>7, <3>1, <3>2, <3>3
  <2>4. QED
    BY <2>1, <2>2, <2>3
<1>12. ASSUME NEW i \in 2 .. m + 1 PROVE cuts[i] <= L /\ bytes[cuts[i]] = d
  <2>1. i - 1 \in 1 .. m /\ (i - 1) + 1 = i
    OBVIOUS
  <2>2. cuts[i] = k[i - 1]
    BY <1>10, <2>1
  <2>3. QED
    BY <1>7, <2>1, <2>2
<1>13. Cuts(bytes, d) = cuts
  BY DEF Cuts, Delimiters, cuts, c, k, s, S
<1>14. Len(cuts) - 1 = m + 1 /\ (m + 1) + 1 = m + 2 /\ m + 1 \in Nat \ {0} /\ cuts \in [1 .. m + 2 -> Nat]
  BY <1>9
<1>15. CutsRight(bytes, d, cuts, m + 1)
  BY <1>1, <1>9, <1>10, <1>11, <1>12, <1>14 DEF CutsRight
<1>16. QED
  BY <1>9, <1>13, <1>14, <1>15

\* The parts of a byte string lie between its cuts.
PartsRight(T, bytes, d, cuts, ranges, parts, n) ==
  /\ CutsRight(bytes, d, cuts, n)
  /\ ranges \in Seq([start : Nat, len : Nat]) /\ Len(ranges) = n
  /\ parts \in Seq(Seq(T)) /\ Len(parts) = n
  /\ \A k \in 1 .. n : /\ ranges[k] = [start |-> cuts[k], len |-> cuts[k + 1] - 1 - cuts[k]]
                       /\ parts[k] = Slice(bytes, cuts[k], cuts[k + 1] - 1)
                       /\ Within(bytes, cuts[k], cuts[k + 1] - 1)

\* Those that split gives do, and segment_ranges says where they are.
LEMMA PartsAre ==
  ASSUME NEW T, NEW bytes \in Seq(T), NEW d
  PROVE  PartsRight(T, bytes, d, Cuts(bytes, d), segment_ranges(bytes, d), split(bytes, d), Len(split(bytes, d)))
<1> DEFINE cuts == Cuts(bytes, d)
           n == Len(cuts) - 1
           R(k) == [start |-> cuts[k], len |-> cuts[k + 1] - 1 - cuts[k]]
           ranges == [k \in 1 .. n |-> R(k)]
           parts == [k \in 1 .. n |-> Segment(bytes, ranges[k])]
<1>1. CutsRight(bytes, d, cuts, n)
  BY CutsAre
<1>2. segment_ranges(bytes, d) = ranges
  BY DEF segment_ranges
<1> HIDE DEF cuts, n
<1>3. n \in Nat /\ n # 0
  BY <1>1 DEF CutsRight
<1>4. ASSUME NEW k \in 1 .. n
      PROVE  /\ cuts[k] \in Nat /\ cuts[k + 1] \in Nat /\ cuts[k] < cuts[k + 1]
             /\ cuts[k + 1] - 1 <= Len(bytes)
  <2>1. k \in 1 .. n + 1 /\ k + 1 \in 1 .. n + 1
    BY <1>3
  <2>2. Len(bytes) \in Nat
    OBVIOUS
  <2>3. CASE k = n
    BY <1>1, <2>1, <2>2, <2>3 DEF CutsRight
  <2>4. CASE k # n
    <3>1. k + 1 \in 2 .. n
      BY <1>3, <2>4
    <3>2. QED
      BY <1>1, <2>1, <2>2, <3>1 DEF CutsRight
  <2>5. QED
    BY <2>3, <2>4
<1>5. \A k \in 1 .. n : R(k) \in [start : Nat, len : Nat]
  BY <1>4
<1>6. ranges \in Seq([start : Nat, len : Nat]) /\ Len(ranges) = n /\ \A k \in 1 .. n : ranges[k] = R(k)
  <2> HIDE DEF R
  <2>1. QED
    BY <1>3, <1>5
<1> HIDE DEF ranges
<1>7. ASSUME NEW k \in 1 .. n
      PROVE  /\ Within(bytes, cuts[k], cuts[k + 1] - 1)
             /\ Segment(bytes, ranges[k]) = Slice(bytes, cuts[k], cuts[k + 1] - 1)
             /\ Segment(bytes, ranges[k]) \in Seq(T)
  <2> DEFINE a == cuts[k]
             b == cuts[k + 1] - 1
  <2>1. a \in Nat /\ b \in Nat /\ a <= b /\ b <= Len(bytes) /\ a + (b - a) = b
    BY <1>4
  <2>2. ranges[k].start = a /\ ranges[k].len = b - a
    BY <1>6
  <2> HIDE DEF a, b
  <2>3. Segment(bytes, ranges[k]) = Slice(bytes, a, b)
    BY <2>1, <2>2 DEF Segment
  <2>4. Within(bytes, a, b)
    BY <2>1 DEF Within
  <2>5. Slice(bytes, a, b) \in Seq(T)
    BY <2>4, SliceIs
  <2>6. QED
    BY <2>3, <2>4, <2>5 DEF a, b
<1>8. split(bytes, d) = parts
  <2>1. DOMAIN ranges = 1 .. n
    BY <1>3, <1>6
  <2>2. QED
    BY <1>2, <2>1 DEF split
<1>9. parts \in Seq(Seq(T)) /\ Len(parts) = n /\ \A k \in 1 .. n : parts[k] = Segment(bytes, ranges[k])
  BY <1>3, <1>7
<1> HIDE DEF parts
<1>10. QED
  <2>1. PartsRight(T, bytes, d, cuts, ranges, parts, n)
    BY <1>1, <1>6, <1>7, <1>9 DEF PartsRight
  <2>2. QED
    BY <1>2, <1>8, <1>9, <2>1 DEF cuts

----------------------------------------------------------------------------
(* Bytes that are repeated. *)

\* Repeated once more.
LEMMA RepeatedIs ==
  ASSUME NEW T, NEW s \in Seq(T), NEW n \in Nat
  PROVE  /\ Repeated(s, 0) = << >> /\ Repeated(s, n) \in Seq(T)
         /\ Repeated(s, n + 1) = Repeated(s, n) \o s
<1> DEFINE R(k) == [i \in 1 .. k |-> s]
           x == R(n)
           y == R(n + 1)
<1>1. x \in Seq(Seq(T)) /\ Len(x) = n /\ \A i \in 1 .. n : x[i] = s
  OBVIOUS
<1>2. y \in Seq(Seq(T)) /\ Len(y) = n + 1 /\ \A i \in 1 .. n + 1 : y[i] = s
  OBVIOUS
<1> HIDE DEF x, y
<1>3. y = Append(x, s)
  <2> DEFINE z == Append(x, s)
  <2>1. z \in Seq(Seq(T)) /\ Len(z) = n + 1 /\ \A i \in 1 .. n + 1 : z[i] = s
    BY <1>1
  <2> HIDE DEF z
  <2>2. y = z
    BY <1>2, <2>1
  <2>3. QED
    BY <2>2 DEF z
<1>4. FlattenSeq(x) \in Seq(T) /\ FlattenSeq(Append(x, s)) = FlattenSeq(x) \o s
  BY <1>1, FlattenType, FlattenAppend
<1>5. R(0) = << >>
  OBVIOUS
<1>6. Repeated(s, 0) = << >>
  BY <1>5, FlattenEmpty DEF Repeated
<1>7. Repeated(s, n) = FlattenSeq(x) /\ Repeated(s, n + 1) = FlattenSeq(y)
  BY DEF Repeated, x, y
<1>8. QED
  BY <1>3, <1>4, <1>6, <1>7

\* A part that follows on every delimiter is a delimiter and a part that are repeated.
LEMMA PartsRepeat ==
  ASSUME NEW T, NEW target \in Seq(T), NEW base \in Seq(T), NEW d \in T,
         Len(split(target, d)) >= 2, ToSet(split(target, d)) = {base}
  PROVE  target = base \o Repeated(<<d>> \o base, Len(split(target, d)) - 1)
<1> DEFINE cuts == Cuts(target, d)
           parts == split(target, d)
           n == Len(parts)
           L == Len(target)
           unit == <<d>> \o base
           To(k) == Slice(target, 0, cuts[k + 2] - 1)
           Right(k) == base \o Repeated(unit, k)
<1>1. PartsRight(T, target, d, cuts, segment_ranges(target, d), parts, n)
  BY PartsAre
<1>2. /\ CutsRight(target, d, cuts, n) /\ parts \in Seq(Seq(T))
      /\ \A k \in 1 .. n : /\ parts[k] = Slice(target, cuts[k], cuts[k + 1] - 1)
                           /\ Within(target, cuts[k], cuts[k + 1] - 1)
  <2> HIDE DEF cuts, parts, n
  <2>1. QED
    BY <1>1 DEF PartsRight
<1>3. n \in Nat /\ n >= 2 /\ L \in Nat
  BY <1>2
<1>4. \A k \in 1 .. n : parts[k] = base
  <2>1. DOMAIN parts = 1 .. n
    BY <1>2
  <2>2. QED
    BY <2>1 DEF ToSet
<1> HIDE DEF cuts, parts, n
<1>5. unit \in Seq(T)
  OBVIOUS
<1> HIDE DEF unit
<1>6. /\ cuts \in [1 .. n + 1 -> Nat] /\ cuts[1] = 0 /\ cuts[n + 1] = L + 1
      /\ \A k \in 1 .. n : cuts[k] < cuts[k + 1]
      /\ \A k \in 2 .. n : cuts[k] <= L /\ target[cuts[k]] = d
  BY <1>2 DEF CutsRight
<1> DEFINE S == {k \in 0 .. n - 1 : To(k) = Right(k)}
<1>7. 0 \in S
  <2>1. 1 \in 1 .. n /\ 0 + 2 = 1 + 1
    BY <1>3
  <2>2. To(0) = base
    BY <1>2, <1>4, <1>6, <2>1
  <2>3. Right(0) = base
    <3>1. Repeated(unit, 0) = << >>
      BY <1>5, RepeatedIs
    <3>2. QED
      BY <3>1
  <2>4. 0 \in 0 .. n - 1
    BY <1>3
  <2> HIDE DEF To, Right
  <2>5. QED
    BY <2>2, <2>3, <2>4
<1>8. ASSUME NEW k \in 0 .. n - 1, k \in S, k < n - 1 PROVE k + 1 \in S
  <2> DEFINE c == cuts[k + 2]
             b == cuts[k + 2] - 1
             e == cuts[k + 3] - 1
  <2>1. k \in Nat /\ k + 2 \in 2 .. n /\ k + 2 \in 1 .. n /\ (k + 2) + 1 = k + 3 /\ (k + 1) + 2 = k + 3
    BY <1>3, <1>8
  <2>2. c \in Nat /\ 0 < c /\ c <= L /\ target[c] = d
    <3>1. k + 1 \in 1 .. n /\ (k + 1) + 1 = k + 2 /\ k + 1 \in 1 .. n + 1 /\ k + 2 \in 1 .. n + 1
      BY <1>3, <2>1
    <3>2. QED
      BY <1>6, <2>1, <3>1
  <2>3. Slice(target, c, e) = base /\ Within(target, c, e)
    BY <1>2, <1>4, <2>1
  <2>4. b \in Nat /\ b + 1 = c /\ b <= c /\ Within(target, 0, b) /\ Within(target, b, c) /\ c - b = 1
    BY <1>3, <2>2 DEF Within
  <2>5. To(k) = Slice(target, 0, b) /\ To(k + 1) = Slice(target, 0, e)
    <3>1. To(k) = Slice(target, 0, b)
      OBVIOUS
    <3>2. To(k + 1) = Slice(target, 0, e)
      <4>1. (k + 1) + 2 = k + 3
        BY <2>1
      <4>2. QED
        BY <4>1
    <3>3. QED
      BY <3>1, <3>2
  <2>6. To(k) = Right(k)
    BY <1>8
  <2> HIDE DEF c, b, e, To, Right
  <2>7. Within(target, b, e) /\ Within(target, 0, e)
    BY <2>3, <2>4 DEF Within
  <2>8. Slice(target, b, c) = <<d>>
    <3> DEFINE x == Slice(target, b, c)
    <3>1. x \in Seq(T) /\ Len(x) = c - b /\ \A i \in 1 .. c - b : x[i] = target[b + i]
      BY <2>4, SliceIs
    <3> HIDE DEF x
    <3>2. x \in Seq(T) /\ Len(x) = 1 /\ x[1] = d
      BY <2>2, <2>4, <3>1
    <3>3. x = <<d>>
      BY <3>2
    <3>4. QED
      BY <3>3 DEF x
  <2>9. Slice(target, b, e) = unit
    <3>1. Slice(target, b, c) \o Slice(target, c, e) = Slice(target, b, e)
      BY <2>3, <2>4, SliceJoin
    <3>2. QED
      BY <2>3, <2>8, <3>1 DEF unit
  <2>10. To(k + 1) = Right(k) \o unit
    <3>1. Slice(target, 0, b) \o Slice(target, b, e) = Slice(target, 0, e)
      BY <2>4, <2>7, SliceJoin
    <3>2. QED
      BY <2>5, <2>6, <2>9, <3>1
  <2>11. Right(k) \o unit = Right(k + 1)
    <3> DEFINE x == Repeated(unit, k)
    <3>1. x \in Seq(T)
      BY <1>5, <2>1, RepeatedIs
    <3>2. Repeated(unit, k + 1) = x \o unit
      BY <1>5, <2>1, RepeatedIs
    <3> HIDE DEF x
    <3>3. (base \o x) \o unit = base \o (x \o unit)
      BY <1>5, <3>1, ConcatAssociative
    <3>4. QED
      BY <3>2, <3>3 DEF Right, x
  <2>12. k + 1 \in 0 .. n - 1
    BY <1>3, <1>8
  <2>13. QED
    BY <2>10, <2>11, <2>12
<1>9. n - 1 \in S
  <2> HIDE DEF S
  <2>1. n - 1 \in Nat
    BY <1>3
  <2>2. 0 .. n - 1 \subseteq S
    BY <1>7, <1>8, <2>1, IntervalInduction
  <2>3. QED
    BY <2>1, <2>2
<1>10. To(n - 1) = target
  <2>1. (n - 1) + 2 = n + 1 /\ cuts[n + 1] - 1 = L
    BY <1>3, <1>6
  <2>2. To(n - 1) = Slice(target, 0, L)
    BY <2>1
  <2>3. 0 \in 0 .. Len(target)
    BY <1>3
  <2>4. QED
    BY <2>2, <2>3, SliceEnds
<1>11. QED
  BY <1>9, <1>10 DEF unit, n, parts

----------------------------------------------------------------------------
(* Transforms that repeat. *)

\* A sequence is one of its own elements.
LEMMA InOwnSet ==
  ASSUME NEW A, NEW s \in Seq(A)
  PROVE  s \in Seq(ToSet(s)) /\ DOMAIN s = 1 .. Len(s) /\ \A i \in DOMAIN s : s[i] \in ToSet(s) /\ s[i] \in A
<1>1. PICK n \in Nat : Len(s) = n
  OBVIOUS
<1>2. \A i \in 1 .. n : s[i] \in ToSet(s)
  BY <1>1 DEF ToSet
<1>3. s = [i \in 1 .. n |-> s[i]]
  BY <1>1
<1>4. QED
  BY <1>1, <1>2, <1>3

\* A repeated motif at the end rebuilds the target.
LEMMA DuplicationsRebuild ==
  ASSUME NEW T, NEW base \in Seq(T), NEW target \in Seq(T), NEW cat, NEW ref, Gives(cat, ref, base)
  PROVE  AllRebuild(cat, DuplicationCandidates(ref, motif_duplicate_plan(base, target)), target)
<1> DEFINE plan == motif_duplicate_plan(base, target)
           p == Len(base)
           q == Len(target)
           rest == SubSeq(target, p + 1, q)
           lens == {n \in 1 .. p : /\ Len(rest) % n = 0
                                   /\ rest = Repeated(SubSeq(base, p - n + 1, p), Len(rest) \div n)}
           Widest(n) == \A k \in lens : k <= n
           n == CHOOSE n \in lens : Widest(n)
           r == Len(rest) \div n
           params == <<plan.value.start, plan.value.len, plan.value.repeats>>
           c == TransformCandidate("MotifDuplicateCompress", <<ref>>, params, <<>>, 12, 3, 18, TRUE)
           d == TransformCandidate("BoundedDuplication", <<ref>>, params, <<>>, 12, 3, 16, TRUE)
<1>1. ASSUME plan.ok PROVE ApplyDuplication(base, params) = Done(target)
  <2>1. q > p /\ IsPrefix(base, target) /\ lens # {}
    BY <1>1 DEF motif_duplicate_plan, Failed
  <2>2. plan = Done([start |-> p - n, len |-> n, repeats |-> r])
    BY <1>1 DEF motif_duplicate_plan, Failed
  <2>3. p \in Nat /\ q \in Nat /\ lens \in SUBSET (0 .. p)
    OBVIOUS
  <2>4. n \in lens
    <3>1. \E m \in lens : Widest(m)
      <4> HIDE DEF lens, p
      <4>1. Max(lens) \in lens /\ \A k \in lens : k <= Max(lens)
        BY <2>1, <2>3, LargestIs
      <4>2. QED
        BY <4>1
    <3> HIDE DEF Widest, lens
    <3>2. QED
      BY <3>1
  <2>5. n \in Nat /\ n # 0 /\ n <= p /\ rest = Repeated(SubSeq(base, p - n + 1, p), r)
    <3> DEFINE Fits(m) == /\ Len(rest) % m = 0
                          /\ rest = Repeated(SubSeq(base, p - m + 1, p), Len(rest) \div m)
    <3>1. n \in 1 .. p /\ Fits(n)
      <4> HIDE DEF Fits, n, p, rest
      <4>1. n \in {m \in 1 .. p : Fits(m)}
        BY <2>4 DEF Fits
      <4>2. QED
        BY <4>1
    <3> HIDE DEF n, p, rest
    <3>2. QED
      BY <2>3, <3>1
  <2>6. params = <<p - n, n, r>>
    <3>1. plan.value = [start |-> p - n, len |-> n, repeats |-> r]
      <4> HIDE DEF n, r, p
      <4>1. QED
        BY <2>2 DEF Done
    <3> HIDE DEF plan, n, r, p
    <3>2. QED
      BY <3>1
  <2> HIDE DEF n, r, lens, plan, params
  <2>7. Slice(base, p - n, (p - n) + n) = SubSeq(base, p - n + 1, p)
    <3>1. (p - n) + n = p
      BY <2>3, <2>5
    <3>2. QED
      BY <3>1 DEF Slice
  <2>8. target = base \o rest
    <3>1. Within(target, 0, p) /\ p \in 0 .. Len(target)
      BY <2>1, <2>3 DEF Within
    <3>2. Slice(target, 0, p) = base
      <4>1. SubSeq(base, 1, p) = base
        BY SubSeqFull
      <4>2. SubSeq(base, 1, p) = SubSeq(target, 1, p)
        BY <2>1 DEF IsPrefix
      <4>3. Slice(target, 0, p) = SubSeq(target, 1, p)
        BY DEF Slice
      <4>4. QED
        BY <4>1, <4>2, <4>3
    <3>3. Slice(target, p, q) = rest
      BY DEF Slice
    <3> HIDE DEF p, rest
    <3>4. Slice(target, 0, p) \o Slice(target, p, Len(target)) = target
      BY <3>1, SliceEnds
    <3>5. QED
      BY <3>2, <3>3, <3>4
  <2>9. checked_range(Len(base), p - n, n)
    BY <2>3, <2>5 DEF checked_range
  <2> HIDE DEF rest
  <2>10. QED
    BY <2>5, <2>6, <2>7, <2>8, <2>9 DEF ApplyDuplication
<1>2. DuplicationCandidates(ref, plan) = IF plan.ok THEN <<c, d>> ELSE << >>
  BY DEF DuplicationCandidates
<1> HIDE DEF plan, params
<1>3. ASSUME plan.ok PROVE Rebuilds(cat, c, target) /\ Rebuilds(cat, d, target)
  <2>1. /\ c.kind = "MotifDuplicateCompress" /\ c.refs = <<ref>> /\ c.params = params
        /\ d.kind = "BoundedDuplication" /\ d.refs = <<ref>> /\ d.params = params
    BY DEF TransformCandidate
  <2> HIDE DEF c, d
  <2>2. ApplyToOne(c, base) = Done(target) /\ ApplyToOne(d, base) = Done(target)
    BY <1>1, <1>3, <2>1 DEF ApplyToOne
  <2>3. QED
    BY <2>1, <2>2, FromOne
<1> HIDE DEF c, d
<1>4. QED
  BY <1>2, <1>3, TwoRebuild, NoneRebuild DEF plan

\* A base repeated with delimiters between.
LEMMA ExpansionsRebuild ==
  ASSUME NEW T, NEW base \in Seq(T), NEW target \in Seq(T), NEW cat, NEW ref, Gives(cat, ref, base)
  PROVE  AllRebuild(cat, ExpansionCandidates(ref, delimited_repeat_plan(base, target)), target)
<1> DEFINE plan == delimited_repeat_plan(base, target)
           S == {d \in ToSet(RepeatDelimiters) : /\ Len(split(target, d)) >= 2
                                                 /\ ToSet(split(target, d)) = {base}}
           usable == Kept(RepeatDelimiters, S)
           d == usable[1]
           n == Len(split(target, d))
           c == TransformCandidate("SchemaConditionedExpansion", <<ref>>, <<plan.value.repeats>>,
                  <<<<plan.value.delimiter>>>>, 9, 3, 12, FALSE)
           A == ToSet(RepeatDelimiters)
           U == T \cup A
<1>1. ASSUME plan.ok PROVE Rebuilds(cat, c, target)
  <2>1. usable # << >> /\ plan = Done([delimiter |-> d, repeats |-> n])
    BY <1>1 DEF delimited_repeat_plan, Failed
  <2>2. RepeatDelimiters \in Seq(A)
    <3>1. RepeatDelimiters \in Seq({"|", ",", ";", ":", " "})
      BY DEF RepeatDelimiters
    <3> DEFINE s == RepeatDelimiters
    <3> HIDE DEF s
    <3>2. s \in Seq(ToSet(s))
      BY <3>1, InOwnSet DEF s
    <3>3. QED
      BY <3>2 DEF s
  <2>3. usable \in Seq(A)
    <3> HIDE DEF S, A
    <3>1. QED
      BY <2>2, KeptIs
  <2>4. 1 \in DOMAIN usable
    <3> HIDE DEF usable
    <3>1. Len(usable) \in Nat \ {0}
      BY <2>1, <2>3, EmptySeq
    <3>2. QED
      BY <2>3, <3>1
  <2>5. d \in S /\ d \in A
    <3> HIDE DEF S, A
    <3>1. QED
      BY <2>2, <2>4, KeptFrom
  <2> HIDE DEF usable, A
  <2>6. Len(split(target, d)) >= 2 /\ ToSet(split(target, d)) = {base}
    BY <2>5
  <2> HIDE DEF S, d
  <2>7. base \in Seq(U) /\ target \in Seq(U) /\ d \in U
    BY <2>5, SeqMonotonic
  <2> HIDE DEF U
  <2>8. target = base \o Repeated(<<d>> \o base, n - 1)
    BY <2>6, <2>7, PartsRepeat
  <2> HIDE DEF n
  <2>9. plan.value.repeats = n /\ plan.value.delimiter = d
    BY <2>1 DEF Done
  <2> HIDE DEF plan
  <2>10. c.kind = "SchemaConditionedExpansion" /\ c.refs = <<ref>> /\ c.params = <<n>> /\ c.residuals = <<<<d>>>>
    BY <2>9 DEF TransformCandidate
  <2> HIDE DEF c
  <2>11. c.params[1] = n /\ c.residuals[1] = <<d>>
    BY <2>10
  <2>12. ApplyShape(c, base) = Done(target)
    BY <2>8, <2>10, <2>11 DEF ApplyShape
  <2>13. ApplyToOne(c, base) = Done(target)
    BY <2>10, <2>12 DEF ApplyToOne
  <2>14. QED
    BY <2>10, <2>13, FromOne
<1>2. ExpansionCandidates(ref, plan) = IF plan.ok THEN <<c>> ELSE << >>
  BY DEF ExpansionCandidates
<1> HIDE DEF c
<1>3. QED
  BY <1>1, <1>2, OneRebuilds, NoneRebuild

\* A base repeated.
LEMMA RepeatsRebuild ==
  ASSUME NEW base, NEW target, NEW cat, NEW ref, Gives(cat, ref, base)
  PROVE  AllRebuild(cat, RepeatCandidates(ref, repeated_motif_expansion_plan(base, target)), target)
<1> DEFINE plan == repeated_motif_expansion_plan(base, target)
           n == Len(target) \div Len(base)
           c == TransformCandidate("RepeatedMotifExpansion", <<ref>>, <<plan.value>>, <<>>, 6, 2, 14, TRUE)
<1>1. ASSUME plan.ok PROVE Rebuilds(cat, c, target)
  <2>1. target = Repeated(base, n) /\ plan = Done(n)
    BY <1>1 DEF repeated_motif_expansion_plan, Failed
  <2>2. c.kind = "RepeatedMotifExpansion" /\ c.refs = <<ref>> /\ c.params = <<n>>
    BY <2>1 DEF TransformCandidate, Done
  <2> HIDE DEF c, n, plan
  <2>3. ApplyToOne(c, base) = Done(target)
    BY <2>1, <2>2 DEF ApplyToOne, ApplyShape
  <2>4. QED
    BY <2>2, <2>3, FromOne
<1>2. RepeatCandidates(ref, plan) = IF plan.ok THEN <<c>> ELSE << >>
  BY DEF RepeatCandidates
<1> HIDE DEF c
<1>3. QED
  BY <1>1, <1>2, OneRebuilds, NoneRebuild

----------------------------------------------------------------------------
(* Transforms that keep a base whole or take parts of it. *)

\* A base that a target begins with.
LEMMA PrefixIs ==
  ASSUME NEW T, NEW base \in Seq(T), NEW target \in Seq(T), IsPrefix(base, target)
  PROVE  Len(base) <= Len(target) /\ target = base \o Slice(target, Len(base), Len(target))
<1> DEFINE p == Len(base)
<1>1. p \in Nat /\ p <= Len(target)
  BY DEF IsPrefix
<1>2. Within(target, 0, p) /\ p \in 0 .. Len(target)
  BY <1>1 DEF Within
<1>3. Slice(target, 0, p) = base
  <2>1. SubSeq(base, 1, p) = base
    BY SubSeqFull
  <2>2. SubSeq(base, 1, p) = SubSeq(target, 1, p)
    BY DEF IsPrefix
  <2>3. Slice(target, 0, p) = SubSeq(target, 1, p)
    BY DEF Slice
  <2>4. QED
    BY <2>1, <2>2, <2>3
<1> HIDE DEF p
<1>4. Slice(target, 0, p) \o Slice(target, p, Len(target)) = target
  BY <1>2, SliceEnds
<1>5. QED
  BY <1>1, <1>3, <1>4 DEF p

\* A base that a target ends with.
LEMMA SuffixIs ==
  ASSUME NEW T, NEW base \in Seq(T), NEW target \in Seq(T), IsSuffix(base, target)
  PROVE  /\ Len(base) <= Len(target)
         /\ Slice(target, Len(target) - Len(base), Len(target)) = base
         /\ target = Slice(target, 0, Len(target) - Len(base)) \o base
<1> DEFINE p == Len(base)
           q == Len(target)
           rb == Reverse(base)
           rt == Reverse(target)
           a == q - p
           x == Slice(target, a, q)
<1>1. rb \in Seq(T) /\ Len(rb) = p /\ \A i \in 1 .. p : rb[i] = base[p - i + 1]
  BY ReverseIs
<1>2. rt \in Seq(T) /\ Len(rt) = q /\ \A i \in 1 .. q : rt[i] = target[q - i + 1]
  BY ReverseIs
<1>3. IsPrefix(rb, rt)
  BY DEF IsSuffix
<1>4. p \in Nat /\ q \in Nat
  OBVIOUS
<1> HIDE DEF rb, rt
<1>5. p <= q /\ SubSeq(rb, 1, p) = SubSeq(rt, 1, p)
  BY <1>1, <1>2, <1>3 DEF IsPrefix
<1>6. ASSUME NEW i \in 1 .. p PROVE rb[i] = rt[i]
  <2>1. SubSeq(rb, 1, p)[i] = rb[i]
    BY <1>1, <1>4
  <2>2. SubSeq(rt, 1, p)[i] = rt[i]
    BY <1>2, <1>4, <1>5
  <2>3. QED
    BY <1>5, <2>1, <2>2
<1>7. a \in Nat /\ Within(target, a, q) /\ a \in 0 .. q /\ q - a = p
  BY <1>4, <1>5 DEF Within
<1>8. x \in Seq(T) /\ Len(x) = p /\ \A i \in 1 .. p : x[i] = target[a + i]
  <2> HIDE DEF a, q
  <2>1. QED
    BY <1>7, SliceIs
<1>9. ASSUME NEW i \in 1 .. p PROVE x[i] = base[i]
  <2> DEFINE j == p - i + 1
  <2>1. j \in 1 .. p /\ p - j + 1 = i /\ q - j + 1 = a + i /\ j \in 1 .. q
    BY <1>4, <1>5
  <2> HIDE DEF j
  <2>2. rb[j] = base[i] /\ rt[j] = target[a + i]
    <3>1. rb[j] = base[p - j + 1] /\ rt[j] = target[q - j + 1]
      BY <1>1, <1>2, <2>1
    <3>2. QED
      BY <2>1, <3>1
  <2>3. rb[j] = rt[j]
    BY <1>6, <2>1
  <2>4. x[i] = target[a + i]
    BY <1>8
  <2>5. QED
    BY <2>2, <2>3, <2>4
<1> HIDE DEF x
<1>10. x = base
  BY <1>8, <1>9
<1>11. Slice(target, 0, a) \o Slice(target, a, q) = target
  <2> HIDE DEF a
  <2>1. QED
    BY <1>7, SliceEnds
<1>12. QED
  BY <1>5, <1>10, <1>11 DEF x

\* A set on which a number is given has a member with the least.
LEMMA LeastOf ==
  ASSUME NEW S, S # {}, NEW f \in [S -> Nat]
  PROVE  \E m \in S : \A k \in S : f[m] <= f[k]
<1> DEFINE N == {f[k] : k \in S}
<1>1. N \in SUBSET Nat /\ N # {}
  OBVIOUS
<1>2. PICK n \in N : \A k \in N : n <= k
  <2> HIDE DEF N
  <2>1. QED
    BY <1>1, LeastNumber
<1>3. QED
  BY <1>2

\* Bytes put in front, behind, and around.
LEMMA InsertsRebuild ==
  ASSUME NEW T, NEW base \in Seq(T), NEW target \in Seq(T), NEW cat, NEW ref, Gives(cat, ref, base)
  PROVE  AllRebuild(cat, InsertCandidates(ref, prefix_insert_plan(base, target), suffix_insert_plan(base, target),
                                          wrap_plan(base, target)), target)
<1> DEFINE prefix == prefix_insert_plan(base, target)
           suffix == suffix_insert_plan(base, target)
           wrap == wrap_plan(base, target)
           p == TransformCandidate("PrefixInsert", <<ref>>, <<>>, <<prefix.value>>,
                               Bytes(<<prefix.value>>) + 4, 1, 10, FALSE)
           s == TransformCandidate("SuffixInsert", <<ref>>, <<>>, <<suffix.value>>,
                               Bytes(<<suffix.value>>) + 4, 1, 10, FALSE)
           w == TransformCandidate("Wrap", <<ref>>, <<>>, <<wrap.value.prefix, wrap.value.suffix>>,
                               Bytes(<<wrap.value.prefix, wrap.value.suffix>>) + 8, 2, 12, FALSE)
           ps == IF prefix.ok THEN <<p>> ELSE << >>
           ss == IF suffix.ok THEN <<s>> ELSE << >>
           ws == IF wrap.ok THEN <<w>> ELSE << >>
<1>1. ASSUME prefix.ok PROVE Rebuilds(cat, p, target)
  <2>1. prefix.value = Slice(target, 0, Len(target) - Len(base)) /\ IsSuffix(base, target)
    BY <1>1 DEF prefix_insert_plan, Failed, Done
  <2>2. target = prefix.value \o base
    <3> HIDE DEF prefix
    <3>1. QED
      BY <2>1, SuffixIs
  <2>3. p.kind = "PrefixInsert" /\ p.refs = <<ref>> /\ p.residuals = <<prefix.value>>
    BY DEF TransformCandidate
  <2> HIDE DEF p, prefix
  <2>4. ApplyToOne(p, base) = Done(target)
    BY <2>2, <2>3 DEF ApplyToOne, ApplyInsert
  <2>5. QED
    BY <2>3, <2>4, FromOne
<1>2. ASSUME suffix.ok PROVE Rebuilds(cat, s, target)
  <2>1. suffix.value = Slice(target, Len(base), Len(target)) /\ IsPrefix(base, target)
    BY <1>2 DEF suffix_insert_plan, Failed, Done
  <2>2. target = base \o suffix.value
    <3> HIDE DEF suffix
    <3>1. QED
      BY <2>1, PrefixIs
  <2>3. s.kind = "SuffixInsert" /\ s.refs = <<ref>> /\ s.residuals = <<suffix.value>>
    BY DEF TransformCandidate
  <2> HIDE DEF s, suffix
  <2>4. ApplyToOne(s, base) = Done(target)
    BY <2>2, <2>3 DEF ApplyToOne, ApplyInsert
  <2>5. QED
    BY <2>3, <2>4, FromOne
<1>3. ASSUME wrap.ok PROVE Rebuilds(cat, w, target)
  <2> DEFINE b == Len(base)
             q == Len(target)
             places == {at \in 1 .. q - b - 1 : Slice(target, at, at + b) = base}
             at == CHOOSE at \in places : \A other \in places : at <= other
             head == Slice(target, 0, at)
             rest == Slice(target, at + b, q)
  <2>1. places # {} /\ wrap = Done([prefix |-> head, suffix |-> rest])
    BY <1>3 DEF wrap_plan, Failed
  <2>2. at \in places
    <3>1. places \in SUBSET Nat
      OBVIOUS
    <3> HIDE DEF places
    <3>2. \E m \in places : \A other \in places : m <= other
      BY <2>1, <3>1, LeastNumber
    <3>3. QED
      BY <3>2
  <2>3. wrap.value.prefix = head /\ wrap.value.suffix = rest
    <3> HIDE DEF head, rest
    <3>1. QED
      BY <2>1 DEF Done
  <2> HIDE DEF at, wrap
  <2>4. b \in Nat /\ q \in Nat /\ at \in 1 .. q - b - 1 /\ Slice(target, at, at + b) = base
    BY <2>2
  <2>5. target = head \o base \o rest
    <3> DEFINE e == at + b
    <3>1. e \in Nat /\ Within(target, 0, at) /\ Within(target, at, e) /\ Within(target, 0, e) /\ Within(target, e, q)
      BY <2>4 DEF Within
    <3>2. Slice(target, at, e) = base /\ rest = Slice(target, e, q)
      BY <2>4
    <3> HIDE DEF e, q
    <3>3. Slice(target, 0, at) \o Slice(target, at, e) = Slice(target, 0, e)
      BY <3>1, SliceJoin
    <3>4. Slice(target, 0, e) \o Slice(target, e, q) = Slice(target, 0, q)
      BY <3>1, SliceJoin
    <3>5. Slice(target, 0, q) = target
      <4>1. 0 \in 0 .. Len(target)
        OBVIOUS
      <4>2. QED
        BY <4>1, SliceEnds DEF q
    <3> HIDE DEF rest
    <3>6. QED
      BY <3>2, <3>3, <3>4, <3>5
  <2>6. w.kind = "Wrap" /\ w.refs = <<ref>> /\ w.residuals = <<wrap.value.prefix, wrap.value.suffix>>
    BY DEF TransformCandidate
  <2> HIDE DEF w, head, rest
  <2>7. ApplyToOne(w, base) = Done(target)
    BY <2>3, <2>5, <2>6 DEF ApplyToOne, ApplyInsert
  <2>8. QED
    BY <2>6, <2>7, FromOne
<1> HIDE DEF p, s, w
<1>4. AllRebuild(cat, ps, target) /\ AllRebuild(cat, ss, target) /\ AllRebuild(cat, ws, target)
  BY <1>1, <1>2, <1>3, OneRebuilds, NoneRebuild
<1>5. InsertCandidates(ref, prefix, suffix, wrap) = ps \o ss \o ws
  BY DEF InsertCandidates, p, s, w
<1> HIDE DEF ps, ss, ws, prefix, suffix, wrap
<1>6. QED
  BY <1>4, <1>5, JoinedRebuild DEF prefix, suffix, wrap

\* Bytes put in and taken out.
LEMMA InteriorsRebuild ==
  ASSUME NEW T, NEW base \in Seq(T), NEW target \in Seq(T), NEW cat, NEW ref, Gives(cat, ref, base)
  PROVE  AllRebuild(cat, InteriorCandidates(ref, bounded_interior_insert_plan(base, target),
                                            bounded_delete_plan(base, target)), target)
<1> DEFINE start == common_prefix_len(base, target)
           tail == CommonSuffix(base, target, start)
           fill == Slice(target, start, Len(target) - tail)
           remove == Len(base) - tail - start
           insert == bounded_interior_insert_plan(base, target)
           delete == bounded_delete_plan(base, target)
           c == TransformCandidate("BoundedInteriorInsert", <<ref>>, <<insert.value.offset>>,
                  <<insert.value.inserted>>, Bytes(<<insert.value.inserted>>) + 8, 2, 12, FALSE)
           d == TransformCandidate("BoundedDelete", <<ref>>, <<delete.value.start, delete.value.len>>,
                  <<>>, 6, 2, 10, TRUE)
           cs == IF insert.ok THEN <<c>> ELSE << >>
           ds == IF delete.ok THEN <<d>> ELSE << >>
<1>1. insert.ok => /\ insert.value = [offset |-> start, inserted |-> fill]
                   /\ Len(base) - tail = start
  BY DEF bounded_interior_insert_plan, Failed, Done
<1>2. delete.ok => /\ delete.value = [start |-> start, len |-> Len(base) - tail - start]
                   /\ Len(target) - tail = start
  BY DEF bounded_delete_plan, Failed, Done
<1> HIDE DEF insert, delete
<1>3. /\ start \in Nat /\ start <= Len(base) /\ start <= Len(target)
      /\ Slice(base, 0, start) = Slice(target, 0, start)
  BY CommonBeginning
<1> HIDE DEF start
<1>4. /\ tail \in Nat /\ start + tail <= Len(base) /\ start + tail <= Len(target)
      /\ Slice(base, Len(base) - tail, Len(base)) = Slice(target, Len(target) - tail, Len(target))
  BY <1>3, CommonEnd
<1> HIDE DEF tail
<1>5. Splice(base, start, remove, fill) = Done(target)
  BY <1>3, <1>4, PatchedBack
<1>6. ASSUME insert.ok PROVE Rebuilds(cat, c, target)
  <2>1. c.kind = "BoundedInteriorInsert" /\ c.refs = <<ref>> /\ c.params[1] = start /\ c.residuals[1] = fill
    <3> HIDE DEF fill
    <3>1. insert.value.offset = start /\ insert.value.inserted = fill
      BY <1>1, <1>6
    <3>2. QED
      BY <3>1 DEF TransformCandidate
  <2>2. remove = 0
    BY <1>1, <1>3, <1>4, <1>6
  <2> HIDE DEF c, fill, remove
  <2>3. ApplyToOne(c, base) = Done(target)
    BY <1>5, <2>1, <2>2 DEF ApplyToOne, ApplyInsert
  <2>4. QED
    BY <2>1, <2>3, FromOne
<1>7. ASSUME delete.ok PROVE Rebuilds(cat, d, target)
  <2>1. d.kind = "BoundedDelete" /\ d.refs = <<ref>> /\ d.params[1] = start /\ d.params[2] = remove
    <3> HIDE DEF remove
    <3>1. delete.value.start = start /\ delete.value.len = remove
      BY <1>2, <1>7 DEF remove
    <3>2. QED
      BY <3>1 DEF TransformCandidate
  <2>2. fill = << >>
    <3>1. start \in 0 .. Len(target)
      BY <1>3
    <3>2. fill = Slice(target, start, start)
      BY <1>2, <1>7
    <3>3. QED
      BY <3>1, <3>2, SliceEnds
  <2> HIDE DEF d, fill, remove
  <2>3. ApplyToOne(d, base) = Done(target)
    BY <1>5, <2>1, <2>2 DEF ApplyToOne, ApplyCut
  <2>4. QED
    BY <2>1, <2>3, FromOne
<1> HIDE DEF c, d
<1>8. AllRebuild(cat, cs, target) /\ AllRebuild(cat, ds, target)
  BY <1>6, <1>7, OneRebuilds, NoneRebuild
<1>9. InteriorCandidates(ref, insert, delete) = cs \o ds
  BY DEF InteriorCandidates, c, d
<1> HIDE DEF cs, ds
<1>10. QED
  BY <1>8, <1>9, JoinedRebuild DEF insert, delete

\* Parts in another order, and every so many bytes.
LEMMA SelectionsRebuild ==
  ASSUME NEW T, NEW base \in Seq(T), NEW target \in Seq(T), NEW cat, NEW ref, Gives(cat, ref, base)
  PROVE  AllRebuild(cat, SelectionCandidates(ref, role_permutation_plan(base, target),
                                             strided_selection_plan(base, target)), target)
<1> DEFINE width == role_permutation_plan(base, target)
           stride == strided_selection_plan(base, target)
           c == TransformCandidate("RolePermutation", <<ref>>, <<width.value>>, <<>>, 6, 2, 16, TRUE)
           d == TransformCandidate("StridedSelection", <<ref>>, <<stride.value.offset, stride.value.stride>>,
                               <<>>, 6, 2, 14, TRUE)
           cs == IF width.ok THEN <<c>> ELSE << >>
           ds == IF stride.ok THEN <<d>> ELSE << >>
<1>1. ASSUME width.ok PROVE FlattenSeq(Reverse(chunks(base, width.value))) = target
  <2> DEFINE widths == {w \in 1 .. Len(base) : /\ Len(chunks(base, w)) >= 2
                                          /\ FlattenSeq(Reverse(chunks(base, w))) = target}
             w == CHOOSE w \in widths : \A v \in widths : w <= v
  <2>1. widths # {} /\ width.value = w
    BY <1>1 DEF role_permutation_plan, Failed, Done
  <2>2. w \in widths
    <3>1. widths \in SUBSET Nat
      OBVIOUS
    <3> HIDE DEF widths
    <3>2. \E m \in widths : \A v \in widths : m <= v
      BY <2>1, <3>1, LeastNumber
    <3>3. QED
      BY <3>2
  <2> HIDE DEF w
  <2>3. QED
    BY <2>1, <2>2
<1>2. ASSUME stride.ok PROVE Strided(base, stride.value.offset, stride.value.stride) = target
  <2> DEFINE found == {p \in [offset : 0 .. Len(base), stride : 2 .. Len(base)] :
                    p.offset < p.stride /\ p.offset < Len(base) /\ Strided(base, p.offset, p.stride) = target}
             First(p) == \A q \in found : p.stride < q.stride \/ (p.stride = q.stride /\ p.offset <= q.offset)
             s == CHOOSE p \in found : First(p)
  <2>1. found # {} /\ stride.value = s
    BY <1>2 DEF strided_selection_plan, Failed, Done
  <2>2. s \in found
    <3>1. \A p \in found : p.offset \in Nat /\ p.stride \in Nat
      OBVIOUS
    <3> HIDE DEF found
    <3>2. PICK m \in found : \A q \in found : m.stride <= q.stride
      <4> DEFINE f == [p \in found |-> p.stride]
      <4>1. f \in [found -> Nat] /\ \A p \in found : f[p] = p.stride
        BY <3>1
      <4> HIDE DEF f
      <4>2. \E m \in found : \A k \in found : f[m] <= f[k]
        BY <2>1, <4>1, LeastOf
      <4>3. QED
        BY <4>1, <4>2
    <3> DEFINE equal == {p \in found : p.stride = m.stride}
    <3>3. PICK o \in equal : \A q \in equal : o.offset <= q.offset
      <4> DEFINE f == [p \in equal |-> p.offset]
      <4>1. f \in [equal -> Nat] /\ (\A p \in equal : f[p] = p.offset) /\ equal # {}
        BY <3>1
      <4> HIDE DEF f, equal
      <4>2. \E n \in equal : \A k \in equal : f[n] <= f[k]
        BY <4>1, LeastOf
      <4>3. QED
        BY <4>1, <4>2
    <3>4. o \in found /\ First(o)
      <4>1. ASSUME NEW q \in found PROVE o.stride < q.stride \/ (o.stride = q.stride /\ o.offset <= q.offset)
        <5>1. o.stride = m.stride /\ m.stride <= q.stride /\ m.stride \in Nat /\ q.stride \in Nat
          BY <3>1, <3>2, <3>3
        <5>2. q.stride = m.stride => o.offset <= q.offset
          BY <3>3
        <5>3. QED
          BY <5>1, <5>2
      <4>2. QED
        BY <3>3, <4>1
    <3> HIDE DEF First
    <3>5. QED
      BY <3>4
  <2> HIDE DEF s
  <2>3. QED
    BY <2>1, <2>2
<1> HIDE DEF width, stride
<1>3. ASSUME width.ok PROVE Rebuilds(cat, c, target)
  <2>1. c.kind = "RolePermutation" /\ c.refs = <<ref>> /\ c.params[1] = width.value
    BY DEF TransformCandidate
  <2> HIDE DEF c
  <2>2. ApplyToOne(c, base) = Done(target)
    BY <1>1, <1>3, <2>1 DEF ApplyToOne, ApplyShape
  <2>3. QED
    BY <2>1, <2>2, FromOne
<1>4. ASSUME stride.ok PROVE Rebuilds(cat, d, target)
  <2>1. /\ d.kind = "StridedSelection" /\ d.refs = <<ref>>
        /\ d.params[1] = stride.value.offset /\ d.params[2] = stride.value.stride
    BY DEF TransformCandidate
  <2> HIDE DEF d
  <2>2. ApplyToOne(d, base) = Done(target)
    BY <1>2, <1>4, <2>1 DEF ApplyToOne, ApplyShape
  <2>3. QED
    BY <2>1, <2>2, FromOne
<1> HIDE DEF c, d
<1>5. AllRebuild(cat, cs, target) /\ AllRebuild(cat, ds, target)
  BY <1>3, <1>4, OneRebuilds, NoneRebuild
<1>6. SelectionCandidates(ref, width, stride) = cs \o ds
  BY DEF SelectionCandidates, c, d
<1> HIDE DEF cs, ds
<1>7. QED
  BY <1>5, <1>6, JoinedRebuild DEF width, stride

----------------------------------------------------------------------------
(* Two bases joined. *)

\* Spots of two bases out of m, which are as long as span says.
AreSpots(n, m, span, spots) ==
  /\ n \in Nat /\ m \in Nat /\ span \in [1 .. m -> Nat]
  /\ spots \in SUBSET [split : 1 .. n, left : 1 .. m, right : 1 .. m]

ComesBefore(span, s, t) ==
  \/ span[s.left] + span[s.right] < span[t.left] + span[t.right]
  \/ /\ span[s.left] + span[s.right] = span[t.left] + span[t.right]
     /\ \/ s.split < t.split
        \/ s.split = t.split /\ s.left < t.left
        \/ s.split = t.split /\ s.left = t.left /\ s.right < t.right

\* Two pairs of numbers in their order.
LEMMA PairsOrdered ==
  ASSUME NEW a \in Nat, NEW b \in Nat, NEW c \in Nat, NEW d \in Nat, a <= b, a = b => c <= d /\ c # d
  PROVE  a < b \/ (a = b /\ c < d)
OBVIOUS

\* A spot that comes before all others.
LEMMA FirstSpot ==
  ASSUME NEW n, NEW m, NEW span, NEW spots, AreSpots(n, m, span, spots), spots # {}
  PROVE  \E s \in spots : \A t \in spots \ {s} : ComesBefore(span, s, t)
<1>1. /\ n \in Nat /\ m \in Nat /\ span \in [1 .. m -> Nat]
      /\ spots \in SUBSET [split : 1 .. n, left : 1 .. m, right : 1 .. m]
  BY DEF AreSpots
<1> DEFINE Sum(s) == span[s.left] + span[s.right]
<1>2. \A s \in spots : /\ s.split \in Nat /\ s.left \in Nat /\ s.right \in Nat /\ Sum(s) \in Nat
                       /\ s = [split |-> s.split, left |-> s.left, right |-> s.right]
  <2>1. ASSUME NEW s \in spots
        PROVE  /\ s.split \in 1 .. n /\ s.left \in 1 .. m /\ s.right \in 1 .. m
               /\ s = [split |-> s.split, left |-> s.left, right |-> s.right]
    BY <1>1
  <2>2. QED
    BY <1>1, <2>1
<1> DEFINE f1 == [s \in spots |-> Sum(s)]
<1>3. PICK a \in spots : \A s \in spots : Sum(a) <= Sum(s)
  <2>1. f1 \in [spots -> Nat] /\ \A s \in spots : f1[s] = Sum(s)
    BY <1>2
  <2> HIDE DEF f1, Sum
  <2>2. \E x \in spots : \A s \in spots : f1[x] <= f1[s]
    BY <2>1, LeastOf
  <2>3. QED
    BY <2>1, <2>2
<1> HIDE DEF Sum
<1> DEFINE A == {s \in spots : Sum(s) = Sum(a)}
           f2 == [s \in A |-> s.split]
<1>4. PICK b \in A : \A s \in A : b.split <= s.split
  <2>1. f2 \in [A -> Nat] /\ (\A s \in A : f2[s] = s.split) /\ A # {}
    BY <1>2
  <2> HIDE DEF f2, A
  <2>2. \E x \in A : \A s \in A : f2[x] <= f2[s]
    BY <2>1, LeastOf
  <2>3. QED
    BY <2>1, <2>2
<1> DEFINE B == {s \in A : s.split = b.split}
           f3 == [s \in B |-> s.left]
<1>5. PICK c \in B : \A s \in B : c.left <= s.left
  <2>1. f3 \in [B -> Nat] /\ (\A s \in B : f3[s] = s.left) /\ B # {}
    BY <1>2
  <2> HIDE DEF f3, B
  <2>2. \E x \in B : \A s \in B : f3[x] <= f3[s]
    BY <2>1, LeastOf
  <2>3. QED
    BY <2>1, <2>2
<1> DEFINE C == {s \in B : s.left = c.left}
           f4 == [s \in C |-> s.right]
<1>6. PICK d \in C : \A s \in C : d.right <= s.right
  <2>1. f4 \in [C -> Nat] /\ (\A s \in C : f4[s] = s.right) /\ C # {}
    BY <1>2
  <2> HIDE DEF f4, C
  <2>2. \E x \in C : \A s \in C : f4[x] <= f4[s]
    BY <2>1, LeastOf
  <2>3. QED
    BY <2>1, <2>2
<1>7. d \in spots /\ Sum(d) = Sum(a) /\ d.split = b.split /\ d.left = c.left
  OBVIOUS
<1> HIDE DEF f1, f2, f3, f4
<1>8. ASSUME NEW t \in spots \ {d}
      PROVE  \/ Sum(d) < Sum(t)
             \/ /\ Sum(d) = Sum(t)
                /\ \/ d.split < t.split
                   \/ d.split = t.split /\ d.left < t.left
                   \/ d.split = t.split /\ d.left = t.left /\ d.right < t.right
  <2>1. /\ t.split \in Nat /\ t.left \in Nat /\ t.right \in Nat /\ Sum(t) \in Nat
        /\ d.split \in Nat /\ d.left \in Nat /\ d.right \in Nat /\ Sum(d) \in Nat
    BY <1>2, <1>7
  <2>2. ~(t.split = d.split /\ t.left = d.left /\ t.right = d.right)
    BY <1>2, <1>7, <1>8
  <2>3. Sum(d) <= Sum(t)
    BY <1>3, <1>7
  <2>4. Sum(t) = Sum(d) => d.split <= t.split
    BY <1>4, <1>7
  <2>5. Sum(t) = Sum(d) /\ t.split = d.split => d.left <= t.left
    BY <1>5, <1>7
  <2>6. Sum(t) = Sum(d) /\ t.split = d.split /\ t.left = d.left => d.right <= t.right
    BY <1>6, <1>7
  <2> HIDE DEF A, B, C
  <2>7. CASE Sum(t) # Sum(d)
    BY <2>1, <2>3, <2>7
  <2>8. CASE Sum(t) = Sum(d)
    <3>1. d.split <= t.split
      BY <2>4, <2>8
    <3>2. CASE d.split # t.split
      BY <2>1, <2>8, <3>1, <3>2
    <3>3. CASE d.split = t.split
      <4>1. d.left <= t.left
        BY <2>5, <2>8, <3>3
      <4>2. d.left = t.left => d.right <= t.right /\ d.right # t.right
        BY <2>2, <2>6, <2>8, <3>3
      <4>3. d.left < t.left \/ (d.left = t.left /\ d.right < t.right)
        BY <2>1, <4>1, <4>2, PairsOrdered
      <4>4. QED
        BY <2>8, <3>3, <4>3
    <3>4. QED
      BY <3>2, <3>3
  <2>9. QED
    BY <2>7, <2>8
<1>9. QED
  BY <1>7, <1>8 DEF Sum, ComesBefore

\* Bases that resolve.
Resolve(T, cat, bases) ==
  \A i \in DOMAIN bases : bases[i].bytes \in Seq(T) /\ Gives(cat, bases[i].ref, bases[i].bytes)

\* A transform of two bases.
LEMMA FromTwo ==
  ASSUME NEW cat, NEW c, NEW refs, NEW left, NEW right, NEW target, c.refs = <<refs[1], refs[2]>>,
         Gives(cat, refs[1], left), Gives(cat, refs[2], right),
         c.kind = "SpliceFromTwoBases", ApplySpliceOfTwo(c, left, right) = Done(target)
  PROVE  Rebuilds(cat, c, target)
<1> DEFINE bases == [i \in DOMAIN c.refs |-> resolve_transform_basis(cat, c.refs[i])]
           out == IF c.kind = "SpliceFromTwoBases" THEN ApplySpliceOfTwo(c, bases[1].value, bases[2].value)
                  ELSE ApplyToOne(c, bases[1].value)
<1>1. DOMAIN bases = {1, 2} /\ bases[1] = Done(left) /\ bases[2] = Done(right)
  BY DEF Gives
<1> HIDE DEF bases
<1>2. out = Done(target)
  BY <1>1 DEF Done
<1>3. out.ok /\ Len(out.value) = Len(target) /\ \A i \in DOMAIN bases : bases[i].ok
  BY <1>1, <1>2 DEF Done
<1>4. apply_transform_instance(cat, c, Len(target))
        = IF (\A i \in DOMAIN bases : bases[i].ok) /\ out.ok /\ Len(out.value) = Len(target) THEN out ELSE Failed
  BY DEF apply_transform_instance, bases
<1> HIDE DEF out
<1>5. QED
  BY <1>2, <1>3, <1>4 DEF Rebuilds

\* One base that ends where another begins.
LEMMA SplicesRebuild ==
  ASSUME NEW T, NEW target \in Seq(T), NEW cat, NEW R, NEW bases \in Seq(R), Resolve(T, cat, bases)
  PROVE  AllRebuild(cat, SpliceCandidates(splice_from_two_bases_plan(target, bases)), target)
<1> DEFINE plan == splice_from_two_bases_plan(target, bases)
           c == TransformCandidate("SpliceFromTwoBases", <<plan.value.left, plan.value.right>>,
                  <<plan.value.left_len, plan.value.right_start>>, <<>>, 8, 2, 16, TRUE)
           q == Len(target)
           m == Len(bases)
           spots == {s \in [split : 1 .. Len(target) - 1, left : DOMAIN bases, right : DOMAIN bases] :
                       /\ s.left # s.right
                       /\ IsPrefix(Slice(target, 0, s.split), bases[s.left].bytes)
                       /\ IsSuffix(Slice(target, s.split, Len(target)), bases[s.right].bytes)}
           Span(s) == Len(bases[s.left].bytes) + Len(bases[s.right].bytes)
           Earlier(s, t) == \/ s.split < t.split
                            \/ s.split = t.split /\ s.left < t.left
                            \/ s.split = t.split /\ s.left = t.left /\ s.right < t.right
           First(s) == \A t \in spots \ {s} : Span(s) < Span(t) \/ (Span(s) = Span(t) /\ Earlier(s, t))
           s == CHOOSE s \in spots : First(s)
           left == bases[s.left].bytes
           right == bases[s.right].bytes
<1>1. ASSUME plan.ok PROVE Rebuilds(cat, c, target)
  <2>1. spots # {} /\ plan = Done([left |-> bases[s.left].ref, right |-> bases[s.right].ref, left_len |-> s.split,
                       right_start |-> Len(bases[s.right].bytes) - (Len(target) - s.split)])
    BY <1>1 DEF splice_from_two_bases_plan, Failed
  <2>2. s \in spots
    <3>1. m \in Nat /\ DOMAIN bases = 1 .. m /\ q \in Nat
      OBVIOUS
    <3> DEFINE span == [i \in 1 .. m |-> Len(bases[i].bytes)]
    <3>2. span \in [1 .. m -> Nat] /\ \A i \in 1 .. m : span[i] = Len(bases[i].bytes)
      <4>1. \A i \in 1 .. m : Len(bases[i].bytes) \in Nat
        BY <3>1 DEF Resolve
      <4>2. QED
        BY <4>1
    <3> HIDE DEF m, span
    <3>3. spots \in SUBSET [split : 1 .. q, left : 1 .. m, right : 1 .. m]
      BY <3>1
    <3>4. \A t \in spots : t.left \in 1 .. m /\ t.right \in 1 .. m
      BY <3>1
    <3> HIDE DEF spots, q
    <3>5. PICK o \in spots : \A t \in spots \ {o} : ComesBefore(span, o, t)
      <4>1. AreSpots(q, m, span, spots) /\ spots # {}
        BY <2>1, <3>1, <3>2, <3>3 DEF AreSpots
      <4>2. QED
        BY <4>1, FirstSpot
    <3>6. \A t \in spots : Span(t) = span[t.left] + span[t.right]
      BY <3>2, <3>4
    <3>7. First(o)
      BY <3>5, <3>6 DEF ComesBefore
    <3> HIDE DEF First
    <3>8. QED
      BY <3>7
  <2>3. /\ plan.value.left = bases[s.left].ref /\ plan.value.right = bases[s.right].ref
        /\ plan.value.left_len = s.split /\ plan.value.right_start = Len(right) - (q - s.split)
    <3> HIDE DEF s
    <3>1. QED
      BY <2>1 DEF Done
  <2> HIDE DEF s, plan
  <2>4. /\ s.split \in 1 .. q - 1 /\ s.left \in DOMAIN bases /\ s.right \in DOMAIN bases
        /\ IsPrefix(Slice(target, 0, s.split), left) /\ IsSuffix(Slice(target, s.split, q), right)
    BY <2>2
  <2> HIDE DEF spots
  <2>5. left \in Seq(T) /\ right \in Seq(T) /\ Gives(cat, bases[s.left].ref, left) /\ Gives(cat, bases[s.right].ref, right)
    BY <2>4 DEF Resolve
  <2> HIDE DEF left, right
  <2> DEFINE at == s.split
             head == Slice(target, 0, at)
             rest == Slice(target, at, q)
             r == Len(right) - (q - at)
  <2>6. q \in Nat /\ at \in Nat /\ at <= q /\ Within(target, 0, at) /\ Within(target, at, q) /\ at \in 0 .. Len(target)
    BY <2>4 DEF Within
  <2>7. head \in Seq(T) /\ Len(head) = at - 0 /\ rest \in Seq(T) /\ Len(rest) = q - at
    <3> HIDE DEF at, q
    <3>1. QED
      BY <2>6, SliceIs
  <2>8. head \o rest = target
    <3> HIDE DEF at
    <3>1. QED
      BY <2>6, SliceEnds
  <2> HIDE DEF head, rest
  <2>9. at <= Len(left) /\ Slice(left, 0, at) = head
    <3>1. IsPrefix(head, left)
      BY <2>4 DEF head
    <3>2. SubSeq(head, 1, Len(head)) = head
      BY <2>7, SubSeqFull
    <3>3. Len(head) = at
      BY <2>6, <2>7
    <3>4. QED
      BY <3>1, <3>2, <3>3 DEF IsPrefix, Slice
  <2>10. Len(rest) <= Len(right) /\ Slice(right, Len(right) - Len(rest), Len(right)) = rest
    <3>1. IsSuffix(rest, right)
      BY <2>4 DEF rest
    <3>2. QED
      BY <2>5, <2>7, <3>1, SuffixIs
  <2>11. r <= Len(right) /\ Slice(right, r, Len(right)) = rest
    <3>1. Len(right) - Len(rest) = r
      BY <2>7
    <3>2. Len(right) \in Nat
      BY <2>5
    <3>3. QED
      BY <2>6, <2>10, <3>1, <3>2
  <2>12. /\ c.kind = "SpliceFromTwoBases" /\ c.refs = <<bases[s.left].ref, bases[s.right].ref>>
         /\ c.params[1] = at /\ c.params[2] = r
    <3> HIDE DEF at, r
    <3>1. plan.value.left_len = at /\ plan.value.right_start = r
      BY <2>3 DEF at, r
    <3>2. QED
      BY <2>3, <3>1 DEF TransformCandidate
  <2> HIDE DEF c, r, at
  <2>13. ApplySpliceOfTwo(c, left, right) = Done(target)
    BY <2>8, <2>9, <2>11, <2>12 DEF ApplySpliceOfTwo
  <2> DEFINE refs == <<bases[s.left].ref, bases[s.right].ref>>
  <2>14. refs[1] = bases[s.left].ref /\ refs[2] = bases[s.right].ref
    OBVIOUS
  <2>15. c.refs = <<refs[1], refs[2]>>
    BY <2>12, <2>14
  <2> HIDE DEF refs
  <2>16. QED
    BY <2>5, <2>12, <2>13, <2>14, <2>15, FromTwo
<1>2. SpliceCandidates(plan) = IF plan.ok THEN <<c>> ELSE << >>
  BY DEF SpliceCandidates
<1> HIDE DEF c
<1>3. QED
  BY <1>1, <1>2, OneRebuilds, NoneRebuild DEF plan

----------------------------------------------------------------------------
(* Parts that are reordered. *)

\* Sequences that lie one after the other are as long as both.
LEMMA LenJoined ==
  ASSUME NEW A, NEW s \in Seq(A), NEW t \in Seq(A)
  PROVE  /\ s \o t \in Seq(A) /\ Len(s) \in Nat /\ Len(t) \in Nat
         /\ Len(s \o t) = Len(s) + Len(t)
OBVIOUS

\* What is kept of two sequences that lie one after the other.
LEMMA KeptConcat ==
  ASSUME NEW A, NEW S, NEW s \in Seq(A), NEW t \in Seq(A)
  PROVE  Kept(s \o t, S) = Kept(s, S) \o Kept(t, S)
<1> DEFINE Good == {u \in Seq(A) : Kept(s \o u, S) = Kept(s, S) \o Kept(u, S)}
<1>1. << >> \in Good
  <2>1. s \o << >> = s /\ Kept(s, S) \in Seq(A) /\ Kept(<< >>, S) = << >>
    BY KeptEmpty, KeptIs
  <2> DEFINE k == Kept(s, S)
  <2>2. k \in Seq(A) => k \o << >> = k
    <3> HIDE DEF k
    <3>1. QED
      OBVIOUS
  <2>3. QED
    BY <2>1, <2>2
<1>2. ASSUME NEW u \in Seq(A), NEW e \in A, u \in Good PROVE Append(u, e) \in Good
  <2> DEFINE last == IF e \in S THEN <<e>> ELSE << >>
             k == Kept(s, S)
             l == Kept(u, S)
             w == s \o u
  <2>1. s \o Append(u, e) = Append(w, e)
    BY AppendToConcat
  <2>2. w \in Seq(A) /\ Append(u, e) \in Seq(A)
    OBVIOUS
  <2>3. last \in Seq(A)
    OBVIOUS
  <2>4. Kept(w, S) = k \o l
    BY <1>2
  <2> HIDE DEF w
  <2>5. Kept(Append(w, e), S) = Kept(w, S) \o last
    BY <2>2, KeptAppend
  <2>6. Kept(Append(u, e), S) = l \o last
    BY KeptAppend
  <2>7. l \in Seq(A) /\ k \in Seq(A)
    BY KeptIs
  <2> HIDE DEF k, l, last
  <2>8. (k \o l) \o last = k \o (l \o last)
    <3> HIDE DEF Good
    <3>1. k \in Seq(A)
      BY <2>7
    <3>2. l \in Seq(A)
      BY <2>7
    <3>3. QED
      BY ONLY <2>3, <3>1, <3>2, ConcatAssociative, SMTT(60)
  <2>9. QED
    BY <2>1, <2>2, <2>4, <2>5, <2>6, <2>8 DEF k
<1>3. Seq(A) \subseteq Good
  <2> HIDE DEF Good
  <2>1. QED
    BY <1>1, <1>2, SeqSetInduction
<1>4. QED
  BY <1>3

\* A beginning that is longer by one element.
LEMMA SliceNext ==
  ASSUME NEW A, NEW s \in Seq(A), NEW k \in Nat, k < Len(s)
  PROVE  /\ Slice(s, 0, k) \in Seq(A) /\ Len(Slice(s, 0, k)) = k /\ s[k + 1] \in A
         /\ Slice(s, k, k + 1) = <<s[k + 1]>>
         /\ Slice(s, 0, k + 1) = Append(Slice(s, 0, k), s[k + 1])
<1> DEFINE x == Slice(s, 0, k)
           n == k + 1
           y == Slice(s, k, n)
           e == s[k + 1]
<1>1. Within(s, 0, k) /\ Within(s, k, n)
  BY DEF Within
<1>2. n - k = 1 /\ e \in A
  OBVIOUS
<1> HIDE DEF n
<1>3. x \in Seq(A) /\ Len(x) = k
  <2>1. x \in Seq(A) /\ Len(x) = k - 0
    BY <1>1, SliceIs
  <2>2. QED
    BY <2>1
<1>4. y \in Seq(A)
  BY <1>1, SliceIs
<1>5. Len(y) = 1
  <2>1. Len(y) = n - k
    BY <1>1, SliceIs
  <2>2. QED
    BY <1>2, <2>1
<1>6. y[1] = e
  <2>1. \A i \in 1 .. n - k : Slice(s, k, n)[i] = s[k + i]
    BY <1>1, SliceIs
  <2>2. 1 \in 1 .. n - k
    BY <1>2
  <2>3. QED
    BY <2>1, <2>2
<1>7. Slice(s, 0, n) = x \o y
  BY <1>1, SliceJoin
<1> HIDE DEF x, y, e
<1>8. y = <<e>>
  BY <1>4, <1>5, <1>6
<1>9. x \o <<e>> = Append(x, e)
  BY <1>2, <1>3
<1>10. QED
  BY <1>2, <1>3, <1>7, <1>8, <1>9 DEF x, y, n, e

\* A sequence around one of its places.
LEMMA Around ==
  ASSUME NEW A, NEW s \in Seq(A), NEW p \in 1 .. Len(s)
  PROVE  LET u == Slice(s, 0, p - 1)
             v == Slice(s, p, Len(s))
         IN  u \in Seq(A) /\ v \in Seq(A) /\ s = (u \o <<s[p]>>) \o v /\ Len(u \o v) = Len(s) - 1
<1> DEFINE k == p - 1
           u == Slice(s, 0, k)
           v == Slice(s, p, Len(s))
<1>1. k \in Nat /\ k < Len(s) /\ k + 1 = p /\ p \in 0 .. Len(s) /\ Within(s, p, Len(s)) /\ Len(s) \in Nat
  BY DEF Within
<1> HIDE DEF k
<1>2. u \in Seq(A) /\ Len(u) = k /\ s[p] \in A /\ Slice(s, 0, p) = Append(u, s[p])
  BY <1>1, SliceNext
<1>3. v \in Seq(A) /\ Len(v) = Len(s) - p
  BY <1>1, SliceIs
<1>4. Slice(s, 0, p) \o v = s
  BY <1>1, SliceEnds
<1> HIDE DEF u, v
<1>5. Append(u, s[p]) = u \o <<s[p]>>
  BY <1>2
<1>6. Len(u \o v) = Len(s) - 1
  BY <1>1, <1>2, <1>3
<1>7. QED
  BY <1>2, <1>3, <1>4, <1>5, <1>6 DEF u, v, k

\* How often an element is in a sequence.
Count(s, x) == Len(Kept(s, {x}))

\* One element more counts once.
LEMMA CountAppend ==
  ASSUME NEW A, NEW s \in Seq(A), NEW e \in A, NEW x
  PROVE  Count(s, x) \in Nat /\ Count(Append(s, e), x) = Count(s, x) + (IF x = e THEN 1 ELSE 0)
<1> DEFINE X == {x}
           last == IF e \in X THEN <<e>> ELSE << >>
           k == Kept(s, X)
<1>1. last \in Seq(A) /\ Len(last) = IF x = e THEN 1 ELSE 0
  OBVIOUS
<1> HIDE DEF X
<1>2. Kept(Append(s, e), X) = k \o last
  BY KeptAppend
<1>3. k \in Seq(A)
  BY KeptIs
<1> HIDE DEF k, last
<1>4. Len(k) \in Nat /\ Len(k \o last) = Len(k) + Len(last)
  BY <1>1, <1>3, LenJoined
<1>5. Count(s, x) = Len(k) /\ Count(Append(s, e), x) = Len(k \o last)
  BY <1>2 DEF Count, k, X
<1>6. QED
  BY <1>1, <1>4, <1>5

\* An element between others counts once.
LEMMA CountBetween ==
  ASSUME NEW A, NEW s \in Seq(A), NEW t \in Seq(A), NEW e \in A, NEW x
  PROVE  /\ Count(s \o t, x) \in Nat
         /\ Count(Append(s, e) \o t, x) = Count(s \o t, x) + (IF x = e THEN 1 ELSE 0)
<1> DEFINE X == {x}
           k == Kept(s, X)
           l == Kept(t, X)
           m == Kept(Append(s, e), X)
           u == Append(s, e)
<1> HIDE DEF X
<1>1. k \in Seq(A)
  BY KeptIs
<1>2. l \in Seq(A)
  BY KeptIs
<1>3. u \in Seq(A)
  OBVIOUS
<1> HIDE DEF u
<1>4. Kept(u, X) \in Seq(A)
  BY <1>3, KeptIs
<1>5. Kept(s \o t, X) = k \o l
  BY KeptConcat
<1>6. Kept(u \o t, X) = Kept(u, X) \o l
  BY <1>3, KeptConcat
<1>7. Len(m) = Len(k) + (IF x = e THEN 1 ELSE 0)
  BY CountAppend DEF Count, X
<1>8. m = Kept(u, X)
  BY DEF u
<1> HIDE DEF k, l, m
<1>9. m \in Seq(A)
  BY <1>4, <1>8
<1>10. Len(k \o l) = Len(k) + Len(l) /\ Len(m \o l) = Len(m) + Len(l) /\ Len(k) \in Nat /\ Len(l) \in Nat
  BY <1>1, <1>2, <1>9
<1>11. Count(s \o t, x) = Len(k \o l) /\ Count(u \o t, x) = Len(m \o l)
  BY <1>5, <1>6, <1>8 DEF Count, X
<1>12. Count(s \o t, x) \in Nat /\ Count(u \o t, x) = Count(s \o t, x) + (IF x = e THEN 1 ELSE 0)
  BY <1>7, <1>10, <1>11
<1>13. QED
  BY <1>12 DEF u

\* What counts is there.
LEMMA CountHas ==
  ASSUME NEW A, NEW s \in Seq(A), NEW x, Count(s, x) # 0
  PROVE  \E p \in 1 .. Len(s) : s[p] = x
<1> DEFINE X == {x}
           k == Kept(s, X)
<1> HIDE DEF X
<1>1. k \in Seq(A)
  BY KeptIs
<1>2. Len(k) # 0
  BY DEF Count, X
<1> HIDE DEF k
<1>3. 1 \in DOMAIN k
  BY <1>1, <1>2
<1>4. PICK p \in DOMAIN s : k[1] = s[p] /\ k[1] \in X
  BY <1>3, KeptFrom DEF k
<1>5. s[p] = x
  BY <1>4 DEF X
<1>6. QED
  BY <1>4, <1>5

\* The same parts in another order are as long together.
LEMMA BagLen ==
  ASSUME NEW T, NEW s \in Seq(Seq(T)), NEW t \in Seq(Seq(T)), SameBag(s, t)
  PROVE  Len(FlattenSeq(s)) = Len(FlattenSeq(t))
<1> DEFINE P == Seq(T)
           Good == {a \in Seq(P) : \A b \in Seq(P) : SameBag(a, b) => Len(FlattenSeq(a)) = Len(FlattenSeq(b))}
<1>1. << >> \in Good
  <2>1. ASSUME NEW b \in Seq(P), SameBag(<< >>, b) PROVE b = << >>
    <3>1. Len(b) = 0
      BY <2>1 DEF SameBag
    <3> HIDE DEF P
    <3>2. QED
      BY <3>1
  <2>2. QED
    BY <2>1
<1>2. ASSUME NEW a \in Seq(P), NEW e \in P, a \in Good PROVE Append(a, e) \in Good
  <2> DEFINE c == Append(a, e)
  <2> HIDE DEF P
  <2>1. PICK n \in Nat : Len(a) = n
    OBVIOUS
  <2>2. c \in Seq(P) /\ Len(c) = n + 1 /\ c[n + 1] = e /\ \A i \in 1 .. n : c[i] = a[i]
    BY <2>1
  <2>3. e \in ToSet(c) /\ ToSet(a) \subseteq ToSet(c)
    <3>1. DOMAIN c = 1 .. n + 1 /\ DOMAIN a = 1 .. n /\ n + 1 \in 1 .. n + 1 /\ 1 .. n \subseteq 1 .. n + 1
      BY <2>1, <2>2
    <3> HIDE DEF c
    <3>2. e \in ToSet(c)
      BY <2>2, <3>1 DEF ToSet
    <3>3. ASSUME NEW x \in ToSet(a) PROVE x \in ToSet(c)
      <4>1. PICK i \in 1 .. n : x = a[i]
        BY <3>1 DEF ToSet
      <4>2. i \in DOMAIN c /\ c[i] = x
        BY <2>2, <3>1, <4>1
      <4>3. QED
        BY <4>2 DEF ToSet
    <3>4. QED
      BY <3>2, <3>3
  <2>4. ASSUME NEW x PROVE Count(c, x) = Count(a, x) + (IF x = e THEN 1 ELSE 0) /\ Count(a, x) \in Nat
    BY CountAppend
  <2> HIDE DEF c
  <2>5. ASSUME NEW b \in Seq(P), SameBag(c, b) PROVE Len(FlattenSeq(c)) = Len(FlattenSeq(b))
    <3>1. Len(b) = n + 1 /\ \A x \in ToSet(c) : Count(c, x) = Count(b, x)
      BY <2>2, <2>5 DEF SameBag, Count
    <3>2. PICK p \in 1 .. Len(b) : b[p] = e
      <4>1. Count(b, e) # 0
        BY <2>3, <2>4, <3>1
      <4>2. QED
        BY <4>1, CountHas
    <3> DEFINE u == Slice(b, 0, p - 1)
               v == Slice(b, p, Len(b))
               w == Append(u, e)
               d == u \o v
    <3>3. u \in Seq(P) /\ v \in Seq(P) /\ b = (u \o <<e>>) \o v /\ Len(d) = Len(b) - 1
      BY <3>2, Around
    <3> HIDE DEF u, v
    <3>4. w \in Seq(P) /\ u \o <<e>> = w
      BY <3>3
    <3>5. b = w \o v /\ d \in Seq(P) /\ Len(d) = n
      BY <3>1, <3>3, <3>4
    <3>6. SameBag(a, d)
      <4>1. ASSUME NEW x \in ToSet(a) PROVE Count(a, x) = Count(d, x)
        <5>1. Count(c, x) = Count(b, x)
          BY <2>3, <3>1, <4>1
        <5>2. Count(w \o v, x) = Count(d, x) + (IF x = e THEN 1 ELSE 0) /\ Count(d, x) \in Nat
          BY <3>3, CountBetween
        <5>3. Count(b, x) = Count(w \o v, x)
          BY <3>5
        <5>4. Count(c, x) = Count(a, x) + (IF x = e THEN 1 ELSE 0) /\ Count(a, x) \in Nat
          BY <2>4
        <5> HIDE DEF d, w
        <5>5. QED
          BY <5>1, <5>2, <5>3, <5>4
      <4> HIDE DEF d
      <4>2. QED
        BY <2>1, <3>5, <4>1 DEF SameBag, Count
    <3>7. Len(FlattenSeq(a)) = Len(FlattenSeq(d))
      BY <1>2, <3>5, <3>6
    <3> DEFINE fa == FlattenSeq(a)
               fu == FlattenSeq(u)
               fv == FlattenSeq(v)
               fw == FlattenSeq(w)
               fb == FlattenSeq(b)
               fc == FlattenSeq(c)
               fd == FlattenSeq(d)
    <3> USE DEF P
    <3>8. fc = fa \o e
      BY FlattenAppend DEF c
    <3>9. fa \in Seq(T)
      BY FlattenType
    <3>10. fd = fu \o fv
      BY <3>3, FlattenConcat
    <3>11. fu \in Seq(T)
      BY <3>3, FlattenType
    <3>12. fv \in Seq(T)
      BY <3>3, FlattenType
    <3>13. fw = fu \o e
      BY <3>3, FlattenAppend
    <3>14. fb = fw \o fv
      <4> HIDE DEF w
      <4>1. FlattenSeq(w \o v) = FlattenSeq(w) \o FlattenSeq(v)
        BY <3>3, <3>4, FlattenConcat
      <4>2. QED
        BY <3>5, <4>1
    <3>15. e \in Seq(T)
      OBVIOUS
    <3> HIDE DEF fa, fu, fv, fw, fb, fc, fd
    <3>16. fw \in Seq(T) /\ Len(fw) = Len(fu) + Len(e) /\ Len(fc) = Len(fa) + Len(e) /\ Len(fd) = Len(fu) + Len(fv)
      BY <3>8, <3>9, <3>10, <3>11, <3>12, <3>13, <3>15
    <3>17. Len(fb) = Len(fw) + Len(fv)
      <4>1. fw \in Seq(T)
        BY <3>16
      <4>2. QED
        BY <3>12, <3>14, <4>1, LenJoined
    <3>18. Len(fa) = Len(fd)
      BY <3>7 DEF fa, fd
    <3>19. Len(fu) \in Nat /\ Len(fv) \in Nat /\ Len(e) \in Nat
      BY <3>11, <3>12, <3>15
    <3>20. Len(fc) = Len(fb)
      BY <3>16, <3>17, <3>18, <3>19
    <3>21. QED
      BY <3>20 DEF fc, fb
  <2>6. QED
    BY <2>2, <2>5 DEF c
<1>3. Seq(P) \subseteq Good
  <2> HIDE DEF Good, P
  <2>1. QED
    BY <1>1, <1>2, SeqSetInduction
<1>4. QED
  BY <1>3

\* The parts and the delimiters between them make up the whole length.
LEMMA PartsLen ==
  ASSUME NEW T, NEW bytes \in Seq(T), NEW d
  PROVE  /\ split(bytes, d) \in Seq(Seq(T)) /\ Len(FlattenSeq(split(bytes, d))) \in Nat
         /\ Len(bytes) = Len(FlattenSeq(split(bytes, d))) + Len(split(bytes, d)) - 1
<1> DEFINE cuts == Cuts(bytes, d)
           parts == split(bytes, d)
           n == Len(parts)
           Flat(k) == FlattenSeq(Slice(parts, 0, k))
           S == {k \in 0 .. n : Len(Flat(k)) = cuts[k + 1] - k}
<1>1. PartsRight(T, bytes, d, cuts, segment_ranges(bytes, d), parts, n)
  BY PartsAre
<1> HIDE DEF cuts, parts
<1>2. /\ parts \in Seq(Seq(T)) /\ n \in Nat /\ n # 0
      /\ cuts \in [1 .. n + 1 -> Nat] /\ cuts[1] = 0 /\ cuts[n + 1] = Len(bytes) + 1
      /\ \A k \in 1 .. n : /\ parts[k] = Slice(bytes, cuts[k], cuts[k + 1] - 1)
                           /\ Within(bytes, cuts[k], cuts[k + 1] - 1)
  BY <1>1 DEF PartsRight, CutsRight
<1> HIDE DEF n
<1>3. 0 \in S
  <2>1. Slice(parts, 0, 0) = << >>
    <3>1. 0 \in 0 .. Len(parts)
      BY <1>2 DEF n
    <3>2. QED
      BY <1>2, <3>1, SliceEnds
  <2>2. Flat(0) = << >>
    BY <2>1, FlattenEmpty
  <2> HIDE DEF Flat
  <2>3. QED
    BY <1>2, <2>2
<1>4. ASSUME NEW k \in 0 .. n, k \in S, k < n PROVE k + 1 \in S
  <2> DEFINE x == Slice(parts, 0, k)
             e == parts[k + 1]
             a == cuts[k + 1]
             b == cuts[k + 2] - 1
  <2>1. k \in Nat /\ k < Len(parts) /\ k + 1 \in 1 .. n /\ (k + 1) + 1 = k + 2 /\ k + 2 \in 1 .. n + 1 /\ k + 1 \in 1 .. n + 1
    BY <1>2, <1>4 DEF n
  <2>2. x \in Seq(Seq(T)) /\ e \in Seq(T) /\ Slice(parts, 0, k + 1) = Append(x, e)
    BY <1>2, <2>1, SliceNext
  <2>3. e = Slice(bytes, a, b) /\ Within(bytes, a, b)
    BY <1>2, <2>1
  <2>4. a \in Nat /\ b \in Nat /\ Len(e) = b - a /\ cuts[k + 2] \in Nat
    <3>1. a \in Nat /\ cuts[k + 2] \in Nat
      BY <1>2, <2>1
    <3> HIDE DEF a, b, e
    <3>2. b \in Nat
      BY <2>3 DEF Within
    <3>3. QED
      BY <2>3, <3>1, <3>2, SliceIs
  <2>5. FlattenSeq(Append(x, e)) = FlattenSeq(x) \o e /\ FlattenSeq(x) \in Seq(T)
    BY <2>2, FlattenAppend, FlattenType
  <2>6. Len(FlattenSeq(x)) = a - k
    BY <1>4
  <2>7. Len(Flat(k + 1)) = Len(FlattenSeq(x)) + Len(e)
    <3> DEFINE f == FlattenSeq(x)
    <3>1. Flat(k + 1) = f \o e
      BY <2>2, <2>5
    <3> HIDE DEF f, Flat, e
    <3>2. QED
      BY <2>2, <2>5, <3>1 DEF f
  <2>8. Len(Flat(k + 1)) = cuts[k + 2] - (k + 1)
    <3> HIDE DEF Flat, x, e
    <3>1. b = cuts[k + 2] - 1
      OBVIOUS
    <3> DEFINE next == cuts[k + 2]
               flat == Len(FlattenSeq(x))
               whole == Len(Flat(k + 1))
               part == Len(e)
    <3> HIDE DEF a, b
    <3>2. /\ k \in Nat /\ a \in Nat /\ b \in Nat /\ next \in Nat /\ part = b - a
          /\ flat = a - k /\ whole = flat + part /\ b = next - 1
      BY <2>1, <2>4, <2>6, <2>7, <3>1
    <3> HIDE DEF next, flat, whole, part
    <3>3. whole = next - (k + 1)
      BY <3>2
    <3>4. QED
      BY <3>3 DEF whole, next
  <2> HIDE DEF Flat
  <2>9. QED
    BY <2>1, <2>8
<1>5. n \in S
  <2> HIDE DEF S
  <2>1. 0 .. n \subseteq S
    BY <1>2, <1>3, <1>4, IntervalInduction
  <2>2. QED
    BY <1>2, <2>1
<1>6. Slice(parts, 0, n) = parts
  <2>1. 0 \in 0 .. Len(parts)
    BY <1>2 DEF n
  <2>2. QED
    BY <1>2, <2>1, SliceEnds DEF n
<1>7. Len(FlattenSeq(parts)) = Len(bytes) + 1 - n
  BY <1>2, <1>5, <1>6
<1>8. FlattenSeq(parts) \in Seq(T)
  BY <1>2, FlattenType
<1>9. QED
  <2> DEFINE f == FlattenSeq(parts)
  <2>1. Len(f) \in Nat /\ Len(f) = Len(bytes) + 1 - n /\ Len(bytes) \in Nat
    BY <1>7, <1>8
  <2> HIDE DEF f
  <2>2. Len(bytes) = Len(f) + n - 1
    BY <1>2, <2>1
  <2>3. QED
    BY <1>2, <2>1, <2>2 DEF f, parts, n

\* Parts in another order rebuild the target.
LEMMA ReordersRebuild ==
  ASSUME NEW T, NEW base \in Seq(T), NEW target \in Seq(T), NEW cat, NEW ref, Gives(cat, ref, base)
  PROVE  AllRebuild(cat, ReorderCandidates(ref, base, target, reordered_delimited_segments(base, target)), target)
<1> DEFINE plan == reordered_delimited_segments(base, target)
           p == Len(base)
           d == plan.value.delimiter
           c == TransformCandidate("BoundedReorder", <<ref>>, <<0, Len(base), plan.value.delimiter>>,
                  <<target>>, Bytes(<<target>>) - plan.value.segments, 4, 14, TRUE)
<1>1. ASSUME plan.ok PROVE Rebuilds(cat, c, target)
  <2>1. SameBag(split(base, d), split(target, d))
    BY <1>1 DEF reordered_delimited_segments, Failed, Done
  <2> HIDE DEF plan
  <2>2. /\ split(base, d) \in Seq(Seq(T)) /\ split(target, d) \in Seq(Seq(T))
        /\ Len(FlattenSeq(split(base, d))) \in Nat /\ Len(FlattenSeq(split(target, d))) \in Nat
        /\ p = Len(FlattenSeq(split(base, d))) + Len(split(base, d)) - 1
        /\ Len(target) = Len(FlattenSeq(split(target, d))) + Len(split(target, d)) - 1
    BY PartsLen
  <2>3. Len(split(base, d)) = Len(split(target, d)) /\ Len(FlattenSeq(split(base, d))) = Len(FlattenSeq(split(target, d)))
    BY <2>1, <2>2, BagLen DEF SameBag
  <2>4. Len(target) = p
    BY <2>2, <2>3
  <2>5. c.kind = "BoundedReorder" /\ c.refs = <<ref>> /\ c.params = <<0, p, d>> /\ c.residuals = <<target>>
    BY DEF TransformCandidate
  <2> HIDE DEF c
  <2>6. c.params[1] = 0 /\ c.params[2] = p /\ c.params[3] = d /\ c.residuals[1] = target
    <3> HIDE DEF p, d
    <3>1. QED
      BY <2>5
  <2>7. p \in Nat /\ 0 + p = p /\ 0 \in 0 .. Len(base) /\ p \in 0 .. Len(base)
    OBVIOUS
  <2>8. Slice(base, 0, 0 + p) = base /\ Slice(base, 0, 0) = << >> /\ Slice(base, p, p) = << >>
    <3>1. Slice(base, 0, p) = base /\ Slice(base, 0, 0) = << >>
      BY <2>7, SliceEnds
    <3>2. Slice(base, p, p) = << >>
      <4> HIDE DEF p
      <4>1. QED
        BY <2>7, SliceEnds
    <3>3. QED
      BY <2>7, <3>1, <3>2
  <2>9. Splice(base, 0, p, target) = Done(target)
    <3>1. checked_range(Len(base), 0, p)
      BY <2>7 DEF checked_range
    <3>2. << >> \o target \o << >> = target
      OBVIOUS
    <3>3. QED
      BY <2>7, <2>8, <3>1, <3>2 DEF Splice
  <2>10. ApplyReorder(base, c.params, target) = Done(target)
    <3>1. checked_range(Len(base), 0, p)
      BY <2>7 DEF checked_range
    <3> HIDE DEF d, p
    <3>2. QED
      BY <2>1, <2>4, <2>6, <2>8, <2>9, <3>1 DEF ApplyReorder
  <2>11. ApplyToOne(c, base) = Done(target)
    <3> HIDE DEF d, p
    <3>1. QED
      BY <2>5, <2>6, <2>10 DEF ApplyToOne
  <2>12. QED
    BY <2>5, <2>11, FromOne
<1> HIDE DEF c, d
<1>2. ReorderCandidates(ref, base, target, plan) = IF plan.ok THEN <<c>> ELSE << >>
  BY DEF ReorderCandidates, c
<1>3. QED
  BY <1>1, <1>2, OneRebuilds, NoneRebuild DEF plan

----------------------------------------------------------------------------
(* Slots. *)

\* What is in the middle can be replaced.
LEMMA SpliceMiddle ==
  ASSUME NEW T, NEW x \in Seq(T), NEW y \in Seq(T), NEW z \in Seq(T), NEW fill
  PROVE  Splice((x \o y) \o z, Len(x), Len(y), fill) = Done((x \o fill) \o z)
<1> DEFINE w == x \o y
           s == w \o z
           a == Len(x)
           b == Len(x) + Len(y)
           n == Len(s)
<1>1. w \in Seq(T) /\ Len(w) = b /\ a \in Nat /\ Len(y) \in Nat
  BY LenJoined
<1>2. Slice(w, 0, a) = x
  BY SliceOfJoined
<1> HIDE DEF w
<1>3. s \in Seq(T) /\ n = b + Len(z) /\ Len(z) \in Nat
  <2>1. w \in Seq(T) /\ Len(w) = b
    BY <1>1
  <2> HIDE DEF b
  <2>2. s \in Seq(T) /\ Len(s) = Len(w) + Len(z) /\ Len(z) \in Nat
    BY <2>1, LenJoined
  <2>3. QED
    BY <2>1, <2>2
<1>4. Slice(s, 0, Len(w)) = w /\ Slice(s, Len(w), n) = z
  BY <1>1, SliceOfJoined
<1> HIDE DEF s, n
<1>5. Slice(s, 0, b) = w /\ Slice(s, b, n) = z
  BY <1>1, <1>4
<1> HIDE DEF b
<1>6. a <= b /\ b \in Nat /\ b <= n /\ a <= n /\ b = a + Len(y) /\ n \in Nat
  BY <1>1, <1>3 DEF b
<1>7. Slice(s, 0, a) = x
  <2>1. Within(s, 0, a) /\ Within(s, 0, b) /\ Within(w, 0, a)
    BY <1>1, <1>6 DEF Within, n
  <2>2. \A i \in 1 .. a - 0 : Slice(s, 0, a)[i] = s[0 + i]
    BY <1>3, <2>1, SliceIs
  <2>3. Slice(s, 0, a) \in Seq(T) /\ Len(Slice(s, 0, a)) = a - 0
    BY <1>3, <2>1, SliceIs
  <2>4. \A i \in 1 .. b - 0 : Slice(s, 0, b)[i] = s[0 + i]
    BY <1>3, <2>1, SliceIs
  <2>5. \A i \in 1 .. a - 0 : Slice(w, 0, a)[i] = w[0 + i]
    BY <1>1, <2>1, SliceIs
  <2> DEFINE u == Slice(s, 0, a)
  <2>6. ASSUME NEW i \in 1 .. a PROVE u[i] = x[i]
    <3>1. i \in 1 .. b - 0 /\ i \in 1 .. a - 0 /\ 0 + i = i
      BY <1>1, <1>6
    <3>2. u[i] = s[i] /\ w[i] = s[i] /\ x[i] = w[i]
      BY <1>2, <1>5, <2>2, <2>4, <2>5, <3>1
    <3>3. QED
      BY <3>2
  <2>7. Len(u) = a
    BY <1>1, <2>3
  <2>8. u \in Seq(T)
    BY <2>3
  <2> HIDE DEF u
  <2>9. u = x
    BY <2>6, <2>7, <2>8
  <2>10. QED
    BY <2>9 DEF u
<1>8. checked_range(n, a, Len(y)) /\ Slice(s, a + Len(y), n) = z
  BY <1>5, <1>6 DEF checked_range
<1>9. Splice(s, a, Len(y), fill) = Done(x \o fill \o z)
  BY <1>7, <1>8 DEF Splice, n
<1>10. QED
  BY <1>9 DEF s, w

\* Four sequences put together from either end.
LEMMA FourJoined ==
  ASSUME NEW T, NEW x \in Seq(T), NEW y \in Seq(T), NEW z \in Seq(T), NEW u \in Seq(T)
  PROVE  x \o ((y \o z) \o u) = ((x \o y) \o z) \o u
<1>1. y \o z \in Seq(T)
  OBVIOUS
<1>2. x \o (y \o z) = (x \o y) \o z
  BY ConcatAssociative
<1> DEFINE w == y \o z
<1> HIDE DEF w
<1>3. w \in Seq(T)
  BY <1>1 DEF w
<1>4. x \o (w \o u) = (x \o w) \o u
  BY ONLY x \in Seq(T), u \in Seq(T), <1>3, ConcatAssociative, SMTT(60)
<1>5. QED
  BY <1>2, <1>4 DEF w

\* Two byte strings that the same delimiter cuts into n parts.
BothCut(T, base, target, cb, ct, d, n) ==
  /\ base \in Seq(T) /\ target \in Seq(T) /\ n \in Nat \ {0}
  /\ CutsRight(base, d, cb, n) /\ CutsRight(target, d, ct, n)
  /\ \A k \in 1 .. n : Within(base, cb[k], cb[k + 1] - 1) /\ Within(target, ct[k], ct[k + 1] - 1)

\* The first h parts of the base and the other parts of the target.
Mixed(base, target, cb, ct, h) ==
  IF h = 0 THEN target
  ELSE Slice(base, 0, cb[h + 1] - 1) \o Slice(target, ct[h + 1] - 1, Len(target))

\* The h-th part of the base is replaced by the h-th part of the target.
PartGoes(T, base, target, cb, ct, h) ==
  LET x == Slice(base, 0, cb[h])
      y == Slice(base, cb[h], cb[h + 1] - 1)
      f == Slice(target, ct[h], ct[h + 1] - 1)
      z == Slice(target, ct[h + 1] - 1, Len(target))
  IN  /\ x \in Seq(T) /\ y \in Seq(T) /\ z \in Seq(T) /\ f \in Seq(T)
      /\ Len(x) = cb[h] /\ Len(y) = cb[h + 1] - 1 - cb[h]
      /\ Mixed(base, target, cb, ct, h) = (x \o y) \o z
      /\ Mixed(base, target, cb, ct, h - 1) = (x \o f) \o z

\* Two of them in a row differ in one part.
LEMMA MixedStep ==
  ASSUME NEW T, NEW base, NEW target, NEW cb, NEW ct, NEW d, NEW n,
         BothCut(T, base, target, cb, ct, d, n), NEW h \in 1 .. n
  PROVE  PartGoes(T, base, target, cb, ct, h)
<1> DEFINE a == cb[h]
           b == cb[h + 1] - 1
           e == ct[h]
           g == ct[h + 1] - 1
           m == Len(target)
           x == Slice(base, 0, a)
           y == Slice(base, a, b)
           f == Slice(target, e, g)
           z == Slice(target, g, m)
<1>1. base \in Seq(T) /\ target \in Seq(T) /\ n \in Nat /\ m \in Nat /\ h \in Nat /\ h # 0
  BY DEF BothCut
<1>2. Within(base, a, b) /\ Within(target, e, g)
  BY DEF BothCut
<1>3. a \in Nat /\ b \in Nat /\ e \in Nat /\ g \in Nat /\ a <= b /\ b <= Len(base) /\ e <= g /\ g <= m
  <2>1. a \in Nat /\ b \in Nat /\ a <= b /\ b <= Len(base)
    BY <1>2 DEF Within
  <2>2. e \in Nat /\ g \in Nat /\ e <= g /\ g <= m
    BY <1>2 DEF Within
  <2>3. QED
    BY <2>1, <2>2
<1>4. h = 1 => a = 0 /\ e = 0
  BY DEF BothCut, CutsRight
<1>5. h # 1 => a # 0 /\ base[a] = d /\ a <= Len(base) /\ e # 0 /\ target[e] = d /\ e <= m
  <2>1. SUFFICES ASSUME h # 1 PROVE a # 0 /\ base[a] = d /\ a <= Len(base) /\ e # 0 /\ target[e] = d /\ e <= m
    OBVIOUS
  <2>2. h \in 2 .. n /\ h - 1 \in 1 .. n /\ (h - 1) + 1 = h
    BY <1>1, <2>1
  <2>3. base[a] = d /\ a <= Len(base) /\ target[e] = d /\ e <= m
    BY <2>2 DEF BothCut, CutsRight
  <2>4. cb[h - 1] < a /\ ct[h - 1] < e /\ cb[h - 1] \in Nat /\ ct[h - 1] \in Nat
    <3>1. \A k \in 1 .. n : cb[k] < cb[k + 1] /\ ct[k] < ct[k + 1]
      BY DEF BothCut, CutsRight
    <3>2. cb \in [1 .. n + 1 -> Nat] /\ ct \in [1 .. n + 1 -> Nat] /\ h - 1 \in 1 .. n + 1
      BY <1>1, <2>2 DEF BothCut, CutsRight
    <3>3. QED
      BY <2>2, <3>1, <3>2
  <2>5. QED
    BY <1>3, <2>3, <2>4
<1> HIDE DEF a, b, e, g, m
<1>6. Within(base, 0, a) /\ Within(base, 0, b)
  BY <1>1, <1>3 DEF Within
<1>7. Within(target, g, m) /\ Within(target, e, m) /\ Within(target, 0, m) /\ Within(target, 0, g)
  BY <1>1, <1>3 DEF Within, m
<1>8. x \in Seq(T) /\ Len(x) = a - 0
  BY <1>1, <1>6, SliceIs
<1>9. y \in Seq(T) /\ Len(y) = b - a
  BY <1>1, <1>2, SliceIs
<1>10. f \in Seq(T)
  BY <1>1, <1>2, SliceIs
<1>11. z \in Seq(T)
  BY <1>1, <1>7, SliceIs
<1>12. /\ x \in Seq(T) /\ y \in Seq(T) /\ z \in Seq(T) /\ f \in Seq(T)
       /\ Len(x) = a /\ Len(y) = b - a
  <2>1. Len(x) = a
    BY <1>3, <1>8
  <2>2. QED
    BY <1>8, <1>9, <1>10, <1>11, <2>1
<1>13. Mixed(base, target, cb, ct, h) = (x \o y) \o z
  <2>1. x \o y = Slice(base, 0, b)
    BY <1>1, <1>2, <1>6, SliceJoin
  <2>2. Mixed(base, target, cb, ct, h) = Slice(base, 0, b) \o z
    BY <1>1 DEF Mixed, b, g, m
  <2>3. QED
    BY <2>1, <2>2
<1>14. f \o z = Slice(target, e, m)
  BY <1>1, <1>2, <1>7, SliceJoin
<1>15. CASE h = 1
  <2>1. x = << >>
    <3>1. 0 \in 0 .. Len(base) /\ a = 0
      BY <1>1, <1>4, <1>15
    <3>2. QED
      BY <1>1, <3>1, SliceEnds
  <2>2. Slice(target, e, m) = target
    <3>1. 0 \in 0 .. Len(target) /\ e = 0
      BY <1>1, <1>4, <1>15
    <3>2. QED
      BY <1>1, <3>1, SliceEnds DEF m
  <2>3. Mixed(base, target, cb, ct, h - 1) = target
    BY <1>15 DEF Mixed
  <2>4. x \o f = f
    <3> HIDE DEF x, f
    <3>1. QED
      BY <1>10, <2>1
  <2>5. Mixed(base, target, cb, ct, h - 1) = (x \o f) \o z
    BY <1>14, <2>2, <2>3, <2>4
  <2>6. QED
    BY <1>12, <1>13, <2>5 DEF a, b, e, g, m, PartGoes
<1>16. CASE h # 1
  <2> DEFINE i == a - 1
             j == e - 1
             u == Slice(base, 0, i)
             dd == <<d>>
  <2>1. i \in Nat /\ i < Len(base) /\ i + 1 = a
    BY <1>1, <1>3, <1>5, <1>16
  <2>2. j \in Nat /\ j < Len(target) /\ j + 1 = e
    BY <1>1, <1>3, <1>5, <1>16 DEF m
  <2>3. Mixed(base, target, cb, ct, h - 1) = u \o Slice(target, j, m)
    <3>1. h - 1 # 0 /\ (h - 1) + 1 = h
      BY <1>1, <1>16
    <3>2. QED
      BY <3>1 DEF Mixed, m, a, e
  <2> HIDE DEF i, j
  <2>4. Within(target, j, e)
    BY <1>1, <1>3, <2>2 DEF Within, m
  <2>5. Within(target, j, m)
    BY <1>1, <1>3, <2>2 DEF Within, m
  <2>6. u \in Seq(T)
    BY <1>1, <2>1, SliceNext
  <2>7. Slice(base, 0, i + 1) = Append(u, base[i + 1]) /\ base[i + 1] \in T
    BY <1>1, <2>1, SliceNext
  <2>8. x = Append(u, d) /\ d \in T
    BY <1>5, <1>16, <2>1, <2>7
  <2>9. x = u \o dd /\ dd \in Seq(T)
    <3> HIDE DEF u, x
    <3>1. QED
      BY <2>6, <2>8
  <2>10. Slice(target, j, j + 1) = <<target[j + 1]>>
    BY <1>1, <2>2, SliceNext
  <2>11. Slice(target, j, e) = dd
    BY <1>5, <1>16, <2>2, <2>10
  <2>12. dd \o f = Slice(target, j, g)
    <3>1. Slice(target, j, e) \o Slice(target, e, g) = Slice(target, j, g)
      BY <1>1, <1>2, <2>4, SliceJoin
    <3>2. QED
      BY <2>11, <3>1
  <2>13. Within(target, j, g)
    BY <1>3, <2>2 DEF Within, m
  <2>14. Slice(target, j, g) \o z = Slice(target, j, m)
    BY <1>1, <1>7, <2>13, SliceJoin
  <2>15. Mixed(base, target, cb, ct, h - 1) = u \o ((dd \o f) \o z)
    BY <2>3, <2>12, <2>14
  <2> HIDE DEF u, x, dd, f, z
  <2>16. u \o ((dd \o f) \o z) = ((u \o dd) \o f) \o z
    <3>1. dd \in Seq(T)
      BY <2>9
    <3>2. QED
      BY ONLY <2>6, <3>1, <1>10, <1>11, FourJoined, SMTT(60)
  <2>17. Mixed(base, target, cb, ct, h - 1) = (x \o f) \o z
    BY <2>9, <2>15, <2>16
  <2>18. QED
    BY <1>12, <1>13, <2>17 DEF x, y, f, z, a, b, e, g, m, PartGoes
<1>17. QED
  BY <1>15, <1>16

\* A part that is the same makes no difference.
LEMMA MixedOver ==
  ASSUME NEW T, NEW base, NEW target, NEW cb, NEW ct, NEW d, NEW n,
         BothCut(T, base, target, cb, ct, d, n), NEW h \in 1 .. n,
         Slice(base, cb[h], cb[h + 1] - 1) = Slice(target, ct[h], ct[h + 1] - 1)
  PROVE  Mixed(base, target, cb, ct, h) = Mixed(base, target, cb, ct, h - 1)
<1> DEFINE x == Slice(base, 0, cb[h])
           y == Slice(base, cb[h], cb[h + 1] - 1)
           f == Slice(target, ct[h], ct[h + 1] - 1)
           z == Slice(target, ct[h + 1] - 1, Len(target))
<1>1. Mixed(base, target, cb, ct, h) = (x \o y) \o z /\ Mixed(base, target, cb, ct, h - 1) = (x \o f) \o z
  <2>1. PartGoes(T, base, target, cb, ct, h)
    BY MixedStep
  <2>2. QED
    BY <2>1 DEF PartGoes
<1>2. y = f
  OBVIOUS
<1> HIDE DEF x, y, f, z
<1>3. QED
  BY <1>1, <1>2

\* Parts that are the same make no difference.
LEMMA MixedSame ==
  ASSUME NEW T, NEW base, NEW target, NEW cb, NEW ct, NEW d, NEW n,
         BothCut(T, base, target, cb, ct, d, n), NEW lo \in 0 .. n, NEW hi \in 0 .. n, lo <= hi,
         \A h \in lo + 1 .. hi : Slice(base, cb[h], cb[h + 1] - 1) = Slice(target, ct[h], ct[h + 1] - 1)
  PROVE  Mixed(base, target, cb, ct, hi) = Mixed(base, target, cb, ct, lo)
<1> DEFINE M(h) == Mixed(base, target, cb, ct, h)
           k == hi - lo
           S == {i \in 0 .. k : M(lo + i) = M(lo)}
<1>1. n \in Nat /\ lo \in Nat /\ hi \in Nat /\ k \in Nat /\ lo + k = hi /\ lo + 0 = lo
  BY DEF BothCut
<1>2. 0 \in S
  BY <1>1
<1>3. ASSUME NEW i \in 0 .. k, i \in S, i < k PROVE i + 1 \in S
  <2> DEFINE h == lo + (i + 1)
  <2>1. h \in 1 .. n /\ h \in lo + 1 .. hi /\ h - 1 = lo + i /\ i + 1 \in 0 .. k
    BY <1>1, <1>3
  <2> HIDE DEF h
  <2>2. M(h) = M(h - 1)
    <3>1. h \in 1 .. n /\ Slice(base, cb[h], cb[h + 1] - 1) = Slice(target, ct[h], ct[h + 1] - 1)
      BY <2>1
    <3>2. QED
      BY <3>1, MixedOver
  <2>3. M(lo + i) = M(lo)
    BY <1>3
  <2> HIDE DEF M
  <2>4. M(lo + (i + 1)) = M(lo)
    BY <2>1, <2>2, <2>3 DEF h
  <2>5. QED
    BY <2>1, <2>4
<1>4. k \in S
  <2> HIDE DEF S, k
  <2>1. 0 .. k \subseteq S
    BY <1>1, <1>2, <1>3, IntervalInduction
  <2>2. QED
    BY <1>1, <2>1
<1> HIDE DEF k, M
<1>5. M(lo + k) = M(lo)
  BY <1>4
<1>6. QED
  BY <1>1, <1>5 DEF M

\* The elements of pairs that are flattened.
LEMMA PairsFlat ==
  ASSUME NEW A, NEW q \in Seq(A \X A)
  PROVE  LET flat == FlattenSeq(q)
         IN  /\ flat \in Seq(A) /\ Len(flat) = 2 * Len(q)
             /\ \A k \in 1 .. Len(q) : flat[2 * k - 1] = q[k][1] /\ flat[2 * k] = q[k][2]
<1> DEFINE Right(s, flat) ==
             /\ flat \in Seq(A) /\ Len(flat) = 2 * Len(s)
             /\ \A k \in 1 .. Len(s) : flat[2 * k - 1] = s[k][1] /\ flat[2 * k] = s[k][2]
           Good == {s \in Seq(A \X A) : s \in Seq(Seq(A)) /\ Right(s, FlattenSeq(s))}
<1>1. << >> \in Good
  <2> DEFINE none == << >>
  <2>1. none \in Seq(A \X A) /\ none \in Seq(Seq(A)) /\ none \in Seq(A) /\ Len(none) = 0
    OBVIOUS
  <2>2. FlattenSeq(none) = none
    BY FlattenEmpty
  <2> HIDE DEF none
  <2>3. 1 .. Len(none) = {} /\ Len(none) = 2 * Len(none)
    BY <2>1
  <2>4. Right(none, none)
    BY <2>1, <2>3
  <2>5. Right(none, FlattenSeq(none))
    BY <2>2, <2>4
  <2>6. none \in Good
    BY <2>1, <2>5
  <2>7. QED
    BY <2>6 DEF none
<1>2. ASSUME NEW s \in Seq(A \X A), NEW e \in A \X A, s \in Good PROVE Append(s, e) \in Good
  <2> DEFINE t == Append(s, e)
             flat == FlattenSeq(s)
             more == FlattenSeq(t)
  <2>1. PICK n \in Nat : Len(s) = n
    OBVIOUS
  <2>2. s \in Seq(Seq(A)) /\ Right(s, flat)
    BY <1>2
  <2>3. e \in Seq(A) /\ Len(e) = 2 /\ e[1] \in A /\ e[2] \in A
    <3>1. PICK a \in A, b \in A : e = <<a, b>>
      OBVIOUS
    <3>2. <<a, b>> \in Seq(A) /\ Len(<<a, b>>) = 2 /\ <<a, b>>[1] = a /\ <<a, b>>[2] = b
      OBVIOUS
    <3>3. QED
      BY <3>1, <3>2
  <2>4. more = flat \o e
    BY <2>2, <2>3, FlattenAppend
  <2>5. t \in Seq(A \X A) /\ Len(t) = n + 1 /\ t[n + 1] = e /\ \A i \in 1 .. n : t[i] = s[i]
    BY <2>1
  <2>6. t \in Seq(Seq(A))
    BY <2>2, <2>3
  <2> HIDE DEF t, flat, more
  <2>7. /\ flat \in Seq(A) /\ Len(flat) = 2 * n
        /\ \A k \in 1 .. n : flat[2 * k - 1] = s[k][1] /\ flat[2 * k] = s[k][2]
    BY <2>1, <2>2
  <2>8. more \in Seq(A) /\ Len(more) = 2 * n + 2
    <3>1. more \in Seq(A) /\ Len(more) = Len(flat) + Len(e)
      BY <2>3, <2>4, <2>7, LenJoined
    <3>2. QED
      BY <2>3, <2>7, <3>1
  <2>9. \A i \in 1 .. 2 * n : more[i] = flat[i]
    BY <2>3, <2>4, <2>7
  <2>10. more[2 * n + 1] = e[1] /\ more[2 * n + 2] = e[2]
    <3>1. 1 \in 1 .. Len(e) /\ 2 \in 1 .. Len(e)
      BY <2>3
    <3>2. \A i \in 1 .. Len(flat) + Len(e) : (flat \o e)[i] = IF i <= Len(flat) THEN flat[i] ELSE e[i - Len(flat)]
      <4>1. flat \in Seq(A) /\ e \in Seq(A)
        BY <2>3, <2>7
      <4>2. QED
        BY ONLY <4>1, ConcatProperties
    <3>3. /\ 2 * n + 1 \in 1 .. Len(flat) + Len(e) /\ 2 * n + 2 \in 1 .. Len(flat) + Len(e)
          /\ ~(2 * n + 1 <= Len(flat)) /\ ~(2 * n + 2 <= Len(flat))
          /\ (2 * n + 1) - Len(flat) = 1 /\ (2 * n + 2) - Len(flat) = 2
      BY <2>3, <2>7
    <3>4. QED
      BY <2>4, <3>2, <3>3
  <2>11. ASSUME NEW k \in 1 .. n + 1 PROVE more[2 * k - 1] = t[k][1] /\ more[2 * k] = t[k][2]
    <3>1. CASE k = n + 1
      <4>1. 2 * k - 1 = 2 * n + 1 /\ 2 * k = 2 * n + 2
        BY <3>1
      <4>2. t[k] = e
        BY <2>5, <3>1
      <4>3. QED
        BY <2>10, <4>1, <4>2
    <3>2. CASE k \in 1 .. n
      <4>1. 2 * k - 1 \in 1 .. 2 * n /\ 2 * k \in 1 .. 2 * n
        BY <3>2
      <4>2. more[2 * k - 1] = flat[2 * k - 1] /\ more[2 * k] = flat[2 * k] /\ t[k] = s[k]
        BY <2>5, <2>9, <3>2, <4>1
      <4>3. QED
        BY <2>7, <3>2, <4>2
    <3>3. QED
      BY <3>1, <3>2
  <2>12. Len(more) = 2 * Len(t)
    BY <2>5, <2>8
  <2>13. \A k \in 1 .. Len(t) : more[2 * k - 1] = t[k][1] /\ more[2 * k] = t[k][2]
    BY <2>5, <2>11
  <2>14. t \in Good
    BY <2>5, <2>6, <2>8, <2>12, <2>13 DEF more
  <2>15. QED
    BY <2>14 DEF t
<1>3. Seq(A \X A) \subseteq Good
  <2> HIDE DEF Good
  <2>1. QED
    BY <1>1, <1>2, SeqSetInduction
<1>4. QED
  BY <1>3

\* What splicing can give.
Outcomes(T) == {Failed} \cup {Done(s) : s \in Seq(T)}

\* It gives nothing else.
LEMMA SpliceGives ==
  ASSUME NEW T, NEW s \in Seq(T), NEW fill \in Seq(T), NEW a \in Nat, NEW len \in Nat
  PROVE  Splice(s, a, len, fill) \in Outcomes(T)
<1> DEFINE b == a + len
           n == Len(s)
<1>1. CASE checked_range(Len(s), a, len)
  <2>1. a <= n /\ b <= n /\ b \in Nat /\ n \in Nat
    BY <1>1 DEF checked_range
  <2> HIDE DEF b
  <2>2. Within(s, 0, a) /\ Within(s, b, n)
    BY <2>1 DEF Within
  <2>3. Slice(s, 0, a) \in Seq(T)
    BY <2>2, SliceIs
  <2>4. Slice(s, b, n) \in Seq(T)
    BY <2>2, SliceIs
  <2>5. Splice(s, a, len, fill) = Done(Slice(s, 0, a) \o fill \o Slice(s, b, n))
    BY <1>1 DEF Splice, b
  <2> DEFINE x == Slice(s, 0, a)
             y == Slice(s, b, n)
  <2> HIDE DEF x, y
  <2>6. x \o fill \o y \in Seq(T)
    BY <2>3, <2>4 DEF x, y
  <2>7. QED
    BY <2>5, <2>6 DEF Outcomes, x, y
<1>2. CASE ~checked_range(Len(s), a, len)
  BY <1>2 DEF Splice, Outcomes
<1>3. QED
  BY <1>1, <1>2

\* The patch that is applied as the k-th, as a function that folds take.
SlotPatch(p, fills, out, k) ==
  LET i == Len(fills) + 1 - k
  IN  IF out.ok THEN Splice(out.value, p[2 * i - 1], p[2 * i], fills[i]) ELSE out

SlotStep(T, p, fills, m) ==
  [x \in Outcomes(T) \X (1 .. m) |-> SlotPatch(p, fills, x[1], x[2])]

\* Patches of a byte string.
ArePatches(T, p, fills, m) ==
  /\ m \in Nat \ {0} /\ p \in Seq(Nat) /\ Len(p) = 2 * m /\ fills \in Seq(Seq(T)) /\ Len(fills) = m

\* It is one.
LEMMA SlotStepIs ==
  ASSUME NEW T, NEW p, NEW fills, NEW m, ArePatches(T, p, fills, m)
  PROVE  SlotStep(T, p, fills, m) \in Steps(Outcomes(T), 1 .. m)
<1>1. ASSUME NEW out \in Outcomes(T), NEW k \in 1 .. m PROVE SlotPatch(p, fills, out, k) \in Outcomes(T)
  <2> DEFINE i == Len(fills) + 1 - k
             a == p[2 * i - 1]
             len == p[2 * i]
             fill == fills[i]
  <2>1. i \in 1 .. m /\ 2 * i - 1 \in 1 .. Len(p) /\ 2 * i \in 1 .. Len(p)
    BY DEF ArePatches
  <2> HIDE DEF i
  <2>2. a \in Nat /\ len \in Nat /\ fill \in Seq(T)
    BY <2>1 DEF ArePatches
  <2>3. SlotPatch(p, fills, out, k) = IF out.ok THEN Splice(out.value, a, len, fill) ELSE out
    BY DEF SlotPatch, i
  <2> HIDE DEF a, len, fill
  <2>4. CASE out = Failed
    BY <2>3, <2>4 DEF Failed
  <2>5. CASE out # Failed
    <3>1. PICK s \in Seq(T) : out = Done(s)
      BY <2>5 DEF Outcomes
    <3>2. SlotPatch(p, fills, out, k) = Splice(s, a, len, fill)
      BY <2>3, <3>1 DEF Done
    <3>3. QED
      BY <2>2, <3>2, SpliceGives
  <2>6. QED
    BY <2>4, <2>5
<1>2. QED
  BY <1>1 DEF SlotStep, Steps

\* Applying slots is a fold.
LEMMA SlotsFold ==
  ASSUME NEW T, NEW base \in Seq(T), NEW p, NEW fills, NEW m, ArePatches(T, p, fills, m)
  PROVE  ApplySlots(base, p, fills) =
           Result(SlotStep(T, p, fills, m), Outcomes(T), Done(base), [i \in 1 .. m |-> i])
<1> DEFINE A == Outcomes(T)
           R == 1 .. m
           f == SlotStep(T, p, fills, m)
           first == Done(base)
           seq == [i \in 1 .. m |-> i]
           Patch(out, k) ==
             LET i == Len(fills) + 1 - k
             IN  IF out.ok THEN Splice(out.value, p[2 * i - 1], p[2 * i], fills[i]) ELSE out
           Solves(h) ==
             h = [s \in SUBSET DOMAIN seq |->
                    IF s = {} THEN first ELSE SlotPatch(p, fills, h[s \ {Max(s)}], seq[Max(s)])]
           it == CHOOSE h : Solves(h)
<1>1. f \in Steps(A, R) /\ first \in A /\ seq \in Seq(R)
  <2>1. seq \in Seq(R)
    BY DEF ArePatches
  <2>2. first \in A
    BY DEF Outcomes
  <2>3. f \in Steps(A, R)
    BY SlotStepIs
  <2>4. QED
    BY <2>1, <2>2, <2>3
<1>2. ApplySlots(base, p, fills) = FoldLeftDomain(Patch, first, fills)
  <2>1. Len(p) = 2 * Len(fills) /\ p # << >>
    <3>1. Len(p) # 0
      BY DEF ArePatches
    <3>2. QED
      BY <3>1 DEF ArePatches
  <2>2. QED
    BY <2>1 DEF ApplySlots
<1>3. [i \in DOMAIN fills |-> i] = seq
  BY DEF ArePatches
<1>4. FoldLeftDomain(Patch, first, fills) = it[DOMAIN seq]
  <2>1. FoldLeftDomain(Patch, first, fills) = FoldLeft(Patch, first, seq)
    BY <1>3 DEF FoldLeftDomain
  <2>2. FoldLeft(Patch, first, seq) = it[DOMAIN seq]
    BY Zenon DEF FoldLeft, MapThenFoldSet, SlotPatch
  <2>3. QED
    BY <2>1, <2>2
<1>5. \A a \in A, x \in R : f[<<a, x>>] = SlotPatch(p, fills, a, x)
  BY DEF SlotStep
<1> HIDE DEF A, R, f, first, seq
<1>6. PICK h : PeelsOf(f, A, R, first, seq, h)
  BY <1>1, PeelOfExists
<1>7. Solves(h)
  BY <1>5, <1>6 DEF PeelsOf
<1>8. Solves(it)
  <2> HIDE DEF Solves
  <2>1. QED
    BY <1>7, Zenon
<1> HIDE DEF it
<1>9. it[{}] = first
  BY <1>8
<1>10. ASSUME NEW s \in SUBSET DOMAIN seq, s # {}, it[s \ {Max(s)}] \in A
       PROVE  it[s] = f[<<it[s \ {Max(s)}], seq[Max(s)]>>]
  <2>1. it[s] = SlotPatch(p, fills, it[s \ {Max(s)}], seq[Max(s)])
    BY <1>8, <1>10
  <2>2. seq[Max(s)] \in R
    BY <1>6, <1>10 DEF PeelsOf
  <2>3. QED
    BY <1>5, <1>10, <2>1, <2>2
<1>11. PeelsTo(f, A, first, seq, it)
  BY <1>9, <1>10 DEF PeelsTo
<1>12. it[DOMAIN seq] = Result(f, A, first, seq)
  BY <1>1, <1>11, PeelIsResult
<1>13. QED
  BY <1>2, <1>4, <1>12 DEF A, f, first, seq

\* At the end all parts are those of the base, at the beginning none.
LEMMA MixedEnds ==
  ASSUME NEW T, NEW base, NEW target, NEW cb, NEW ct, NEW d, NEW n,
         BothCut(T, base, target, cb, ct, d, n)
  PROVE  /\ Mixed(base, target, cb, ct, n) = base /\ Mixed(base, target, cb, ct, 0) = target
         /\ \A h \in 0 .. n : Mixed(base, target, cb, ct, h) \in Seq(T)
<1>1. base \in Seq(T) /\ target \in Seq(T) /\ n \in Nat /\ n # 0
  BY DEF BothCut
<1>2. Mixed(base, target, cb, ct, 0) = target
  BY DEF Mixed
<1>3. Mixed(base, target, cb, ct, n) = base
  <2> DEFINE b == cb[n + 1] - 1
             e == ct[n + 1] - 1
  <2>1. b = Len(base) /\ e = Len(target)
    <3>1. Len(base) \in Nat /\ Len(target) \in Nat
      BY <1>1
    <3>2. cb[n + 1] = Len(base) + 1 /\ ct[n + 1] = Len(target) + 1
      BY DEF BothCut, CutsRight
    <3>3. QED
      BY <3>1, <3>2
  <2>2. Mixed(base, target, cb, ct, n) = Slice(base, 0, b) \o Slice(target, e, Len(target))
    BY <1>1 DEF Mixed
  <2> HIDE DEF b, e
  <2>3. Slice(base, 0, Len(base)) = base /\ 0 \in 0 .. Len(base)
    <3>1. 0 \in 0 .. Len(base)
      BY <1>1
    <3>2. QED
      BY <1>1, <3>1, SliceEnds
  <2>4. Slice(target, Len(target), Len(target)) = << >>
    <3>1. Len(target) \in 0 .. Len(target)
      BY <1>1
    <3>2. QED
      BY <1>1, <3>1, SliceEnds
  <2>5. base \o << >> = base
    BY <1>1
  <2>6. QED
    BY <2>1, <2>2, <2>3, <2>4, <2>5
<1>4. ASSUME NEW h \in 0 .. n PROVE Mixed(base, target, cb, ct, h) \in Seq(T)
  <2>1. CASE h = 0
    BY <1>1, <1>2, <2>1
  <2>2. CASE h # 0
    <3>1. h \in 1 .. n
      BY <1>1, <2>2
    <3>2. PartGoes(T, base, target, cb, ct, h)
      BY <3>1, MixedStep
    <3> DEFINE x == Slice(base, 0, cb[h])
               y == Slice(base, cb[h], cb[h + 1] - 1)
               z == Slice(target, ct[h + 1] - 1, Len(target))
    <3>3. x \in Seq(T) /\ y \in Seq(T) /\ z \in Seq(T) /\ Mixed(base, target, cb, ct, h) = (x \o y) \o z
      BY <3>2 DEF PartGoes
    <3> HIDE DEF x, y, z
    <3>4. QED
      BY <3>3
  <2>3. QED
    BY <2>1, <2>2
<1>5. QED
  BY <1>2, <1>3, <1>4

\* The slots: the places of the parts that differ, in their order, and what goes there.
Slotted(T, base, target, cb, ct, n, m, at, p, fills) ==
  /\ ArePatches(T, p, fills, m)
  /\ at \in [1 .. m -> 1 .. n]
  /\ \A i, j \in 1 .. m : i < j => at[i] < at[j]
  /\ \A i \in 1 .. m : /\ p[2 * i - 1] = cb[at[i]] /\ p[2 * i] = cb[at[i] + 1] - 1 - cb[at[i]]
                       /\ fills[i] = Slice(target, ct[at[i]], ct[at[i] + 1] - 1)
  /\ \A h \in 1 .. n : (\A i \in 1 .. m : at[i] # h) =>
                         Slice(base, cb[h], cb[h + 1] - 1) = Slice(target, ct[h], ct[h + 1] - 1)

\* One slot, and the parts below it up to the next.
LEMMA SlotApplied ==
  ASSUME NEW T, NEW base, NEW target, NEW cb, NEW ct, NEW d, NEW n, BothCut(T, base, target, cb, ct, d, n),
         NEW m, NEW at, NEW p, NEW fills, Slotted(T, base, target, cb, ct, n, m, at, p, fills),
         NEW i \in 1 .. m
  PROVE  Splice(Mixed(base, target, cb, ct, at[i]), p[2 * i - 1], p[2 * i], fills[i]) =
           Done(Mixed(base, target, cb, ct, IF i = 1 THEN 0 ELSE at[i - 1]))
<1> DEFINE h == at[i]
           lo == IF i = 1 THEN 0 ELSE at[i - 1]
           x == Slice(base, 0, cb[h])
           y == Slice(base, cb[h], cb[h + 1] - 1)
           f == Slice(target, ct[h], ct[h + 1] - 1)
           z == Slice(target, ct[h + 1] - 1, Len(target))
<1>1. n \in Nat /\ m \in Nat
  BY DEF BothCut, Slotted, ArePatches
<1>2. h \in 1 .. n
  BY DEF Slotted
<1>3. p[2 * i - 1] = cb[h] /\ p[2 * i] = cb[h + 1] - 1 - cb[h] /\ fills[i] = f
  BY DEF Slotted
<1>4. lo \in 0 .. n /\ h - 1 \in 0 .. n /\ lo <= h - 1
  <2>1. CASE i = 1
    <3>1. lo = 0
      BY <2>1
    <3> HIDE DEF lo, h
    <3>2. QED
      BY <1>1, <1>2, <3>1
  <2>2. CASE i # 1
    <3> DEFINE l == at[i - 1]
    <3>1. i - 1 \in 1 .. m /\ i - 1 < i
      BY <1>1, <2>2
    <3>2. l \in 1 .. n /\ l < h
      BY <3>1 DEF Slotted
    <3>3. lo = l
      BY <2>2
    <3> HIDE DEF lo, h, l
    <3>4. QED
      BY <1>1, <1>2, <3>2, <3>3
  <2>3. QED
    BY <2>1, <2>2
<1>5. ASSUME NEW k \in lo + 1 .. h - 1
      PROVE  Slice(base, cb[k], cb[k + 1] - 1) = Slice(target, ct[k], ct[k + 1] - 1)
  <2>1. k \in 1 .. n /\ k < h /\ lo < k
    <3> HIDE DEF lo, h
    <3>1. QED
      BY <1>1, <1>2, <1>4, <1>5
  <2>2. ASSUME NEW j \in 1 .. m, at[j] = k PROVE FALSE
    <3>1. CASE j >= i
      <4>1. j = i \/ i < j
        BY <1>1, <3>1
      <4>2. at[j] = h \/ h < at[j]
        BY <4>1 DEF Slotted
      <4> HIDE DEF h, lo
      <4>3. QED
        BY <1>1, <1>2, <2>1, <2>2, <4>2
    <3>2. CASE j < i
      <4>1. i # 1 /\ i - 1 \in 1 .. m /\ (j = i - 1 \/ j < i - 1)
        BY <1>1, <3>2
      <4>2. lo = at[i - 1]
        BY <4>1
      <4>3. at[j] = lo \/ at[j] < lo
        BY <4>1, <4>2 DEF Slotted
      <4> HIDE DEF h, lo
      <4>4. QED
        BY <1>1, <1>4, <2>1, <2>2, <4>3
    <3>3. QED
      BY <1>1, <3>1, <3>2
  <2>3. QED
    BY <2>1, <2>2 DEF Slotted
<1>6. Mixed(base, target, cb, ct, h - 1) = Mixed(base, target, cb, ct, lo)
  <2> HIDE DEF h, lo
  <2>1. QED
    BY <1>4, <1>5, MixedSame
<1>7. PartGoes(T, base, target, cb, ct, h)
  <2> HIDE DEF h
  <2>1. QED
    BY <1>2, MixedStep
<1>8. /\ x \in Seq(T) /\ y \in Seq(T) /\ z \in Seq(T)
      /\ Len(x) = cb[h] /\ Len(y) = cb[h + 1] - 1 - cb[h]
      /\ Mixed(base, target, cb, ct, h) = (x \o y) \o z
      /\ Mixed(base, target, cb, ct, h - 1) = (x \o f) \o z
  <2> HIDE DEF h
  <2>1. QED
    BY <1>7 DEF PartGoes
<1> HIDE DEF x, y, f, z
<1>9. Splice((x \o y) \o z, Len(x), Len(y), f) = Done((x \o f) \o z)
  BY <1>8, SpliceMiddle
<1>10. Splice(Mixed(base, target, cb, ct, h), p[2 * i - 1], p[2 * i], fills[i]) =
         Done(Mixed(base, target, cb, ct, h - 1))
  <2> HIDE DEF h
  <2>1. QED
    BY <1>3, <1>8, <1>9
<1> HIDE DEF h, lo
<1>11. Splice(Mixed(base, target, cb, ct, h), p[2 * i - 1], p[2 * i], fills[i]) =
         Done(Mixed(base, target, cb, ct, lo))
  BY <1>6, <1>10
<1>12. QED
  BY <1>11 DEF h, lo

\* All of them, from the last to the first.
LEMMA SlotsApplied ==
  ASSUME NEW T, NEW base, NEW target, NEW cb, NEW ct, NEW d, NEW n, BothCut(T, base, target, cb, ct, d, n),
         NEW m, NEW at, NEW p, NEW fills, Slotted(T, base, target, cb, ct, n, m, at, p, fills)
  PROVE  ApplySlots(base, p, fills) = Done(target)
<1> DEFINE M(h) == Mixed(base, target, cb, ct, h)
           low(k) == IF k = m THEN 0 ELSE at[m - k]
           A == Outcomes(T)
           R == 1 .. m
           f == SlotStep(T, p, fills, m)
           seq == [i \in 1 .. m |-> i]
           g == [k \in 0 .. m |-> Done(M(low(k)))]
<1>1. n \in Nat /\ m \in Nat /\ m # 0 /\ base \in Seq(T) /\ Len(fills) = m
  BY DEF BothCut, Slotted, ArePatches
<1>2. ASSUME NEW k \in 0 .. m PROVE low(k) \in 0 .. n
  <2>1. CASE k = m
    BY <1>1, <2>1
  <2>2. CASE k # m
    <3>1. m - k \in 1 .. m
      BY <1>1, <2>2
    <3>2. at[m - k] \in 1 .. n
      BY <3>1 DEF Slotted
    <3>3. QED
      BY <1>1, <2>2, <3>2
  <2>3. QED
    BY <2>1, <2>2
<1>3. \A h \in 0 .. n : Done(M(h)) \in A
  <2>1. \A h \in 0 .. n : M(h) \in Seq(T)
    BY MixedEnds
  <2>2. QED
    BY <2>1 DEF Outcomes
<1>4. g[0] = Done(base)
  <2> DEFINE h == at[m]
  <2>1. h \in 1 .. n /\ low(0) = h
    <3>1. m \in 1 .. m /\ m - 0 = m /\ 0 # m
      BY <1>1
    <3>2. h \in 1 .. n
      BY <3>1 DEF Slotted
    <3>3. QED
      BY <3>1, <3>2
  <2>2. ASSUME NEW k \in h + 1 .. n
        PROVE  Slice(base, cb[k], cb[k + 1] - 1) = Slice(target, ct[k], ct[k + 1] - 1)
    <3>1. k \in 1 .. n /\ h < k
      <4> HIDE DEF h
      <4>1. QED
        BY <1>1, <2>1, <2>2
    <3>2. ASSUME NEW j \in 1 .. m, at[j] = k PROVE FALSE
      <4>1. j = m \/ j < m
        BY <1>1
      <4>2. m \in 1 .. m
        BY <1>1
      <4>3. at[j] = h \/ at[j] < h
        BY <4>1, <4>2 DEF Slotted
      <4> HIDE DEF h
      <4>4. QED
        BY <1>1, <2>1, <3>1, <3>2, <4>3
    <3>3. QED
      BY <3>1, <3>2 DEF Slotted
  <2>3. M(n) = M(h)
    <3> HIDE DEF h
    <3>1. h \in 0 .. n /\ n \in 0 .. n /\ h <= n
      BY <1>1, <2>1
    <3>2. QED
      BY <2>2, <3>1, MixedSame
  <2>4. M(n) = base
    BY MixedEnds
  <2>5. 0 \in 0 .. m
    BY <1>1
  <2> HIDE DEF M, h, low
  <2>6. QED
    BY <2>1, <2>3, <2>4, <2>5
<1>5. ASSUME NEW k \in 1 .. m PROVE g[k] = f[<<g[k - 1], seq[k]>>]
  <2> DEFINE i == m + 1 - k
             h == at[i]
  <2>1. i \in 1 .. m /\ k - 1 \in 0 .. m /\ k \in 0 .. m /\ m - (k - 1) = i /\ k - 1 # m /\ seq[k] = k
    BY <1>1
  <2>2. low(k - 1) = h
    BY <2>1
  <2>3. low(k) = IF i = 1 THEN 0 ELSE at[i - 1]
    <3>1. (k = m) <=> (i = 1)
      BY <1>1
    <3>2. m - k = i - 1
      BY <1>1
    <3> HIDE DEF i
    <3>3. QED
      BY <3>1, <3>2
  <2>4. Splice(M(h), p[2 * i - 1], p[2 * i], fills[i]) = Done(M(low(k)))
    <3> HIDE DEF i, low
    <3>1. Splice(M(h), p[2 * i - 1], p[2 * i], fills[i]) =
            Done(Mixed(base, target, cb, ct, IF i = 1 THEN 0 ELSE at[i - 1]))
      BY <2>1, SlotApplied
    <3>2. QED
      BY <2>3, <3>1
  <2>5. g[k - 1] = Done(M(h)) /\ g[k] = Done(M(low(k)))
    <3> HIDE DEF M, h, low
    <3>1. QED
      BY <2>1, <2>2
  <2>6. g[k - 1] \in A
    <3>1. low(k - 1) \in 0 .. n
      BY <1>2, <2>1
    <3> HIDE DEF M, h, low, A, g
    <3>2. QED
      BY <1>3, <2>2, <2>5, <3>1
  <2>7. f[<<g[k - 1], k>>] = SlotPatch(p, fills, g[k - 1], k)
    <3> HIDE DEF A, g
    <3>1. QED
      BY <2>6 DEF SlotStep, A
  <2>8. SlotPatch(p, fills, g[k - 1], k) = Splice(M(h), p[2 * i - 1], p[2 * i], fills[i])
    <3> DEFINE out == g[k - 1]
    <3> HIDE DEF g, M, out, h
    <3>1. out.ok /\ out.value = M(h)
      BY <2>5 DEF Done, out
    <3>2. SlotPatch(p, fills, out, k) = Splice(out.value, p[2 * i - 1], p[2 * i], fills[i])
      BY <1>1, <3>1 DEF SlotPatch
    <3>3. QED
      BY <3>1, <3>2 DEF out
  <2> HIDE DEF g, f, M, low, i, h
  <2>9. QED
    BY <2>1, <2>4, <2>5, <2>7, <2>8
<1>6. ArePatches(T, p, fills, m)
  BY DEF Slotted
<1>7. f \in Steps(A, R)
  BY <1>6, SlotStepIs
<1>8. seq \in Seq(R) /\ Len(seq) = m
  BY <1>1
<1>9. g \in [0 .. m -> A]
  <2> HIDE DEF M, A, low
  <2>1. QED
    BY <1>2, <1>3
<1>10. Done(base) \in A
  BY <1>1 DEF Outcomes
<1>11. RunOf(f, A, Done(base), seq, g)
  <2> HIDE DEF f, g, A, seq
  <2>1. QED
    BY <1>4, <1>5, <1>8, <1>9 DEF RunOf
<1>12. Result(f, A, Done(base), seq) = g[m]
  <2> HIDE DEF f, g, A, seq, R
  <2>1. QED
    BY <1>7, <1>8, <1>10, <1>11, ResultIs
<1>13. g[m] = Done(target)
  <2>1. m \in 0 .. m /\ low(m) = 0
    BY <1>1
  <2>2. M(0) = target
    BY MixedEnds
  <2> HIDE DEF low, M
  <2>3. QED
    BY <2>1, <2>2
<1>14. ApplySlots(base, p, fills) = Result(f, A, Done(base), seq)
  BY <1>1, <1>6, SlotsFold
<1>15. QED
  BY <1>12, <1>13, <1>14

\* A patch for every part.
PatchesRight(T, base, target, cb, ct, patch, n) ==
  /\ n \in Nat \ {0} /\ patch \in Seq([start : Nat, len : Nat, fill : Seq(T)]) /\ Len(patch) = n
  /\ \A k \in 1 .. n : /\ patch[k].start = cb[k] /\ patch[k].len = cb[k + 1] - 1 - cb[k]
                       /\ patch[k].fill = Slice(target, ct[k], ct[k + 1] - 1)
                       /\ Segment(base, patch[k]) = Slice(base, cb[k], cb[k + 1] - 1)

\* What the plan begins with.
PatchedFrom(T, base, target, d, q, patch, n) ==
  LET cb == Cuts(base, d)
      ct == Cuts(target, d)
  IN  /\ BothCut(T, base, target, cb, ct, d, n)
      /\ PatchesRight(T, base, target, cb, ct, patch, n)
      /\ q = Kept(patch, {p \in ToSet(patch) : Segment(base, p) # p.fill})

\* It begins so.
LEMMA PatchesFrom ==
  ASSUME NEW T, NEW base \in Seq(T), NEW target \in Seq(T), NEW d, Patches(base, target, d) # << >>
  PROVE  \E patch, n : PatchedFrom(T, base, target, d, Patches(base, target, d), patch, n)
<1> DEFINE cb == Cuts(base, d)
           ct == Cuts(target, d)
           ranges == segment_ranges(base, d)
           parts == split(base, d)
           fills == split(target, d)
           n == Len(ranges)
           P == [start : Nat, len : Nat, fill : Seq(T)]
           patch == [k \in DOMAIN ranges |-> [start |-> ranges[k].start, len |-> ranges[k].len, fill |-> fills[k]]]
<1>1. PartsRight(T, base, d, cb, ranges, parts, Len(parts))
  BY PartsAre
<1>2. PartsRight(T, target, d, ct, segment_ranges(target, d), fills, Len(fills))
  BY PartsAre
<1>3. /\ n = Len(fills)
      /\ Patches(base, target, d) = Kept(patch, {p \in ToSet(patch) : Segment(base, p) # p.fill})
  BY DEF Patches
<1>4. Len(parts) = n
  BY <1>1 DEF PartsRight
<1> HIDE DEF cb, ct, ranges, parts, fills
<1>5. /\ CutsRight(base, d, cb, n) /\ ranges \in Seq([start : Nat, len : Nat])
      /\ \A k \in 1 .. n : /\ ranges[k] = [start |-> cb[k], len |-> cb[k + 1] - 1 - cb[k]]
                           /\ Within(base, cb[k], cb[k + 1] - 1)
  BY <1>1, <1>4 DEF PartsRight
<1>6. /\ CutsRight(target, d, ct, n) /\ fills \in Seq(Seq(T)) /\ Len(fills) = n
      /\ \A k \in 1 .. n : /\ fills[k] = Slice(target, ct[k], ct[k + 1] - 1)
                           /\ Within(target, ct[k], ct[k + 1] - 1)
  BY <1>2, <1>3 DEF PartsRight
<1>7. n \in Nat \ {0}
  BY <1>5 DEF CutsRight
<1>8. BothCut(T, base, target, cb, ct, d, n)
  BY <1>5, <1>6, <1>7 DEF BothCut
<1>9. DOMAIN ranges = 1 .. n
  BY <1>5
<1>10. ASSUME NEW k \in 1 .. n
       PROVE  /\ patch[k] \in P /\ patch[k].start = cb[k] /\ patch[k].len = cb[k + 1] - 1 - cb[k]
              /\ patch[k].fill = Slice(target, ct[k], ct[k + 1] - 1)
              /\ Segment(base, patch[k]) = Slice(base, cb[k], cb[k + 1] - 1)
  <2> DEFINE a == cb[k]
             b == cb[k + 1] - 1
             e == fills[k]
             r == ranges[k]
  <2>1. a \in Nat /\ b \in Nat /\ a <= b
    BY <1>5 DEF Within
  <2>2. e \in Seq(T) /\ e = Slice(target, ct[k], ct[k + 1] - 1)
    BY <1>6
  <2>3. patch[k] = [start |-> r.start, len |-> r.len, fill |-> e]
    BY <1>9
  <2>4. r = [start |-> a, len |-> b - a]
    BY <1>5
  <2> HIDE DEF a, b, e, r, patch
  <2>5. patch[k] = [start |-> a, len |-> b - a, fill |-> e]
    BY <2>3, <2>4
  <2>6. patch[k] \in P /\ patch[k].start = a /\ patch[k].len = b - a /\ patch[k].fill = e
    BY <2>1, <2>2, <2>5
  <2>7. a + (b - a) = b
    BY <2>1
  <2>8. Segment(base, patch[k]) = Slice(base, a, b)
    BY <2>6, <2>7 DEF Segment
  <2>9. QED
    BY <2>2, <2>6, <2>8 DEF a, b
<1>11. patch \in Seq(P) /\ Len(patch) = n
  <2>1. patch = [k \in 1 .. n |-> patch[k]]
    BY <1>9
  <2> HIDE DEF patch, P
  <2>2. QED
    BY <1>7, <1>10, <2>1
<1>12. PatchesRight(T, base, target, cb, ct, patch, n)
  <2> HIDE DEF patch
  <2>1. QED
    BY <1>7, <1>10, <1>11 DEF PatchesRight
<1> HIDE DEF n, patch
<1>13. PatchedFrom(T, base, target, d, Patches(base, target, d), patch, n)
  BY <1>3, <1>8, <1>12 DEF cb, ct, PatchedFrom
<1>14. QED
  BY <1>13

\* The patches of a plan rebuild the target.
LEMMA PatchesApply ==
  ASSUME NEW T, NEW base \in Seq(T), NEW target \in Seq(T), NEW d, NEW q, q = Patches(base, target, d), q # << >>
  PROVE  ApplySlots(base, FlattenSeq([k \in DOMAIN q |-> <<q[k].start, q[k].len>>]),
                    [k \in DOMAIN q |-> q[k].fill]) = Done(target)
<1> DEFINE cb == Cuts(base, d)
           ct == Cuts(target, d)
           P == [start : Nat, len : Nat, fill : Seq(T)]
           m == Len(q)
           pairs == [k \in DOMAIN q |-> <<q[k].start, q[k].len>>]
           fills == [k \in DOMAIN q |-> q[k].fill]
           p == FlattenSeq(pairs)
<1>1. PICK patch, n : PatchedFrom(T, base, target, d, q, patch, n)
  BY PatchesFrom
<1>2. /\ BothCut(T, base, target, cb, ct, d, n)
      /\ PatchesRight(T, base, target, cb, ct, patch, n)
      /\ q = Kept(patch, {x \in ToSet(patch) : Segment(base, x) # x.fill})
  BY <1>1 DEF PatchedFrom
<1> DEFINE S == {x \in ToSet(patch) : Segment(base, x) # x.fill}
<1>3. n \in Nat \ {0} /\ patch \in Seq(P) /\ Len(patch) = n
  BY <1>2 DEF PatchesRight
<1> HIDE DEF cb, ct
<1>4. q \in Seq(P) /\ \E at : Places(patch, S, q, at)
  <2> HIDE DEF S, P
  <2>1. Kept(patch, S) \in Seq(P) /\ \E at : Places(patch, S, Kept(patch, S), at)
    BY <1>3, KeptIs
  <2>2. q = Kept(patch, S)
    BY <1>2 DEF S
  <2>3. QED
    BY <2>1, <2>2
<1>5. PICK at : Places(patch, S, q, at)
  BY <1>4
<1>6. m \in Nat \ {0} /\ DOMAIN q = 1 .. m
  <2> HIDE DEF P
  <2>1. QED
    BY <1>4, EmptySeq
<1>7. at \in [1 .. m -> 1 .. n] /\ \A i, j \in 1 .. m : i < j => at[i] < at[j]
  BY <1>3, <1>5 DEF Places
<1>8. \A i \in 1 .. m : q[i] = patch[at[i]] /\ q[i] \in P
  <2> HIDE DEF S, P
  <2>1. \A i \in 1 .. m : q[i] \in P
    BY <1>4, <1>6
  <2>2. \A i \in 1 .. m : q[i] = patch[at[i]]
    BY <1>5 DEF Places
  <2>3. QED
    BY <2>1, <2>2
<1>9. ASSUME NEW h \in 1 .. n, \A i \in 1 .. m : at[i] # h
      PROVE  Slice(base, cb[h], cb[h + 1] - 1) = Slice(target, ct[h], ct[h + 1] - 1)
  <2>1. patch[h] \notin S
    <3> HIDE DEF S
    <3>1. QED
      BY <1>3, <1>5, <1>9 DEF Places
  <2>2. patch[h] \in ToSet(patch)
    <3> HIDE DEF P
    <3>1. h \in DOMAIN patch
      BY <1>3
    <3>2. QED
      BY <1>3, <3>1, InOwnSet
  <2>3. Segment(base, patch[h]) = patch[h].fill
    BY <2>1, <2>2
  <2>4. QED
    BY <1>2, <2>3 DEF PatchesRight
<1>10. \A i \in 1 .. m : /\ q[i].start = cb[at[i]] /\ q[i].len = cb[at[i] + 1] - 1 - cb[at[i]]
                        /\ q[i].fill = Slice(target, ct[at[i]], ct[at[i] + 1] - 1)
  BY <1>2, <1>7, <1>8 DEF PatchesRight
<1>11. fills \in Seq(Seq(T)) /\ Len(fills) = m
  BY <1>6, <1>8
<1>12. pairs \in Seq(Nat \X Nat) /\ Len(pairs) = m
  <2>1. \A i \in 1 .. m : <<q[i].start, q[i].len>> \in Nat \X Nat
    BY <1>8
  <2>2. QED
    BY <1>6, <2>1
<1>13. \A i \in 1 .. m : pairs[i][1] = q[i].start /\ pairs[i][2] = q[i].len
  BY <1>6
<1> HIDE DEF pairs
<1>14. /\ p \in Seq(Nat) /\ Len(p) = 2 * m
       /\ \A i \in 1 .. m : p[2 * i - 1] = q[i].start /\ p[2 * i] = q[i].len
  <2>1. /\ p \in Seq(Nat) /\ Len(p) = 2 * Len(pairs)
        /\ \A k \in 1 .. Len(pairs) : p[2 * k - 1] = pairs[k][1] /\ p[2 * k] = pairs[k][2]
    BY <1>12, PairsFlat
  <2>2. QED
    BY <1>12, <1>13, <2>1
<1>15. \A i \in 1 .. m : fills[i] = q[i].fill
  BY <1>6
<1> HIDE DEF p, fills, S, P
<1>16. ArePatches(T, p, fills, m)
  BY <1>6, <1>11, <1>14 DEF ArePatches
<1>17. Slotted(T, base, target, cb, ct, n, m, at, p, fills)
  <2> HIDE DEF m
  <2>1. \A i \in 1 .. m : p[2 * i - 1] = cb[at[i]] /\ p[2 * i] = cb[at[i] + 1] - 1 - cb[at[i]]
    BY <1>10, <1>14
  <2>2. \A i \in 1 .. m : fills[i] = Slice(target, ct[at[i]], ct[at[i] + 1] - 1)
    BY <1>10, <1>15
  <2>3. QED
    BY <1>7, <1>9, <1>16, <2>1, <2>2 DEF Slotted
<1>18. ApplySlots(base, p, fills) = Done(target)
  BY <1>2, <1>17, SlotsApplied
<1>19. QED
  BY <1>18 DEF p, fills, pairs

\* Slots that are filled differently.
LEMMA SlotsRebuild ==
  ASSUME NEW T, NEW base \in Seq(T), NEW target \in Seq(T), NEW cat, NEW ref, Gives(cat, ref, base)
  PROVE  AllRebuild(cat, SlotCandidates(ref, slot_substitution_plan(base, target)), target)
<1> DEFINE plan == slot_substitution_plan(base, target)
           S == {d \in ToSet(SlotDelimiters) : Patches(base, target, d) # << >>}
           usable == Kept(SlotDelimiters, S)
           d == usable[1]
           params == FlattenSeq([k \in DOMAIN plan.value |-> <<plan.value[k].start, plan.value[k].len>>])
           fills == [k \in DOMAIN plan.value |-> plan.value[k].fill]
           x == TransformCandidate("SlotSubstitution", <<ref>>, params, fills, Bytes(fills) + 4 * Len(fills),
                                   Len(fills) + 1, 18, FALSE)
           y == TransformCandidate("SchemaSlotFill", <<ref>>, params, fills, Bytes(fills) + 4 * Len(fills),
                                   Len(fills) + 1, 18, FALSE)
           A == ToSet(SlotDelimiters)
<1>1. ASSUME plan.ok PROVE ApplySlots(base, params, fills) = Done(target)
  <2>1. usable # << >> /\ plan = Done(Patches(base, target, d))
    BY <1>1 DEF slot_substitution_plan, Failed
  <2>2. SlotDelimiters \in Seq(A)
    <3>1. SlotDelimiters \in Seq({",", ";", ":", "|", "/", " ", "nl", "tab"})
      BY DEF SlotDelimiters
    <3> DEFINE s == SlotDelimiters
    <3> HIDE DEF s
    <3>2. s \in Seq(ToSet(s))
      BY <3>1, InOwnSet DEF s
    <3>3. QED
      BY <3>2 DEF s
  <2>3. usable \in Seq(A)
    <3> HIDE DEF S, A
    <3>1. QED
      BY <2>2, KeptIs
  <2>4. 1 \in DOMAIN usable
    <3> HIDE DEF usable
    <3>1. Len(usable) \in Nat \ {0}
      BY <2>1, <2>3, EmptySeq
    <3>2. QED
      BY <2>3, <3>1
  <2>5. d \in S
    <3> HIDE DEF S, A
    <3>1. QED
      BY <2>2, <2>4, KeptFrom
  <2> HIDE DEF usable, A
  <2>6. Patches(base, target, d) # << >>
    BY <2>5
  <2> HIDE DEF S, d
  <2>7. plan.value = Patches(base, target, d)
    BY <2>1 DEF Done
  <2> HIDE DEF plan
  <2>8. QED
    BY <2>6, <2>7, PatchesApply
<1>2. SlotCandidates(ref, plan) = IF plan.ok THEN <<x, y>> ELSE << >>
  BY DEF SlotCandidates
<1> HIDE DEF plan, params, fills
<1>3. ASSUME plan.ok PROVE Rebuilds(cat, x, target) /\ Rebuilds(cat, y, target)
  <2>1. /\ x.kind = "SlotSubstitution" /\ x.refs = <<ref>> /\ x.params = params /\ x.residuals = fills
        /\ y.kind = "SchemaSlotFill" /\ y.refs = <<ref>> /\ y.params = params /\ y.residuals = fills
    BY DEF TransformCandidate
  <2> HIDE DEF x, y
  <2>2. ApplyToOne(x, base) = Done(target) /\ ApplyToOne(y, base) = Done(target)
    BY <1>1, <1>3, <2>1 DEF ApplyToOne
  <2>3. QED
    BY <2>1, <2>2, FromOne
<1> HIDE DEF x, y
<1>4. QED
  BY <1>2, <1>3, TwoRebuild, NoneRebuild DEF plan

\* All candidates over a whole base.
LEMMA BasesRebuild ==
  ASSUME NEW T, NEW base \in Seq(T), NEW target \in Seq(T), NEW cat, NEW ref, Gives(cat, ref, base)
  PROVE  AllRebuild(cat, BaseCandidates(ref, base, target), target)
<1> DEFINE a == InsertCandidates(ref, prefix_insert_plan(base, target), suffix_insert_plan(base, target),
                                 wrap_plan(base, target))
           b == InteriorCandidates(ref, bounded_interior_insert_plan(base, target), bounded_delete_plan(base, target))
           c == RepeatCandidates(ref, repeated_motif_expansion_plan(base, target))
           d == SlotCandidates(ref, slot_substitution_plan(base, target))
           e == SelectionCandidates(ref, role_permutation_plan(base, target), strided_selection_plan(base, target))
<1>1. AllRebuild(cat, a, target) /\ AllRebuild(cat, b, target)
  BY InsertsRebuild, InteriorsRebuild
<1>2. AllRebuild(cat, c, target) /\ AllRebuild(cat, d, target) /\ AllRebuild(cat, e, target)
  BY RepeatsRebuild, SlotsRebuild, SelectionsRebuild
<1>3. BaseCandidates(ref, base, target) = (((a \o b) \o c) \o d) \o e
  BY DEF BaseCandidates
<1> HIDE DEF a, b, c, d, e
<1>4. AllRebuild(cat, a \o b, target)
  BY <1>1, JoinedRebuild
<1>5. AllRebuild(cat, (a \o b) \o c, target)
  BY <1>2, <1>4, JoinedRebuild
<1>6. AllRebuild(cat, ((a \o b) \o c) \o d, target)
  BY <1>2, <1>5, JoinedRebuild
<1>7. AllRebuild(cat, (((a \o b) \o c) \o d) \o e, target)
  BY <1>2, <1>6, JoinedRebuild
<1>8. QED
  BY <1>3, <1>7

\* All candidates over a window.
LEMMA WindowsRebuild ==
  ASSUME NEW T, NEW base \in Seq(T), NEW target \in Seq(T), NEW cat, NEW ref, Gives(cat, ref, base)
  PROVE  AllRebuild(cat, WindowCandidates(ref, base, target), target)
<1> DEFINE a == SubstitutionCandidates(ref, bounded_substitution_delta(base, target), copy_with_gap_plan(base, target))
           b == RewriteCandidates(ref, base, target)
           c == ReorderCandidates(ref, base, target, reordered_delimited_segments(base, target))
           d == DuplicationCandidates(ref, motif_duplicate_plan(base, target))
           e == MirrorCandidates(ref, base, target)
           f == ExpansionCandidates(ref, delimited_repeat_plan(base, target))
<1>1. AllRebuild(cat, a, target) /\ AllRebuild(cat, b, target) /\ AllRebuild(cat, c, target)
  BY SubstitutionsRebuild, RewritesRebuild, ReordersRebuild
<1>2. AllRebuild(cat, d, target) /\ AllRebuild(cat, e, target) /\ AllRebuild(cat, f, target)
  BY DuplicationsRebuild, MirrorsRebuild, ExpansionsRebuild
<1>3. WindowCandidates(ref, base, target) = ((((a \o b) \o c) \o d) \o e) \o f
  BY DEF WindowCandidates
<1> HIDE DEF a, b, c, d, e, f
<1>4. AllRebuild(cat, a \o b, target)
  BY <1>1, JoinedRebuild
<1>5. AllRebuild(cat, (a \o b) \o c, target)
  BY <1>1, <1>4, JoinedRebuild
<1>6. AllRebuild(cat, ((a \o b) \o c) \o d, target)
  BY <1>2, <1>5, JoinedRebuild
<1>7. AllRebuild(cat, (((a \o b) \o c) \o d) \o e, target)
  BY <1>2, <1>6, JoinedRebuild
<1>8. AllRebuild(cat, ((((a \o b) \o c) \o d) \o e) \o f, target)
  BY <1>2, <1>7, JoinedRebuild
<1>9. QED
  BY <1>3, <1>8

\* Lists of candidates that are put together.
LEMMA FlattenedRebuild ==
  ASSUME NEW cat, NEW target, NEW css, NEW n \in Nat, DOMAIN css = 1 .. n, css = [i \in 1 .. n |-> css[i]],
         \A i \in 1 .. n : AllRebuild(cat, css[i], target)
  PROVE  AllRebuild(cat, FlattenSeq(css), target)
<1> DEFINE A == UNION {ToSet(css[i]) : i \in 1 .. n}
           Good == {s \in Seq(Seq(A)) : (\A i \in DOMAIN s : AllRebuild(cat, s[i], target)) =>
                                          AllRebuild(cat, FlattenSeq(s), target)}
<1>1. css \in Seq(Seq(A)) /\ \A i \in DOMAIN css : AllRebuild(cat, css[i], target)
  <2>1. ASSUME NEW i \in 1 .. n PROVE css[i] \in Seq(A)
    <3>1. css[i] \in Seq(ToSet(css[i]))
      BY DEF AllRebuild
    <3>2. ToSet(css[i]) \subseteq A
      OBVIOUS
    <3>3. QED
      BY <3>1, <3>2, SeqMonotonic
  <2> HIDE DEF A
  <2>2. QED
    BY <2>1
<1> HIDE DEF A
<1>2. << >> \in Good
  <2> DEFINE none == << >>
  <2>1. none \in Seq(Seq(A)) /\ FlattenSeq(none) = none /\ AllRebuild(cat, none, target)
    BY FlattenEmpty, NoneRebuild
  <2> HIDE DEF none
  <2>2. none \in Good
    BY <2>1
  <2>3. QED
    BY <2>2 DEF none
<1>3. ASSUME NEW s \in Seq(Seq(A)), NEW e \in Seq(A), s \in Good PROVE Append(s, e) \in Good
  <2> DEFINE t == Append(s, e)
  <2>1. t \in Seq(Seq(A)) /\ FlattenSeq(t) = FlattenSeq(s) \o e
    BY FlattenAppend
  <2>2. ASSUME \A i \in DOMAIN t : AllRebuild(cat, t[i], target) PROVE AllRebuild(cat, FlattenSeq(t), target)
    <3>1. PICK k \in Nat : Len(s) = k
      OBVIOUS
    <3>2. DOMAIN s = 1 .. k /\ DOMAIN t = 1 .. k + 1 /\ t[k + 1] = e /\ \A i \in 1 .. k : t[i] = s[i]
      BY <3>1
    <3> HIDE DEF t
    <3>3. \A i \in DOMAIN s : AllRebuild(cat, s[i], target)
      <4>1. \A i \in 1 .. k : i \in 1 .. k + 1
        BY <3>1
      <4>2. QED
        BY <2>2, <3>2, <4>1
    <3>4. AllRebuild(cat, e, target)
      <4>1. k + 1 \in 1 .. k + 1
        BY <3>1
      <4>2. QED
        BY <2>2, <3>2, <4>1
    <3>5. AllRebuild(cat, FlattenSeq(s), target)
      BY <1>3, <3>3
    <3>6. QED
      BY <2>1, <3>4, <3>5, JoinedRebuild
  <2> HIDE DEF t
  <2>3. t \in Good
    BY <2>1, <2>2
  <2>4. QED
    BY <2>3 DEF t
<1>4. Seq(Seq(A)) \subseteq Good
  <2> HIDE DEF Good
  <2>1. QED
    BY <1>2, <1>3, SeqSetInduction
<1>5. css \in Good
  BY <1>1, <1>4
<1>6. QED
  BY <1>1, <1>5

----------------------------------------------------------------------------
(* Collecting candidates. *)

\* One candidate more, as a function that folds take.
PushStep(C) == [x \in Seq(C) \X C |-> replace_or_push(x[1], x[2])]

\* What is collected is made of what is offered.
LEMMA PushStepIs ==
  ASSUME NEW C
  PROVE  PushStep(C) \in Steps(Seq(C), C)
<1>1. ASSUME NEW out \in Seq(C), NEW c \in C PROVE replace_or_push(out, c) \in Seq(C)
  <2> DEFINE same == {i \in DOMAIN out : out[i].kind = c.kind}
             next == [i \in DOMAIN out |-> IF i \in same /\ c.wire < out[i].wire THEN c ELSE out[i]]
  <2>1. replace_or_push(out, c) = IF same = {} THEN Append(out, c) ELSE next
    BY DEF replace_or_push
  <2> HIDE DEF same
  <2>2. Append(out, c) \in Seq(C)
    OBVIOUS
  <2>3. next \in Seq(C)
    <3>1. \A i \in DOMAIN out : next[i] \in C
      OBVIOUS
    <3>2. DOMAIN out = 1 .. Len(out) /\ Len(out) \in Nat
      OBVIOUS
    <3>3. next = [i \in 1 .. Len(out) |-> next[i]]
      BY <3>2
    <3> HIDE DEF next
    <3>4. QED
      BY <3>1, <3>2, <3>3
  <2>4. QED
    BY <2>1, <2>2, <2>3
<1>2. QED
  BY <1>1 DEF PushStep, Steps

\* Collecting is a fold.
LEMMA PushFold ==
  ASSUME NEW C, NEW seq \in Seq(C)
  PROVE  FoldLeft(replace_or_push, << >>, seq) = Result(PushStep(C), Seq(C), << >>, seq)
<1> DEFINE A == Seq(C)
           f == PushStep(C)
           first == << >>
           Solves(h) ==
             h = [s \in SUBSET DOMAIN seq |->
                    IF s = {} THEN first ELSE replace_or_push(h[s \ {Max(s)}], seq[Max(s)])]
           it == CHOOSE h : Solves(h)
<1>1. f \in Steps(A, C) /\ first \in A
  BY PushStepIs
<1>2. FoldLeft(replace_or_push, first, seq) = it[DOMAIN seq]
  BY Zenon DEF FoldLeft, MapThenFoldSet
<1>3. \A a \in A, x \in C : f[<<a, x>>] = replace_or_push(a, x)
  BY DEF PushStep
<1> HIDE DEF A, f, first
<1>4. PICK h : PeelsOf(f, A, C, first, seq, h)
  BY <1>1, PeelOfExists
<1>5. Solves(h)
  BY <1>3, <1>4 DEF PeelsOf
<1>6. Solves(it)
  <2> HIDE DEF Solves
  <2>1. QED
    BY <1>5, Zenon
<1> HIDE DEF it
<1>7. it[{}] = first
  BY <1>6
<1>8. ASSUME NEW s \in SUBSET DOMAIN seq, s # {}, it[s \ {Max(s)}] \in A
      PROVE  it[s] = f[<<it[s \ {Max(s)}], seq[Max(s)]>>]
  <2>1. it[s] = replace_or_push(it[s \ {Max(s)}], seq[Max(s)])
    BY <1>6, <1>8
  <2>2. seq[Max(s)] \in C
    BY <1>4, <1>8 DEF PeelsOf
  <2>3. QED
    BY <1>3, <1>8, <2>1, <2>2
<1>9. PeelsTo(f, A, first, seq, it)
  BY <1>7, <1>8 DEF PeelsTo
<1>10. it[DOMAIN seq] = Result(f, A, first, seq)
  BY <1>1, <1>9, PeelIsResult
<1>11. QED
  BY <1>2, <1>10 DEF A, f, first

\* What is collected rebuilds the target when all that is offered does.
LEMMA CollectedRebuild ==
  ASSUME NEW cat, NEW target, NEW seq, AllRebuild(cat, seq, target)
  PROVE  \A c \in ToSet(FoldLeft(replace_or_push, << >>, seq)) : Rebuilds(cat, c, target)
<1> DEFINE C == ToSet(seq)
           out == FoldLeft(replace_or_push, << >>, seq)
<1>1. seq \in Seq(C) /\ \A i \in DOMAIN seq : Rebuilds(cat, seq[i], target)
  BY DEF AllRebuild
<1>2. \A c \in C : Rebuilds(cat, c, target)
  BY <1>1 DEF ToSet
<1> HIDE DEF C
<1>3. out = Result(PushStep(C), Seq(C), << >>, seq)
  BY <1>1, PushFold
<1> DEFINE none == << >>
<1>4. none \in Seq(C) /\ PushStep(C) \in Steps(Seq(C), C) /\ out = Result(PushStep(C), Seq(C), none, seq)
  BY <1>3, PushStepIs
<1> HIDE DEF none, out
<1>5. out \in Seq(C)
  BY <1>1, <1>4, ResultType
<1>6. \A c \in ToSet(out) : c \in C
  BY <1>5 DEF ToSet
<1>7. QED
  BY <1>2, <1>6 DEF out

----------------------------------------------------------------------------
(* What references give. *)

\* The members of bundles over the blocks of a catalog.
Members(cat) ==
  {m \in [block : cat.blocks, start : Nat, len : Nat] : Within(m.block.material, m.start, m.start + m.len)}

\* A catalog over bytes T.
CatalogRight(T, cat) ==
  /\ cat = [version |-> cat.version, blocks |-> cat.blocks, bundles |-> cat.bundles]
  /\ IsFiniteSet(cat.blocks) /\ IsFiniteSet(cat.bundles)
  /\ \A b \in cat.blocks : b.material \in Seq(T)
  /\ \A b \in cat.bundles : b.members \in Seq(Members(cat))

\* The order of the identifiers is one of the members.
LEMMA InOrder ==
  ASSUME NEW S, IsFiniteSet(S)
  PROVE  InIdOrder(S) \in Seq(S)
<1> DEFINE n == Cardinality(S)
           s == InIdOrder(S)
<1>1. n \in Nat /\ ExistsBijection(1 .. n, S)
  BY FS_CardinalityType
<1> HIDE DEF n
<1>2. \E f \in [1 .. n -> S] : IsInjective(f)
  BY <1>1 DEF ExistsBijection, Bijection, Injection
<1>3. s \in [1 .. n -> S]
  BY <1>2, Zenon DEF InIdOrder, SetToSeq, n
<1> HIDE DEF s
<1>4. s \in Seq(S)
  BY <1>1, <1>3
<1>5. QED
  BY <1>4 DEF s

\* What a member stands for.
MemberPart(m) == Slice(m.block.material, m.start, m.start + m.len)

MemberParts(s) == [i \in DOMAIN s |-> MemberPart(s[i])]

\* It has the length that the member says.
LEMMA MemberPartIs ==
  ASSUME NEW T, NEW cat, CatalogRight(T, cat), NEW m \in Members(cat)
  PROVE  /\ MemberPart(m) \in Seq(T) /\ Len(MemberPart(m)) = m.len /\ m.len \in Nat
         /\ materialize_block_range(cat, m.block, m.start, m.len) = Done(MemberPart(m))
<1> DEFINE s == m.block.material
           a == m.start
           n == m.len
<1>1. m.block \in cat.blocks /\ a \in Nat /\ n \in Nat /\ Within(s, a, a + n)
  BY DEF Members
<1>2. s \in Seq(T)
  BY <1>1 DEF CatalogRight
<1>3. checked_range(Len(s), a, n)
  BY <1>1, <1>2 DEF checked_range, Within
<1>4. materialize_block_range(cat, m.block, a, n) = Done(MemberPart(m))
  BY <1>1, <1>3 DEF materialize_block_range, MemberPart
<1> HIDE DEF s, a, n
<1>5. Slice(s, a, a + n) \in Seq(T) /\ Len(Slice(s, a, a + n)) = (a + n) - a
  BY <1>1, <1>2, SliceIs
<1>6. MemberPart(m) = Slice(s, a, a + n)
  BY DEF MemberPart, s, a, n
<1>7. QED
  BY <1>1, <1>4, <1>5, <1>6 DEF a, n

\* Adding up the lengths, as a function that folds take.
LenStep(M) == [x \in Nat \X M |-> x[1] + x[2].len]

\* It is one.
LEMMA LenStepIs ==
  ASSUME NEW M, \A m \in M : m.len \in Nat
  PROVE  LenStep(M) \in Steps(Nat, M)
BY DEF LenStep, Steps

\* Adding one more.
LEMMA LenMore ==
  ASSUME NEW M, \A m \in M : m.len \in Nat, NEW s \in Seq(M), NEW x \in M
  PROVE  /\ Result(LenStep(M), Nat, 0, s) \in Nat
         /\ Result(LenStep(M), Nat, 0, Append(s, x)) = Result(LenStep(M), Nat, 0, s) + x.len
<1> DEFINE zero == 0
           N == Nat
           f == LenStep(M)
<1>1. zero \in N /\ f \in Steps(N, M)
  BY LenStepIs
<1> HIDE DEF zero, N, f
<1>2. Result(f, N, zero, s) \in N
  BY <1>1, ResultType
<1>3. Result(f, N, zero, Append(s, x)) = f[<<Result(f, N, zero, s), x>>]
  BY <1>1, ResultAppend
<1> DEFINE total == Result(f, N, zero, s)
<1> HIDE DEF total
<1>4. f[<<total, x>>] = total + x.len
  BY <1>2 DEF LenStep, f, total, N
<1>5. QED
  BY <1>2, <1>3, <1>4 DEF total, f, zero, N

\* What the elements of a sequence stand for.
Mapped(tx, s) == [i \in DOMAIN s |-> tx[s[i]]]

\* What it is has the length that the element says.
Stands(T, M, tx) == tx \in [M -> Seq(T)] /\ \A m \in M : Len(tx[m]) = m.len /\ m.len \in Nat

\* The sum is the length of all that the elements stand for.
LEMMA MappedLen ==
  ASSUME NEW T, NEW M, NEW tx, Stands(T, M, tx), NEW s \in Seq(M)
  PROVE  /\ Mapped(tx, s) \in Seq(Seq(T))
         /\ Result(LenStep(M), Nat, 0, s) = Len(FlattenSeq(Mapped(tx, s)))
<1> DEFINE f == LenStep(M)
           Good == {r \in Seq(M) : Mapped(tx, r) \in Seq(Seq(T)) /\ Result(f, Nat, 0, r) = Len(FlattenSeq(Mapped(tx, r)))}
<1>1. \A m \in M : tx[m] \in Seq(T) /\ Len(tx[m]) = m.len /\ m.len \in Nat
  BY DEF Stands
<1>2. f \in Steps(Nat, M)
  BY <1>1, LenStepIs
<1>3. << >> \in Good
  <2> DEFINE none == << >>
  <2>1. none \in Seq(M) /\ none \in Seq(Seq(T)) /\ Len(none) = 0 /\ Mapped(tx, none) = none
    BY DEF Mapped
  <2>2. FlattenSeq(none) = none
    BY FlattenEmpty
  <2>3. Result(f, Nat, 0, none) = 0
    <3>1. 0 \in Nat
      OBVIOUS
    <3> HIDE DEF f
    <3>2. QED
      BY <1>2, <3>1, ResultEmpty
  <2> HIDE DEF none, f
  <2>4. none \in Good
    BY <2>1, <2>2, <2>3
  <2>5. QED
    BY <2>4 DEF none
<1>4. ASSUME NEW r \in Seq(M), NEW m \in M, r \in Good PROVE Append(r, m) \in Good
  <2> DEFINE t == Append(r, m)
             ps == Mapped(tx, r)
             e == tx[m]
             total == Result(f, Nat, 0, r)
  <2>1. ps \in Seq(Seq(T)) /\ total = Len(FlattenSeq(ps)) /\ e \in Seq(T) /\ Len(e) = m.len
    BY <1>1, <1>4
  <2>2. Mapped(tx, t) = Append(ps, e)
    <3>1. PICK k \in Nat : Len(r) = k
      OBVIOUS
    <3>2. DOMAIN r = 1 .. k /\ DOMAIN t = 1 .. k + 1 /\ t[k + 1] = m /\ \A i \in 1 .. k : t[i] = r[i]
      BY <3>1
    <3> HIDE DEF t
    <3>3. ps = [i \in 1 .. k |-> tx[r[i]]] /\ Mapped(tx, t) = [i \in 1 .. k + 1 |-> tx[t[i]]]
      BY <3>2 DEF Mapped
    <3>4. Len(ps) = k
      BY <3>1, <3>3
    <3>5. Append(ps, e) = [i \in 1 .. k + 1 |-> IF i <= k THEN ps[i] ELSE e]
      <4> DEFINE q == Append(ps, e)
      <4> HIDE DEF ps, e
      <4>1. q \in Seq(Seq(T)) /\ Len(q) = k + 1 /\ q[k + 1] = e /\ \A i \in 1 .. k : q[i] = ps[i]
        BY <2>1, <3>4
      <4> HIDE DEF q
      <4>2. q = [i \in 1 .. k + 1 |-> q[i]]
        BY <4>1
      <4>3. ASSUME NEW i \in 1 .. k + 1 PROVE q[i] = IF i <= k THEN ps[i] ELSE e
        <5>1. i <= k => i \in 1 .. k
          BY <3>1
        <5>2. ~(i <= k) => i = k + 1
          BY <3>1
        <5>3. QED
          BY <4>1, <5>1, <5>2
      <4>4. QED
        BY <4>2, <4>3 DEF q
    <3>6. ASSUME NEW i \in 1 .. k + 1 PROVE tx[t[i]] = IF i <= k THEN ps[i] ELSE e
      <4>1. CASE i <= k
        <5>1. i \in 1 .. k
          BY <3>1, <4>1
        <5>2. QED
          BY <3>2, <3>3, <4>1, <5>1
      <4>2. CASE ~(i <= k)
        <5>1. i = k + 1
          BY <3>1, <4>2
        <5>2. QED
          BY <3>2, <4>2, <5>1
      <4>3. QED
        BY <4>1, <4>2
    <3> HIDE DEF ps, e
    <3>7. QED
      BY <3>3, <3>5, <3>6
  <2>3. t \in Seq(M)
    OBVIOUS
  <2>4. Result(f, Nat, 0, t) = total + m.len
    <3>1. \A x \in M : x.len \in Nat
      BY <1>1
    <3>2. QED
      BY <3>1, LenMore
  <2> HIDE DEF t, ps, e, total, f
  <2>5. FlattenSeq(Append(ps, e)) = FlattenSeq(ps) \o e
    BY <2>1, FlattenAppend
  <2>6. FlattenSeq(ps) \in Seq(T)
    BY <2>1, FlattenType
  <2>7. Len(FlattenSeq(ps) \o e) = Len(FlattenSeq(ps)) + Len(e)
    BY <2>1, <2>6, LenJoined
  <2>8. Mapped(tx, t) \in Seq(Seq(T))
    <3>1. Append(ps, e) \in Seq(Seq(T))
      BY <2>1
    <3>2. QED
      BY <2>2, <3>1
  <2>9. Result(f, Nat, 0, t) = Len(FlattenSeq(Mapped(tx, t)))
    BY <2>1, <2>2, <2>4, <2>5, <2>7
  <2>10. t \in Good
    BY <2>3, <2>8, <2>9
  <2>11. QED
    BY <2>10 DEF t
<1>5. Seq(M) \subseteq Good
  <2> HIDE DEF Good
  <2>1. QED
    BY <1>3, <1>4, SeqSetInduction
<1>6. QED
  BY <1>5

\* So is the sum over members.
LEMMA MembersLen ==
  ASSUME NEW T, NEW cat, CatalogRight(T, cat), NEW s \in Seq(Members(cat))
  PROVE  /\ MemberParts(s) \in Seq(Seq(T))
         /\ Result(LenStep(Members(cat)), Nat, 0, s) = Len(FlattenSeq(MemberParts(s)))
<1> DEFINE M == Members(cat)
           tx == [m \in M |-> MemberPart(m)]
<1>1. \A m \in M : MemberPart(m) \in Seq(T) /\ Len(MemberPart(m)) = m.len /\ m.len \in Nat
  BY MemberPartIs
<1> HIDE DEF M
<1>2. s \in Seq(M)
  BY DEF M
<1>3. tx \in [M -> Seq(T)] /\ \A m \in M : tx[m] = MemberPart(m)
  BY <1>1
<1> HIDE DEF tx
<1>4. Mapped(tx, s) = MemberParts(s)
  BY <1>2, <1>3 DEF Mapped, MemberParts
<1>5. Mapped(tx, s) \in Seq(Seq(T)) /\ Result(LenStep(M), Nat, 0, s) = Len(FlattenSeq(Mapped(tx, s)))
  <2>1. Stands(T, M, tx)
    BY <1>1, <1>3 DEF Stands
  <2>2. QED
    BY <1>2, <2>1, MappedLen
<1>6. QED
  BY <1>4, <1>5 DEF M

\* Adding up is a fold.
LEMMA LenFold ==
  ASSUME NEW M, \A m \in M : m.len \in Nat, NEW seq \in Seq(M)
  PROVE  BundleLen(Bundle(seq)) = Result(LenStep(M), Nat, 0, seq)
<1> DEFINE f == LenStep(M)
           Plus(total, m) == total + m.len
           Solves(h) ==
             h = [s \in SUBSET DOMAIN seq |-> IF s = {} THEN 0 ELSE Plus(h[s \ {Max(s)}], seq[Max(s)])]
           it == CHOOSE h : Solves(h)
<1>1. f \in Steps(Nat, M) /\ 0 \in Nat
  BY LenStepIs
<1>2. BundleLen(Bundle(seq)) = it[DOMAIN seq]
  <2>1. BundleLen(Bundle(seq)) = FoldLeft(Plus, 0, seq)
    BY DEF BundleLen, Bundle
  <2>2. FoldLeft(Plus, 0, seq) = it[DOMAIN seq]
    BY Zenon DEF FoldLeft, MapThenFoldSet
  <2>3. QED
    BY <2>1, <2>2
<1>3. \A a \in Nat, x \in M : f[<<a, x>>] = Plus(a, x)
  BY DEF LenStep
<1> HIDE DEF f, Plus
<1>4. PICK h : PeelsOf(f, Nat, M, 0, seq, h)
  BY <1>1, PeelOfExists
<1>5. Solves(h)
  BY <1>3, <1>4 DEF PeelsOf
<1>6. Solves(it)
  <2> HIDE DEF Solves
  <2>1. QED
    BY <1>5, Zenon
<1> HIDE DEF it
<1>7. it[{}] = 0
  BY <1>6
<1>8. ASSUME NEW s \in SUBSET DOMAIN seq, s # {}, it[s \ {Max(s)}] \in Nat
      PROVE  it[s] = f[<<it[s \ {Max(s)}], seq[Max(s)]>>]
  <2>1. it[s] = Plus(it[s \ {Max(s)}], seq[Max(s)])
    BY <1>6, <1>8
  <2>2. seq[Max(s)] \in M
    BY <1>4, <1>8 DEF PeelsOf
  <2>3. QED
    BY <1>3, <1>8, <2>1, <2>2
<1>9. PeelsTo(f, Nat, 0, seq, it)
  BY <1>7, <1>8 DEF PeelsTo
<1> HIDE DEF Solves
<1>10. it[DOMAIN seq] = Result(f, Nat, 0, seq)
  <2> DEFINE A == Nat
             first == 0
  <2>1. first \in A /\ f \in Steps(A, M) /\ PeelsTo(f, A, first, seq, it)
    BY <1>1, <1>9
  <2> HIDE DEF A, first
  <2>2. it[DOMAIN seq] = Result(f, A, first, seq)
    BY <2>1, PeelIsResult
  <2>3. QED
    BY <2>2 DEF A, first
<1>11. QED
  BY <1>2, <1>10 DEF f

\* A bundle is the bytes of its parts, and it has the length that it carries.
LEMMA BundleIs ==
  ASSUME NEW T, NEW cat, CatalogRight(T, cat), NEW b \in cat.bundles
  PROVE  /\ materialize_bundle(cat, b) = Done(FlattenSeq(MemberParts(b.members)))
         /\ FlattenSeq(MemberParts(b.members)) \in Seq(T)
         /\ BundleLen(b) = Len(FlattenSeq(MemberParts(b.members)))
<1> DEFINE s == b.members
           M == Members(cat)
           parts == [i \in DOMAIN s |-> materialize_block_range(cat, s[i].block, s[i].start, s[i].len)]
<1>1. s \in Seq(M)
  BY DEF CatalogRight
<1> HIDE DEF s
<1>2. ASSUME NEW i \in DOMAIN s PROVE parts[i] = Done(MemberPart(s[i]))
  <2>1. s[i] \in Members(cat)
    BY <1>1
  <2>2. materialize_block_range(cat, s[i].block, s[i].start, s[i].len) = Done(MemberPart(s[i]))
    BY <2>1, MemberPartIs
  <2>3. QED
    BY <2>2
<1>3. DOMAIN parts = DOMAIN s
  OBVIOUS
<1>4. materialize_members(cat, s) =
        IF \A i \in DOMAIN parts : parts[i].ok
        THEN Done(FlattenSeq([i \in DOMAIN parts |-> parts[i].value])) ELSE Failed
  BY DEF materialize_members
<1> HIDE DEF parts
<1>5. \A i \in DOMAIN parts : parts[i].ok /\ parts[i].value = MemberPart(s[i])
  BY <1>2, <1>3 DEF Done
<1>6. [i \in DOMAIN parts |-> parts[i].value] = MemberParts(s)
  BY <1>3, <1>5 DEF MemberParts
<1>7. materialize_members(cat, s) = Done(FlattenSeq(MemberParts(s)))
  BY <1>4, <1>5, <1>6
<1>8. materialize_bundle(cat, b) = Done(FlattenSeq(MemberParts(s)))
  BY <1>7 DEF materialize_bundle, s
<1>9. MemberParts(s) \in Seq(Seq(T)) /\ Result(LenStep(M), Nat, 0, s) = Len(FlattenSeq(MemberParts(s)))
  BY <1>1, MembersLen
<1>10. FlattenSeq(MemberParts(s)) \in Seq(T)
  BY <1>9, FlattenType
<1>11. BundleLen(b) = Result(LenStep(M), Nat, 0, s)
  <2>1. BundleLen(b) = BundleLen(Bundle(s))
    BY DEF BundleLen, Bundle, s
  <2>2. \A m \in M : m.len \in Nat
    BY MemberPartIs
  <2> HIDE DEF M
  <2>3. QED
    BY <1>1, <2>1, <2>2, LenFold
<1>12. QED
  BY <1>8, <1>9, <1>10, <1>11 DEF s

\* References into a catalog.
Refs(cat) == [kind : {"block", "bundle"}, base : cat.blocks \cup cat.bundles, start : Nat, len : Nat]

\* What a reference cuts its range from.
WholeIs(cat, ref, bytes) ==
  (IF ref.kind = "block" THEN materialize_block_range(cat, ref.base, 0, Len(ref.base.material))
   ELSE materialize_bundle(cat, ref.base)) = Done(bytes)

\* A range inside of it is what the receiver resolves.
LEMMA RangeGives ==
  ASSUME NEW T, NEW cat, NEW ref, NEW bytes \in Seq(T), WholeIs(cat, ref, bytes),
         ref.len \in Nat, Within(bytes, ref.start, ref.start + ref.len)
  PROVE  Gives(cat, ref, Slice(bytes, ref.start, ref.start + ref.len))
<1> DEFINE a == ref.start
           n == ref.len
<1>1. a \in Nat /\ n \in Nat /\ a + n <= Len(bytes) /\ Len(bytes) \in Nat
  BY DEF Within
<1>2. (IF a + n < Len(bytes) THEN a + n ELSE Len(bytes)) = a + n
  BY <1>1
<1>3. resolve_transform_basis(cat, ref) =
        Done(SubSeq(bytes, a + 1, IF a + n < Len(bytes) THEN a + n ELSE Len(bytes)))
  <2> DEFINE whole == IF ref.kind = "block"
                      THEN materialize_block_range(cat, ref.base, 0, Len(ref.base.material))
                      ELSE materialize_bundle(cat, ref.base)
  <2>1. whole = Done(bytes)
    BY DEF WholeIs
  <2>2. resolve_transform_basis(cat, ref) =
          IF whole.ok
          THEN Done(SubSeq(whole.value, ref.start + 1,
                           IF ref.start + ref.len < Len(whole.value) THEN ref.start + ref.len ELSE Len(whole.value)))
          ELSE Failed
    BY DEF resolve_transform_basis
  <2> HIDE DEF whole
  <2>3. whole.ok /\ whole.value = bytes
    BY <2>1 DEF Done
  <2>4. QED
    BY <2>2, <2>3
<1>4. QED
  BY <1>2, <1>3 DEF Gives, Slice

\* A program reads the same.
LEMMA RangeReads ==
  ASSUME NEW T, NEW cat, NEW ref \in Refs(cat), NEW bytes \in Seq(T), WholeIs(cat, ref, bytes),
         Within(bytes, ref.start, ref.start + ref.len)
  PROVE  materialize_ref(cat, ref) = Done(Slice(bytes, ref.start, ref.start + ref.len))
<1> DEFINE a == ref.start
           n == ref.len
           base == IF ref.kind = "bundle" THEN materialize_bundle(cat, ref.base)
                   ELSE materialize_block_range(cat, ref.base, 0, Len(ref.base.material))
<1>1. ref.kind \in {"block", "bundle"} /\ a \in Nat /\ n \in Nat
  BY DEF Refs
<1>2. base = Done(bytes)
  BY <1>1 DEF WholeIs
<1> HIDE DEF base
<1>3. base.ok /\ base.value = bytes
  BY <1>2 DEF Done
<1>4. checked_range(Len(bytes), a, n)
  BY <1>1 DEF checked_range, Within
<1>5. materialize_ref(cat, ref) =
        IF checked_range(Len(base.value), a, n) THEN Done(Slice(base.value, a, a + n)) ELSE Failed
  BY <1>1, <1>3 DEF materialize_ref, base
<1>6. QED
  BY <1>3, <1>4, <1>5

\* The catalog as references with their bytes.
WholeItems(T, cat) ==
  {x \in [ref : Refs(cat), bytes : Seq(T)] :
     WholeIs(cat, x.ref, x.bytes) /\ x.ref.start = 0 /\ x.ref.len = Len(x.bytes)}

\* They are as they say.
LEMMA BasesAre ==
  ASSUME NEW T, NEW cat, CatalogRight(T, cat)
  PROVE  Bases(cat) \in Seq(WholeItems(T, cat))
<1> DEFINE blocks == InIdOrder(cat.blocks)
           bundles == InIdOrder(cat.bundles)
           I == WholeItems(T, cat)
           Whole(b) == [ref |-> BlockRef(b, 0, Len(b.material)), bytes |-> b.material]
           Sum(b) == [ref |-> BundleRef(b, 0, BundleLen(b)), bytes |-> OrElse(materialize_bundle(cat, b), << >>)]
<1>1. blocks \in Seq(cat.blocks) /\ bundles \in Seq(cat.bundles)
  BY InOrder DEF CatalogRight
<1> HIDE DEF blocks, bundles
<1>2. ASSUME NEW b \in cat.blocks PROVE Whole(b) \in I
  <2> DEFINE s == b.material
             r == [kind |-> "block", base |-> b, start |-> 0, len |-> Len(s)]
             x == [ref |-> r, bytes |-> s]
  <2>1. Whole(b) = x
    BY DEF BlockRef
  <2>2. s \in Seq(T)
    BY DEF CatalogRight
  <2>3. r \in Refs(cat)
    <3> HIDE DEF s
    <3>1. Len(s) \in Nat
      BY <2>2
    <3>2. QED
      BY <3>1 DEF Refs
  <2>4. WholeIs(cat, r, s)
    <3>1. Len(s) \in Nat /\ 0 \in 0 .. Len(s) /\ 0 + Len(s) = Len(s)
      <4> HIDE DEF s
      <4>1. QED
        BY <2>2
    <3>2. Slice(s, 0, Len(s)) = s
      <4> HIDE DEF s
      <4>1. QED
        BY <2>2, <3>1, SliceEnds
    <3>3. checked_range(Len(s), 0, Len(s))
      <4> HIDE DEF s
      <4>1. QED
        BY <3>1 DEF checked_range
    <3>4. materialize_block_range(cat, b, 0, Len(s)) = Done(s)
      BY <3>1, <3>2, <3>3 DEF materialize_block_range
    <3>5. r.kind = "block" /\ r.base = b
      OBVIOUS
    <3> HIDE DEF r
    <3>6. QED
      BY <3>4, <3>5 DEF WholeIs
  <2>5. r.start = 0 /\ r.len = Len(s)
    OBVIOUS
  <2> HIDE DEF r, s
  <2>6. x \in I
    BY <2>2, <2>3, <2>4, <2>5 DEF WholeItems
  <2>7. QED
    BY <2>1, <2>6
<1>3. ASSUME NEW b \in cat.bundles PROVE Sum(b) \in I
  <2> DEFINE s == FlattenSeq(MemberParts(b.members))
             n == BundleLen(b)
             r == [kind |-> "bundle", base |-> b, start |-> 0, len |-> n]
             x == [ref |-> r, bytes |-> s]
  <2>1. materialize_bundle(cat, b) = Done(s) /\ s \in Seq(T) /\ n = Len(s)
    BY BundleIs
  <2> HIDE DEF s, n
  <2>2. Sum(b) = x
    BY <2>1 DEF BundleRef, OrElse, Done, n
  <2>3. r \in Refs(cat)
    <3>1. n \in Nat
      BY <2>1
    <3>2. QED
      BY <3>1 DEF Refs
  <2>4. r.kind = "bundle" /\ r.base = b /\ r.start = 0 /\ r.len = n
    OBVIOUS
  <2> HIDE DEF r
  <2>5. WholeIs(cat, r, s)
    BY <2>1, <2>4 DEF WholeIs
  <2>6. x \in I
    BY <2>1, <2>3, <2>4, <2>5 DEF WholeItems
  <2>7. QED
    BY <2>2, <2>6
<1> DEFINE p == [i \in DOMAIN blocks |-> Whole(blocks[i])]
           q == [i \in DOMAIN bundles |-> Sum(bundles[i])]
<1>4. Bases(cat) = p \o q
  BY DEF Bases, blocks, bundles
<1> HIDE DEF I, Whole, Sum
<1>5. p \in Seq(I) /\ q \in Seq(I)
  <2>1. blocks \in Seq(cat.blocks) /\ bundles \in Seq(cat.bundles)
    BY <1>1
  <2> HIDE DEF blocks, bundles
  <2>2. p \in Seq(I)
    BY <1>2, <2>1
  <2>3. q \in Seq(I)
    BY <1>3, <2>1
  <2>4. QED
    BY <2>2, <2>3
<1> HIDE DEF p, q
<1>6. p \o q \in Seq(I)
  BY <1>5
<1>7. QED
  BY <1>4, <1>6 DEF I

\* So the bases of transforms resolve to their bytes.
LEMMA TransformBasesAre ==
  ASSUME NEW T, NEW cat, CatalogRight(T, cat)
  PROVE  exact_transform_bases(cat) \in Seq(WholeItems(T, cat)) /\ Resolve(T, cat, exact_transform_bases(cat))
<1> DEFINE I == WholeItems(T, cat)
           all == Bases(cat)
           S == {b \in ToSet(all) : b.bytes # << >>}
           bases == exact_transform_bases(cat)
<1>1. all \in Seq(I)
  BY BasesAre
<1>2. bases = Kept(all, S)
  BY DEF exact_transform_bases
<1> HIDE DEF all, S, I
<1>3. Kept(all, S) \in Seq(I)
  BY <1>1, KeptIs
<1> HIDE DEF bases
<1>4. bases \in Seq(I)
  BY <1>2, <1>3
<1>5. ASSUME NEW i \in DOMAIN bases PROVE bases[i].bytes \in Seq(T) /\ Gives(cat, bases[i].ref, bases[i].bytes)
  <2> DEFINE x == bases[i]
             s == x.bytes
  <2>1. x \in I
    BY <1>4
  <2> HIDE DEF x
  <2>2. s \in Seq(T) /\ WholeIs(cat, x.ref, s) /\ x.ref.start = 0 /\ x.ref.len = Len(s)
    BY <2>1 DEF I, WholeItems
  <2> HIDE DEF s
  <2>3. Len(s) \in Nat /\ 0 \in 0 .. Len(s) /\ 0 + Len(s) = Len(s)
    BY <2>2
  <2>4. Slice(s, 0, Len(s)) = s
    BY <2>2, <2>3, SliceEnds
  <2>5. x.ref.len \in Nat /\ Within(s, x.ref.start, x.ref.start + x.ref.len)
    BY <2>2, <2>3 DEF Within
  <2>6. Gives(cat, x.ref, Slice(s, x.ref.start, x.ref.start + x.ref.len))
    BY <2>2, <2>5, RangeGives
  <2>7. Slice(s, x.ref.start, x.ref.start + x.ref.len) = s
    BY <2>2, <2>3, <2>4
  <2>8. QED
    BY <2>2, <2>6, <2>7 DEF x, s
<1>6. QED
  BY <1>4, <1>5 DEF Resolve, bases, I

\* Windows of which each has a length up to n.
Windows(n) == [payload_start : Nat, base_start : Nat, matched_len : 0 .. n]

LongerWindow(v, w) ==
  \/ v.matched_len > w.matched_len
  \/ /\ v.matched_len = w.matched_len
     /\ \/ v.payload_start < w.payload_start
        \/ v.payload_start = w.payload_start /\ v.base_start < w.base_start

\* A window that is preferred to all others.
LEMMA BestWindow ==
  ASSUME NEW n \in Nat, NEW windows \in SUBSET Windows(n), windows # {}
  PROVE  \E w \in windows : \A v \in windows \ {w} : LongerWindow(w, v)
<1> DEFINE Rest(w) == n - w.matched_len
<1>1. \A w \in windows : /\ w.payload_start \in Nat /\ w.base_start \in Nat /\ w.matched_len \in Nat /\ Rest(w) \in Nat
                         /\ w = [payload_start |-> w.payload_start, base_start |-> w.base_start,
                                 matched_len |-> w.matched_len]
  <2>1. ASSUME NEW w \in windows
        PROVE  /\ w.payload_start \in Nat /\ w.base_start \in Nat /\ w.matched_len \in 0 .. n
               /\ w = [payload_start |-> w.payload_start, base_start |-> w.base_start,
                       matched_len |-> w.matched_len]
    BY DEF Windows
  <2>2. QED
    BY <2>1
<1> DEFINE f1 == [w \in windows |-> Rest(w)]
<1>2. PICK a \in windows : \A w \in windows : Rest(a) <= Rest(w)
  <2>1. f1 \in [windows -> Nat] /\ \A w \in windows : f1[w] = Rest(w)
    BY <1>1
  <2> HIDE DEF f1, Rest
  <2>2. \E x \in windows : \A w \in windows : f1[x] <= f1[w]
    BY <2>1, LeastOf
  <2>3. QED
    BY <2>1, <2>2
<1> DEFINE A == {w \in windows : w.matched_len = a.matched_len}
           f2 == [w \in A |-> w.payload_start]
<1>3. PICK b \in A : \A w \in A : b.payload_start <= w.payload_start
  <2>1. f2 \in [A -> Nat] /\ (\A w \in A : f2[w] = w.payload_start) /\ A # {}
    BY <1>1
  <2> HIDE DEF f2, A
  <2>2. \E x \in A : \A w \in A : f2[x] <= f2[w]
    BY <2>1, LeastOf
  <2>3. QED
    BY <2>1, <2>2
<1> DEFINE B == {w \in A : w.payload_start = b.payload_start}
           f3 == [w \in B |-> w.base_start]
<1>4. PICK d \in B : \A w \in B : d.base_start <= w.base_start
  <2>1. f3 \in [B -> Nat] /\ (\A w \in B : f3[w] = w.base_start) /\ B # {}
    BY <1>1
  <2> HIDE DEF f3, B
  <2>2. \E x \in B : \A w \in B : f3[x] <= f3[w]
    BY <2>1, LeastOf
  <2>3. QED
    BY <2>1, <2>2
<1>5. d \in windows /\ d.matched_len = a.matched_len /\ d.payload_start = b.payload_start
  OBVIOUS
<1> HIDE DEF f1, f2, f3
<1>6. ASSUME NEW v \in windows \ {d} PROVE LongerWindow(d, v)
  <2>1. /\ v.payload_start \in Nat /\ v.base_start \in Nat /\ v.matched_len \in Nat
        /\ d.payload_start \in Nat /\ d.base_start \in Nat /\ d.matched_len \in Nat
    BY <1>1, <1>5
  <2>2. ~(v.payload_start = d.payload_start /\ v.base_start = d.base_start /\ v.matched_len = d.matched_len)
    BY <1>1, <1>5, <1>6
  <2>3. d.matched_len >= v.matched_len
    <3>1. n - d.matched_len <= n - v.matched_len
      BY <1>2, <1>5
    <3>2. QED
      BY <2>1, <3>1
  <2>4. v.matched_len = d.matched_len => d.payload_start <= v.payload_start
    BY <1>3, <1>5
  <2>5. v.matched_len = d.matched_len /\ v.payload_start = d.payload_start => d.base_start <= v.base_start
    BY <1>4, <1>5
  <2> HIDE DEF A, B
  <2>6. CASE v.matched_len # d.matched_len
    BY <2>1, <2>3, <2>6 DEF LongerWindow
  <2>7. CASE v.matched_len = d.matched_len
    <3>1. d.payload_start = v.payload_start => d.base_start <= v.base_start /\ d.base_start # v.base_start
      BY <2>2, <2>5, <2>7
    <3>2. d.payload_start < v.payload_start \/ (d.payload_start = v.payload_start /\ d.base_start < v.base_start)
      BY <2>1, <2>4, <2>7, <3>1, PairsOrdered
    <3>3. QED
      BY <2>7, <3>2 DEF LongerWindow
  <2>8. QED
    BY <2>6, <2>7
<1>7. QED
  BY <1>5, <1>6

\* The beginning of a part of a sequence.
LEMMA SliceOfSlice ==
  ASSUME NEW T, NEW s \in Seq(T), NEW a, NEW b, Within(s, a, b), NEW k \in Nat, a + k <= b
  PROVE  Within(s, a, a + k) /\ Slice(Slice(s, a, b), 0, k) = Slice(s, a, a + k)
<1> DEFINE t == Slice(s, a, b)
           c == a + k
<1>1. a \in Nat /\ b \in Nat /\ a <= b /\ b <= Len(s) /\ Len(s) \in Nat /\ c \in Nat /\ c <= b
  BY DEF Within
<1>2. t \in Seq(T) /\ Len(t) = b - a
  BY SliceIs
<1>3. \A i \in 1 .. b - a : t[i] = s[a + i]
  BY SliceIs
<1> HIDE DEF t
<1>4. Within(s, a, c) /\ Within(t, 0, k)
  BY <1>1, <1>2 DEF Within
<1> DEFINE u == Slice(t, 0, k)
           v == Slice(s, a, c)
<1>5. u \in Seq(T) /\ Len(u) = k - 0
  BY <1>2, <1>4, SliceIs
<1>6. \A i \in 1 .. k - 0 : u[i] = t[0 + i]
  BY <1>2, <1>4, SliceIs
<1>7. v \in Seq(T) /\ Len(v) = c - a
  BY <1>4, SliceIs
<1>8. \A i \in 1 .. c - a : v[i] = s[a + i]
  BY <1>4, SliceIs
<1>9. Len(u) = k /\ Len(v) = k
  BY <1>1, <1>5, <1>7
<1>10. ASSUME NEW i \in 1 .. k PROVE u[i] = v[i]
  <2>1. i \in 1 .. k - 0 /\ i \in 1 .. c - a /\ i \in 1 .. b - a /\ 0 + i = i
    BY <1>1
  <2>2. u[i] = t[i] /\ v[i] = s[a + i] /\ t[i] = s[a + i]
    BY <1>3, <1>6, <1>8, <2>1
  <2>3. QED
    BY <2>2
<1> HIDE DEF u, v
<1>11. u = v
  BY <1>5, <1>7, <1>9, <1>10
<1>12. QED
  BY <1>4, <1>11 DEF u, v, t

\* The window that is found lies in the base and is the same there as in the payload.
LEMMA WindowFound ==
  ASSUME NEW T, NEW payload \in Seq(T), NEW base \in Seq(T), NEW found,
         found = find_best_window_in_base(payload, base, MIN_RANGE_REUSE), found.ok
  PROVE  /\ found.value \in Windows(Len(payload)) /\ found = Done(found.value)
         /\ Within(base, found.value.base_start, found.value.base_start + found.value.matched_len)
         /\ Within(payload, found.value.payload_start, found.value.payload_start + found.value.matched_len)
         /\ Slice(payload, found.value.payload_start, found.value.payload_start + found.value.matched_len) =
              Slice(base, found.value.base_start, found.value.base_start + found.value.matched_len)
<1> DEFINE n == Len(payload)
           m == Len(base)
           k == MIN_RANGE_REUSE
           Shared(w) == common_prefix_len(Slice(payload, w.payload_start, n), Slice(base, w.base_start, m))
           windows == {w \in [payload_start : 0 .. n - 1, base_start : 0 .. m - 1, matched_len : k .. n] :
                         w.matched_len = Shared(w)}
           Best(w) == \A v \in windows \ {w} : LongerWindow(w, v)
           w == CHOOSE w \in windows : Best(w)
<1>1. n \in Nat /\ m \in Nat /\ k \in Nat
  BY ReconstructionAssumption
<1>2. windows # {} /\ found = Done(w)
  BY DEF find_best_window_in_base, Failed, LongerWindow
<1>3. windows \in SUBSET Windows(n)
  BY <1>1 DEF Windows
<1>4. w \in windows
  <2> HIDE DEF windows
  <2>1. \E x \in windows : Best(x)
    BY <1>1, <1>2, <1>3, BestWindow
  <2> HIDE DEF Best
  <2>2. QED
    BY <2>1
<1> DEFINE e == found.value
<1>5. e \in windows /\ found = Done(e)
  <2> HIDE DEF windows, w
  <2>1. QED
    BY <1>2, <1>4 DEF Done
<1> HIDE DEF w, e
<1>6. /\ e.payload_start \in 0 .. n - 1 /\ e.base_start \in 0 .. m - 1 /\ e.matched_len \in k .. n
      /\ e.matched_len = Shared(e)
  <2> HIDE DEF Shared
  <2>1. QED
    BY <1>5
<1> HIDE DEF windows
<1> DEFINE a == e.base_start
           b == e.payload_start
           s == Slice(payload, b, n)
           t == Slice(base, a, m)
<1> HIDE DEF n, m, k
<1>7. Within(payload, b, n) /\ Within(base, a, m)
  BY <1>1, <1>6 DEF Within, n, m
<1> HIDE DEF a, b
<1>8. s \in Seq(T) /\ t \in Seq(T) /\ Len(t) = m - a
  <2>1. s \in Seq(T)
    BY <1>7, SliceIs
  <2>2. t \in Seq(T) /\ Len(t) = m - a
    BY <1>7, SliceIs
  <2>3. QED
    BY <2>1, <2>2
<1>9. e.matched_len = common_prefix_len(s, t)
  BY <1>6 DEF a, b
<1> HIDE DEF s, t
<1> DEFINE l == e.matched_len
<1> HIDE DEF l
<1>10. l \in Nat /\ l <= Len(s) /\ l <= Len(t) /\ Slice(s, 0, l) = Slice(t, 0, l)
  <2>1. common_prefix_len(s, t) = l
    BY <1>9 DEF l
  <2>2. QED
    BY <1>8, <2>1, CommonBeginning
<1>11. a + l <= m /\ b + l <= n
  <2>1. a \in Nat /\ b \in Nat /\ Len(t) = m - a
    BY <1>7, <1>8 DEF Within
  <2>2. Len(s) = n - b
    BY <1>7, SliceIs DEF s
  <2>3. QED
    BY <1>1, <1>10, <2>1, <2>2
<1>12. Within(base, a, a + l) /\ Slice(t, 0, l) = Slice(base, a, a + l)
  BY <1>7, <1>10, <1>11, SliceOfSlice DEF t
<1>13. Within(payload, b, b + l) /\ Slice(s, 0, l) = Slice(payload, b, b + l)
  BY <1>7, <1>10, <1>11, SliceOfSlice DEF s
<1>14. e \in Windows(n)
  BY <1>3, <1>5
<1>15. Slice(payload, b, b + l) = Slice(base, a, a + l)
  BY <1>10, <1>12, <1>13
<1>16. QED
  BY <1>5, <1>12, <1>13, <1>14, <1>15 DEF a, b, l, e, n

\* Windows of a payload and a catalog, whose references stand for their bytes on both ends, ...
WindowMatches(T, cat, payload) ==
  {x \in [window : Windows(Len(payload)), ref : Refs(cat), bytes : Seq(T)] :
     /\ Gives(cat, x.ref, x.bytes) /\ materialize_ref(cat, x.ref) = Done(x.bytes)
     /\ Within(payload, x.window.payload_start, x.window.payload_start + x.window.matched_len)
     /\ x.bytes = Slice(payload, x.window.payload_start, x.window.payload_start + x.window.matched_len)}

\* ... what is found so far, ...
Bests(T, cat, payload) == {Failed} \cup {Done(x) : x \in WindowMatches(T, cat, payload)}

\* ... and one base more.
Considered(payload, best, b) ==
  LET Better(v, w) == \/ v.matched_len > w.matched_len
                      \/ v.matched_len = w.matched_len /\ v.payload_start < w.payload_start
      w == find_best_window_in_base(payload, b.bytes, MIN_RANGE_REUSE)
  IN  IF w.ok /\ (best.ok => Better(w.value, best.value.window))
      THEN Done([window |-> w.value,
                 ref |-> [b.ref EXCEPT !.start = w.value.base_start, !.len = w.value.matched_len],
                 bytes |-> Slice(b.bytes, w.value.base_start, w.value.base_start + w.value.matched_len)])
      ELSE best

ConsiderStep(T, cat, payload) ==
  [x \in Bests(T, cat, payload) \X WholeItems(T, cat) |-> Considered(payload, x[1], x[2])]

\* A window of a base resolves to its bytes.
LEMMA WindowGives ==
  ASSUME NEW T, NEW cat, NEW payload, NEW b \in WholeItems(T, cat), NEW v \in Windows(Len(payload)),
         Within(b.bytes, v.base_start, v.base_start + v.matched_len),
         Within(payload, v.payload_start, v.payload_start + v.matched_len),
         Slice(payload, v.payload_start, v.payload_start + v.matched_len) =
           Slice(b.bytes, v.base_start, v.base_start + v.matched_len)
  PROVE  [window |-> v, ref |-> [b.ref EXCEPT !.start = v.base_start, !.len = v.matched_len],
          bytes |-> Slice(b.bytes, v.base_start, v.base_start + v.matched_len)] \in WindowMatches(T, cat, payload)
<1> DEFINE a == v.base_start
           len == v.matched_len
           r == [b.ref EXCEPT !.start = a, !.len = len]
           s == Slice(b.bytes, a, a + len)
           x == [window |-> v, ref |-> r, bytes |-> s]
<1>1. a \in Nat /\ len \in Nat
  <2>1. a \in Nat /\ len \in 0 .. Len(payload)
    BY DEF Windows
  <2> HIDE DEF a, len
  <2>2. QED
    BY <2>1
<1>2. b.ref \in Refs(cat) /\ b.bytes \in Seq(T) /\ WholeIs(cat, b.ref, b.bytes)
  BY DEF WholeItems
<1>3. r \in Refs(cat) /\ r.start = a /\ r.len = len /\ r.kind = b.ref.kind /\ r.base = b.ref.base
  <2> HIDE DEF a, len
  <2>1. QED
    BY <1>1, <1>2 DEF Refs
<1> HIDE DEF r
<1>4. WholeIs(cat, r, b.bytes)
  BY <1>2, <1>3 DEF WholeIs
<1>5. Within(b.bytes, a, a + len)
  OBVIOUS
<1> HIDE DEF a, len
<1>6. Gives(cat, r, Slice(b.bytes, r.start, r.start + r.len))
  BY <1>1, <1>2, <1>3, <1>4, <1>5, RangeGives
<1>7. materialize_ref(cat, r) = Done(Slice(b.bytes, r.start, r.start + r.len))
  BY <1>1, <1>2, <1>3, <1>4, <1>5, RangeReads
<1>8. Gives(cat, r, s) /\ materialize_ref(cat, r) = Done(s)
  BY <1>3, <1>6, <1>7
<1>9. s \in Seq(T)
  BY <1>2, <1>5, SliceIs
<1>10. s = Slice(payload, v.payload_start, v.payload_start + v.matched_len)
  BY DEF a, len
<1> HIDE DEF s
<1>11. x \in WindowMatches(T, cat, payload)
  BY <1>3, <1>8, <1>9, <1>10 DEF WindowMatches
<1>12. QED
  BY <1>11 DEF r, s, a, len

\* What is found stays so.
LEMMA ConsiderStepIs ==
  ASSUME NEW T, NEW cat, NEW payload \in Seq(T)
  PROVE  ConsiderStep(T, cat, payload) \in Steps(Bests(T, cat, payload), WholeItems(T, cat))
<1>1. ASSUME NEW best \in Bests(T, cat, payload), NEW b \in WholeItems(T, cat)
      PROVE  Considered(payload, best, b) \in Bests(T, cat, payload)
  <2> DEFINE w == find_best_window_in_base(payload, b.bytes, MIN_RANGE_REUSE)
             x == [window |-> w.value,
                   ref |-> [b.ref EXCEPT !.start = w.value.base_start, !.len = w.value.matched_len],
                   bytes |-> Slice(b.bytes, w.value.base_start, w.value.base_start + w.value.matched_len)]
  <2>1. (Considered(payload, best, b) = Done(x) /\ w.ok) \/ Considered(payload, best, b) = best
    BY DEF Considered
  <2>2. ASSUME w.ok PROVE x \in WindowMatches(T, cat, payload)
    <3>1. b.bytes \in Seq(T)
      BY DEF WholeItems
    <3> DEFINE v == w.value
    <3>2. /\ v \in Windows(Len(payload)) /\ Within(b.bytes, v.base_start, v.base_start + v.matched_len)
          /\ Within(payload, v.payload_start, v.payload_start + v.matched_len)
          /\ Slice(payload, v.payload_start, v.payload_start + v.matched_len) =
               Slice(b.bytes, v.base_start, v.base_start + v.matched_len)
      BY <2>2, <3>1, WindowFound
    <3> HIDE DEF v
    <3>3. [window |-> v, ref |-> [b.ref EXCEPT !.start = v.base_start, !.len = v.matched_len],
           bytes |-> Slice(b.bytes, v.base_start, v.base_start + v.matched_len)] \in WindowMatches(T, cat, payload)
      BY <3>2, WindowGives
    <3>4. QED
      BY <3>3 DEF v
  <2> HIDE DEF w, x
  <2>3. QED
    BY <2>1, <2>2 DEF Bests
<1>2. QED
  BY <1>1 DEF ConsiderStep, Steps

\* Looking for the best window is a fold.
LEMMA BestFold ==
  ASSUME NEW T, NEW cat, NEW payload \in Seq(T), NEW seq \in Seq(WholeItems(T, cat)), Bases(cat) = seq
  PROVE  best_window_match(cat, payload) =
           Result(ConsiderStep(T, cat, payload), Bests(T, cat, payload), Failed, seq)
<1> DEFINE A == Bests(T, cat, payload)
           C == WholeItems(T, cat)
           f == ConsiderStep(T, cat, payload)
           first == Failed
           Next(best, b) == Considered(payload, best, b)
           Solves(h) ==
             h = [s \in SUBSET DOMAIN seq |-> IF s = {} THEN first ELSE Next(h[s \ {Max(s)}], seq[Max(s)])]
           it == CHOOSE h : Solves(h)
<1>1. f \in Steps(A, C) /\ first \in A
  BY ConsiderStepIs DEF Bests
<1>2. best_window_match(cat, payload) = it[DOMAIN seq]
  <2>1. best_window_match(cat, payload) = FoldLeft(Next, first, seq)
    BY Zenon DEF best_window_match, Considered
  <2>2. FoldLeft(Next, first, seq) = it[DOMAIN seq]
    BY Zenon DEF FoldLeft, MapThenFoldSet
  <2>3. QED
    BY <2>1, <2>2
<1>3. \A a \in A, x \in C : f[<<a, x>>] = Next(a, x)
  BY DEF ConsiderStep
<1> HIDE DEF A, C, f, first, Next
<1>4. PICK h : PeelsOf(f, A, C, first, seq, h)
  BY <1>1, PeelOfExists DEF C
<1>5. Solves(h)
  BY <1>3, <1>4 DEF PeelsOf
<1>6. Solves(it)
  <2> HIDE DEF Solves
  <2>1. QED
    BY <1>5, Zenon
<1> HIDE DEF it
<1>7. it[{}] = first
  BY <1>6
<1>8. ASSUME NEW s \in SUBSET DOMAIN seq, s # {}, it[s \ {Max(s)}] \in A
      PROVE  it[s] = f[<<it[s \ {Max(s)}], seq[Max(s)]>>]
  <2>1. it[s] = Next(it[s \ {Max(s)}], seq[Max(s)])
    BY <1>6, <1>8
  <2>2. seq[Max(s)] \in C
    BY <1>4, <1>8 DEF PeelsOf
  <2>3. QED
    BY <1>3, <1>8, <2>1, <2>2
<1>9. PeelsTo(f, A, first, seq, it)
  BY <1>7, <1>8 DEF PeelsTo
<1>10. it[DOMAIN seq] = Result(f, A, first, seq)
  BY <1>1, <1>9, PeelIsResult DEF C
<1>11. QED
  BY <1>2, <1>10 DEF A, f, first

\* The best window, when there is one, resolves to its bytes.
LEMMA BestMatchIs ==
  ASSUME NEW T, NEW cat, CatalogRight(T, cat), NEW payload \in Seq(T), NEW match,
         match = best_window_match(cat, payload), match.ok
  PROVE  /\ match = Done(match.value) /\ match.value \in WindowMatches(T, cat, payload)
         /\ match.value.bytes \in Seq(T) /\ Gives(cat, match.value.ref, match.value.bytes)
<1> DEFINE A == Bests(T, cat, payload)
           f == ConsiderStep(T, cat, payload)
           seq == Bases(cat)
<1>1. seq \in Seq(WholeItems(T, cat))
  BY BasesAre
<1> HIDE DEF seq
<1>2. match = Result(f, A, Failed, seq)
  BY <1>1, BestFold DEF seq
<1>3. f \in Steps(A, WholeItems(T, cat)) /\ Failed \in A
  BY ConsiderStepIs DEF Bests
<1> HIDE DEF f, A
<1>4. Result(f, A, Failed, seq) \in A
  BY <1>1, <1>3, ResultType
<1>5. match \in A
  BY <1>2, <1>4
<1>6. PICK x \in WindowMatches(T, cat, payload) : match = Done(x)
  BY <1>5 DEF A, Bests, Failed
<1>7. match.value = x
  BY <1>6 DEF Done
<1>8. x.bytes \in Seq(T) /\ Gives(cat, x.ref, x.bytes)
  BY DEF WindowMatches
<1>9. QED
  BY <1>6, <1>7, <1>8

\* Every candidate that is generated rebuilds the payload.
LEMMA GeneratedRebuild ==
  ASSUME NEW T, NEW cat, CatalogRight(T, cat), NEW target \in Seq(T)
  PROVE  \A c \in ToSet(GeneratedCandidates(cat, target)) : Rebuilds(cat, c, target)
<1> DEFINE match == best_window_match(cat, target)
           bases == exact_transform_bases(cat)
           lists == [i \in DOMAIN bases |-> BaseCandidates(bases[i].ref, bases[i].bytes, target)]
           p == IF match.ok THEN WindowCandidates(match.value.ref, match.value.bytes, target) ELSE << >>
           q == FlattenSeq(lists)
           r == SpliceCandidates(splice_from_two_bases_plan(target, bases))
<1>1. AllRebuild(cat, p, target)
  <2>1. CASE match.ok
    <3>1. match.value.bytes \in Seq(T) /\ Gives(cat, match.value.ref, match.value.bytes)
      BY <2>1, BestMatchIs
    <3> HIDE DEF match
    <3>2. AllRebuild(cat, WindowCandidates(match.value.ref, match.value.bytes, target), target)
      BY <3>1, WindowsRebuild
    <3>3. QED
      BY <2>1, <3>2
  <2>2. CASE ~match.ok
    BY <2>2, NoneRebuild
  <2>3. QED
    BY <2>1, <2>2
<1>2. bases \in Seq(WholeItems(T, cat)) /\ Resolve(T, cat, bases)
  BY TransformBasesAre
<1> HIDE DEF bases
<1>3. AllRebuild(cat, q, target)
  <2>1. PICK n \in Nat : DOMAIN bases = 1 .. n
    <3> DEFINE I == WholeItems(T, cat)
    <3>1. bases \in Seq(I)
      BY <1>2
    <3> HIDE DEF I
    <3>2. QED
      BY <3>1
  <2>2. ASSUME NEW i \in 1 .. n PROVE AllRebuild(cat, lists[i], target)
    <3>1. bases[i].bytes \in Seq(T) /\ Gives(cat, bases[i].ref, bases[i].bytes)
      BY <1>2, <2>1 DEF Resolve
    <3>2. AllRebuild(cat, BaseCandidates(bases[i].ref, bases[i].bytes, target), target)
      BY <3>1, BasesRebuild
    <3>3. QED
      BY <2>1, <3>2
  <2>3. DOMAIN lists = 1 .. n /\ lists = [i \in 1 .. n |-> lists[i]]
    BY <2>1
  <2> HIDE DEF lists
  <2>4. QED
    BY <2>2, <2>3, FlattenedRebuild
<1>4. AllRebuild(cat, r, target)
  BY <1>2, SplicesRebuild
<1>5. GeneratedCandidates(cat, target) = FoldLeft(replace_or_push, << >>, (p \o q) \o r)
  BY Zenon DEF GeneratedCandidates, Collected, bases
<1> HIDE DEF p, q, r
<1>6. AllRebuild(cat, p \o q, target)
  BY <1>1, <1>3, JoinedRebuild
<1>7. AllRebuild(cat, (p \o q) \o r, target)
  BY <1>4, <1>6, JoinedRebuild
<1> DEFINE all == (p \o q) \o r
<1> HIDE DEF all
<1>8. \A c \in ToSet(FoldLeft(replace_or_push, << >>, all)) : Rebuilds(cat, c, target)
  BY <1>7, CollectedRebuild DEF all
<1>9. QED
  BY <1>5, <1>8 DEF all

----------------------------------------------------------------------------
(* The invariant. *)

\* The bytes that are sent and that blocks are made of.
Symbols == UNION {ToSet(p) : p \in Payloads \cup Materials}

\* The catalog is one over these bytes, and what was described is made of them.
RebuildInv ==
  /\ CatalogRight(Symbols, catalog)
  /\ dispatched.decision \in Described => original \in Seq(Symbols)

\* Payloads and materials are made of them.
LEMMA SymbolsCover == Payloads \subseteq Seq(Symbols) /\ Materials \subseteq Seq(Symbols)
<1> DEFINE P == UNION {ToSet(p) : p \in Payloads}
           M == UNION {ToSet(m) : m \in Materials}
<1>1. Payloads \subseteq Seq(P) /\ Materials \subseteq Seq(M)
  BY ReconstructionAssumption
<1>2. P \subseteq Symbols /\ M \subseteq Symbols
  BY DEF Symbols
<1> HIDE DEF P, M
<1>3. Seq(P) \subseteq Seq(Symbols) /\ Seq(M) \subseteq Seq(Symbols)
  BY <1>2, SeqMonotonic
<1>4. QED
  BY <1>1, <1>3

\* A block more.
LEMMA GrowKeeps ==
  ASSUME NEW T, NEW cat, CatalogRight(T, cat), NEW m \in Seq(T), cat.bundles = {}
  PROVE  CatalogRight(T, insert_block(cat, Kind, m))
<1> DEFINE b == Block(Kind, m)
           next == insert_block(cat, Kind, m)
<1>1. b.material = m
  BY DEF Block
<1> HIDE DEF b
<1>2. /\ next = [version |-> cat.version, blocks |-> cat.blocks \cup {b}, bundles |-> cat.bundles]
      /\ next.blocks = cat.blocks \cup {b} /\ next.bundles = {} /\ next.version = cat.version
  <2>1. cat = [version |-> cat.version, blocks |-> cat.blocks, bundles |-> cat.bundles]
    BY DEF CatalogRight
  <2>2. next = [cat EXCEPT !.blocks = @ \cup {b}]
    BY DEF insert_block, b
  <2> HIDE DEF next
  <2>3. QED
    BY <2>1, <2>2
<1> HIDE DEF next
<1>3. IsFiniteSet(cat.blocks \cup {b}) /\ IsFiniteSet({})
  BY FS_AddElement, FS_EmptySet DEF CatalogRight
<1>4. \A x \in next.blocks : x.material \in Seq(T)
  BY <1>1, <1>2 DEF CatalogRight
<1>5. CatalogRight(T, next)
  BY <1>2, <1>3, <1>4 DEF CatalogRight
<1>6. QED
  BY <1>5 DEF next

\* A bundle.
LEMMA BundleKeeps ==
  ASSUME NEW T, NEW cat, CatalogRight(T, cat), NEW first \in cat.blocks, NEW second \in cat.blocks, NEW defined,
         defined = define_bundle(cat, <<BundleMember(first, 0, Len(first.material)),
                                        BundleMember(second, 1, Len(second.material) - 1)>>),
         defined.ok
  PROVE  CatalogRight(T, defined.value)
<1> DEFINE n == Len(first.material)
           k == Len(second.material)
           x == BundleMember(first, 0, n)
           y == BundleMember(second, 1, k - 1)
           s == <<x, y>>
           next == [cat EXCEPT !.bundles = @ \cup {Bundle(s)}]
           parts == [i \in DOMAIN s |-> materialize_block_range(cat, s[i].block, s[i].start, s[i].len)]
<1>1. BundleIsValid(cat, Bundle(s)) /\ defined = Done(next)
  BY DEF define_bundle, Failed
<1>2. n \in Nat /\ k \in Nat
  <2>1. first.material \in Seq(T) /\ second.material \in Seq(T)
    BY DEF CatalogRight
  <2>2. QED
    BY <2>1
<1>3. /\ x = [block |-> first, start |-> 0, len |-> n]
      /\ y = [block |-> second, start |-> 1, len |-> k - 1]
  BY DEF BundleMember
<1> HIDE DEF x, y
<1>4. parts[2].ok
  <2>1. materialize_members(cat, s).ok
    BY <1>1 DEF BundleIsValid, Bundle
  <2>2. materialize_members(cat, s) =
          IF \A i \in DOMAIN parts : parts[i].ok
          THEN Done(FlattenSeq([i \in DOMAIN parts |-> parts[i].value])) ELSE Failed
    BY DEF materialize_members
  <2>3. 2 \in DOMAIN parts
    OBVIOUS
  <2> HIDE DEF parts
  <2>4. QED
    BY <2>1, <2>2, <2>3 DEF Failed
<1>5. parts[2] = materialize_block_range(cat, second, 1, k - 1)
  <2>1. 2 \in DOMAIN s /\ s[2] = y
    OBVIOUS
  <2> HIDE DEF s
  <2>2. parts[2] = materialize_block_range(cat, y.block, y.start, y.len)
    BY <2>1
  <2> HIDE DEF parts
  <2>3. QED
    BY <1>3, <2>2
<1> HIDE DEF parts
<1>6. checked_range(k, 1, k - 1)
  BY <1>4, <1>5 DEF materialize_block_range, Failed
<1>7. 1 <= k /\ k - 1 \in Nat
  BY <1>2, <1>6 DEF checked_range
<1>8. x \in Members(cat) /\ y \in Members(cat)
  <2>1. x \in Members(cat)
    BY <1>2, <1>3 DEF Members, Within
  <2>2. y \in Members(cat)
    BY <1>2, <1>3, <1>7 DEF Members, Within
  <2>3. QED
    BY <2>1, <2>2
<1> DEFINE M == Members(cat)
<1> HIDE DEF M
<1>9. s \in Seq(M)
  BY <1>8 DEF M
<1> HIDE DEF s
<1>10. /\ next = [version |-> next.version, blocks |-> next.blocks, bundles |-> next.bundles]
       /\ next.blocks = cat.blocks /\ next.bundles = cat.bundles \cup {Bundle(s)}
  <2>1. cat = [version |-> cat.version, blocks |-> cat.blocks, bundles |-> cat.bundles]
    BY DEF CatalogRight
  <2> DEFINE more == cat.bundles \cup {Bundle(s)}
  <2> HIDE DEF more, next
  <2>2. next = [cat EXCEPT !.bundles = more]
    BY DEF next, more
  <2>3. next = [version |-> cat.version, blocks |-> cat.blocks, bundles |-> more]
    BY <2>1, <2>2
  <2>4. next.version = cat.version /\ next.blocks = cat.blocks /\ next.bundles = more
    BY <2>3
  <2>5. QED
    BY <2>3, <2>4 DEF more
<1> HIDE DEF next
<1>11. Members(next) = M
  BY <1>10 DEF Members, M
<1>12. \A b \in next.bundles : b.members \in Seq(Members(next))
  <2>1. Bundle(s).members = s
    BY DEF Bundle
  <2>2. \A b \in cat.bundles : b.members \in Seq(M)
    BY DEF CatalogRight, M
  <2>3. QED
    BY <1>9, <1>10, <1>11, <2>1, <2>2
<1>13. IsFiniteSet(next.bundles)
  <2>1. IsFiniteSet(cat.bundles)
    BY DEF CatalogRight
  <2>2. QED
    BY <1>10, <2>1, FS_AddElement
<1>14. CatalogRight(T, next)
  <2>1. IsFiniteSet(next.blocks) /\ \A b \in next.blocks : b.material \in Seq(T)
    BY <1>10 DEF CatalogRight
  <2>2. QED
    BY <1>10, <1>12, <1>13, <2>1 DEF CatalogRight
<1>15. QED
  BY <1>1, <1>14 DEF Done

\* The catalog is right in every reachable state, and only made of what is sent.
THEOREM RebuildInvariant == RebuildSpec => []RebuildInv
<1>1. RebuildInit => RebuildInv
  <2>1. SUFFICES ASSUME RebuildInit PROVE RebuildInv
    OBVIOUS
  <2>2. CatalogRight(Symbols, catalog)
    <3>1. /\ catalog = [version |-> catalog.version, blocks |-> catalog.blocks, bundles |-> catalog.bundles]
          /\ catalog.blocks = {} /\ catalog.bundles = {}
      BY <2>1 DEF RebuildInit, EmptyCatalog
    <3>2. IsFiniteSet({})
      BY FS_EmptySet
    <3>3. QED
      BY <3>1, <3>2 DEF CatalogRight
  <2>3. dispatched.decision \notin Described
    BY <2>1 DEF RebuildInit, Unsent, Described
  <2>4. QED
    BY <2>2, <2>3 DEF RebuildInv
<1>2. RebuildInv /\ [RebuildNext]_rebuildVars => RebuildInv'
  <2> SUFFICES ASSUME RebuildInv, [RebuildNext]_rebuildVars PROVE RebuildInv'
    OBVIOUS
  <2>1. CatalogRight(Symbols, catalog) /\ (dispatched.decision \in Described => original \in Seq(Symbols))
    BY DEF RebuildInv
  <2>2. ASSUME NEW m \in Materials, Grow(m) PROVE RebuildInv'
    <3>1. catalog.bundles = {} /\ catalog' = insert_block(catalog, Kind, m) /\ dispatched' = dispatched /\ original' = original
      BY <2>2 DEF Grow
    <3>2. m \in Seq(Symbols)
      BY SymbolsCover
    <3>3. CatalogRight(Symbols, catalog')
      BY <2>1, <3>1, <3>2, GrowKeeps
    <3>4. QED
      BY <2>1, <3>1, <3>3 DEF RebuildInv
  <2>3. ASSUME NEW first \in catalog.blocks, NEW second \in catalog.blocks, DefineBundle(first, second) PROVE RebuildInv'
    <3> DEFINE defined == define_bundle(catalog, <<BundleMember(first, 0, Len(first.material)),
                                                   BundleMember(second, 1, Len(second.material) - 1)>>)
    <3>1. defined.ok /\ catalog' = defined.value /\ dispatched' = dispatched /\ original' = original
      BY <2>3 DEF DefineBundle
    <3>2. CatalogRight(Symbols, defined.value)
      BY <2>1, <3>1, BundleKeeps
    <3> HIDE DEF defined
    <3>3. QED
      BY <2>1, <3>1, <3>2 DEF RebuildInv
  <2>4. ASSUME NEW p \in Payloads, Choose(p) PROVE RebuildInv'
    <3>1. original' = p /\ catalog' = catalog
      BY <2>4 DEF Choose
    <3>2. p \in Seq(Symbols)
      BY SymbolsCover
    <3>3. QED
      BY <2>1, <3>1, <3>2 DEF RebuildInv
  <2>5. CASE ReceiveState \/ ReceiveTransform \/ ReceiveCopy \/ ReceiveGraph \/ ReceiveCoded
    <3>1. UNCHANGED <<catalog, original, dispatched>>
      BY <2>5 DEF ReceiveState, ReceiveTransform, ReceiveCopy, ReceiveGraph, ReceiveCoded
    <3>2. QED
      BY <2>1, <3>1 DEF RebuildInv
  <2>6. ASSUME NEW g \in Graphs, SendGraph(g) PROVE RebuildInv'
    <3>1. catalog' = catalog /\ dispatched'.decision = "graph"
      BY <2>6 DEF SendGraph
    <3>2. dispatched'.decision \notin Described
      BY <3>1 DEF Described
    <3>3. QED
      BY <2>1, <3>1, <3>2 DEF RebuildInv
  <2>7. ASSUME NEW item, NEW predicted, NEW preference, SendCoded(item, predicted, preference) PROVE RebuildInv'
    <3>1. catalog' = catalog /\ dispatched'.decision = "coded"
      BY <2>7 DEF SendCoded
    <3>2. dispatched'.decision \notin Described
      BY <3>1 DEF Described
    <3>3. QED
      BY <2>1, <3>1, <3>2 DEF RebuildInv
  <2>8. ASSUME NEW items, SendColumns(items) \/ SendJoined(items) PROVE RebuildInv'
    <3>1. catalog' = catalog
      BY <2>8 DEF SendColumns, SendJoined
    <3>2. dispatched'.decision = "columns" \/ dispatched'.decision = "joined"
      BY <2>8 DEF SendColumns, SendJoined
    <3>3. dispatched'.decision \notin Described
      BY <3>2 DEF Described
    <3>4. QED
      BY <2>1, <3>1, <3>3 DEF RebuildInv
  <2>9. CASE UNCHANGED rebuildVars
    BY <2>1, <2>9 DEF RebuildInv, rebuildVars
  <2>10. QED
    BY <2>2, <2>3, <2>4, <2>5, <2>6, <2>7, <2>8, <2>9 DEF RebuildNext
<1>3. QED
  BY <1>1, <1>2, PTL DEF RebuildSpec

\* Every transform candidate, retained or not, rebuilds the payload from its bases: what a
\* plan measures on the sender's side is what apply_transform_instance undoes.
THEOREM TransformsComeBack == RebuildSpec => []TransformsRebuild
<1>1. RebuildInv => TransformsRebuild
  <2>1. SUFFICES ASSUME RebuildInv, dispatched.decision \in Described,
                        NEW c \in ToSet(GeneratedCandidates(catalog, original))
                 PROVE  apply_transform_instance(catalog, c, Len(original)) = Done(original)
    BY DEF TransformsRebuild
  <2>2. CatalogRight(Symbols, catalog) /\ original \in Seq(Symbols)
    BY <2>1 DEF RebuildInv
  <2>3. Rebuilds(catalog, c, original)
    BY <2>1, <2>2, GeneratedRebuild
  <2>4. QED
    BY <2>3 DEF Rebuilds
<1>2. QED
  BY <1>1, RebuildInvariant, PTL

----------------------------------------------------------------------------
(* State programs. *)

\* References to whole blocks and bundles, ...
Wholes(T, cat) == {x.ref : x \in WholeItems(T, cat)}

\* ... and what is read from them.
Text(cat) == [r \in Refs(cat) |-> materialize_ref(cat, r).value]

\* A whole reference reads the bytes that go with it.
LEMMA ItemReads ==
  ASSUME NEW T, NEW cat, NEW x \in WholeItems(T, cat)
  PROVE  /\ x.ref \in Refs(cat) /\ x.bytes \in Seq(T) /\ x.ref.len = Len(x.bytes) /\ x.ref.start = 0
         /\ materialize_ref(cat, x.ref) = Done(x.bytes) /\ Text(cat)[x.ref] = x.bytes
<1> DEFINE r == x.ref
           s == x.bytes
<1>1. r \in Refs(cat) /\ s \in Seq(T) /\ WholeIs(cat, r, s) /\ r.start = 0 /\ r.len = Len(s)
  BY DEF WholeItems
<1> HIDE DEF r, s
<1>2. Len(s) \in Nat /\ 0 \in 0 .. Len(s) /\ 0 + Len(s) = Len(s)
  BY <1>1
<1>3. Within(s, r.start, r.start + r.len)
  BY <1>1, <1>2 DEF Within
<1>4. materialize_ref(cat, r) = Done(Slice(s, r.start, r.start + r.len))
  BY <1>1, <1>3, RangeReads
<1>5. Slice(s, 0, Len(s)) = s
  BY <1>1, <1>2, SliceEnds
<1>6. materialize_ref(cat, r) = Done(s)
  BY <1>1, <1>2, <1>4, <1>5
<1>7. Text(cat)[r] = materialize_ref(cat, r).value
  BY <1>1 DEF Text
<1>8. Text(cat)[r] = s
  BY <1>6, <1>7 DEF Done
<1>9. QED
  BY <1>1, <1>6, <1>8 DEF r, s

\* Whole references stand for their bytes.
LEMMA WholesStand ==
  ASSUME NEW T, NEW cat
  PROVE  /\ Stands(T, Wholes(T, cat), [r \in Wholes(T, cat) |-> Text(cat)[r]])
         /\ \A r \in Wholes(T, cat) : r \in Refs(cat) /\ materialize_ref(cat, r) = Done(Text(cat)[r])
<1> DEFINE W == Wholes(T, cat)
           tx == [r \in W |-> Text(cat)[r]]
<1>1. ASSUME NEW r \in W
      PROVE  /\ Text(cat)[r] \in Seq(T) /\ Len(Text(cat)[r]) = r.len /\ r.len \in Nat
             /\ r \in Refs(cat) /\ materialize_ref(cat, r) = Done(Text(cat)[r])
  <2>1. PICK x \in WholeItems(T, cat) : r = x.ref
    BY DEF Wholes
  <2>2. /\ r \in Refs(cat) /\ x.bytes \in Seq(T) /\ r.len = Len(x.bytes)
        /\ materialize_ref(cat, r) = Done(x.bytes) /\ Text(cat)[r] = x.bytes
    BY <2>1, ItemReads
  <2>3. Len(x.bytes) \in Nat
    BY <2>2
  <2>4. QED
    BY <2>2, <2>3
<1> HIDE DEF W
<1>2. \A r \in W : tx[r] = Text(cat)[r]
  OBVIOUS
<1>3. tx \in [W -> Seq(T)]
  BY <1>1
<1> HIDE DEF tx
<1>4. Stands(T, W, tx)
  BY <1>1, <1>2, <1>3 DEF Stands
<1>5. QED
  BY <1>1, <1>4 DEF tx, W

\* References that spell a payload from a place on.
Spell(T, cat, refs) == FlattenSeq(Mapped([r \in Wholes(T, cat) |-> Text(cat)[r]], refs))

Spelled(T, cat, payload, from) ==
  {refs \in Seq(Wholes(T, cat)) :
     LET s == Spell(T, cat, refs)
     IN  Within(payload, from, from + Len(s)) /\ s = Slice(payload, from, from + Len(s))}

\* No references spell nothing.
LEMMA SpelledNone ==
  ASSUME NEW T, NEW cat, NEW payload \in Seq(T), NEW from \in 0 .. Len(payload)
  PROVE  << >> \in Spelled(T, cat, payload, from)
<1> DEFINE none == << >>
           W == Wholes(T, cat)
           tx == [r \in W |-> Text(cat)[r]]
<1>1. none \in Seq(W) /\ Len(none) = 0 /\ Mapped(tx, none) = none /\ FlattenSeq(none) = none
  BY FlattenEmpty DEF Mapped
<1>2. Slice(payload, from, from) = none
  BY SliceEnds
<1> HIDE DEF none
<1>3. from \in Nat /\ from + 0 = from /\ from <= Len(payload)
  OBVIOUS
<1>4. Spell(T, cat, none) = none
  BY <1>1 DEF Spell
<1>5. Within(payload, from, from + Len(none))
  BY <1>1, <1>3 DEF Within
<1>6. none = Slice(payload, from, from + Len(none))
  BY <1>1, <1>2, <1>3
<1>7. none \in Spelled(T, cat, payload, from)
  BY <1>1, <1>4, <1>5, <1>6 DEF Spelled
<1>8. QED
  BY <1>7 DEF none

\* One reference more, at the beginning.
LEMMA SpelledNext ==
  ASSUME NEW T, NEW cat, NEW payload \in Seq(T), NEW from \in Nat, NEW x \in WholeItems(T, cat),
         Within(payload, from, from + x.ref.len), x.bytes = Slice(payload, from, from + x.ref.len),
         NEW refs \in Spelled(T, cat, payload, from + x.ref.len)
  PROVE  <<x.ref>> \o refs \in Spelled(T, cat, payload, from)
<1> DEFINE W == Wholes(T, cat)
           tx == [r \in W |-> Text(cat)[r]]
           r == x.ref
           e == x.bytes
           mid == from + r.len
           s == Spell(T, cat, refs)
           one == <<r>>
           all == one \o refs
           texts == Mapped(tx, refs)
<1>1. r \in W /\ e \in Seq(T) /\ r.len = Len(e) /\ tx[r] = e /\ r.len \in Nat
  <2>1. r \in W
    BY DEF Wholes
  <2>2. e \in Seq(T) /\ r.len = Len(e) /\ Text(cat)[r] = e
    BY ItemReads
  <2> HIDE DEF W
  <2>3. tx[r] = Text(cat)[r]
    BY <2>1
  <2>4. Len(e) \in Nat
    BY <2>2
  <2>5. QED
    BY <2>1, <2>2, <2>3, <2>4
<1>2. refs \in Seq(W) /\ Within(payload, mid, mid + Len(s)) /\ s = Slice(payload, mid, mid + Len(s))
  BY DEF Spelled
<1>3. Stands(T, W, tx)
  BY WholesStand
<1>4. s = FlattenSeq(texts)
  BY DEF Spell
<1>5. Spell(T, cat, all) = FlattenSeq(Mapped(tx, all))
  BY DEF Spell
<1>6. Within(payload, from, mid) /\ e = Slice(payload, from, mid)
  OBVIOUS
<1> HIDE DEF W, tx, r, e, s, mid
<1>7. texts \in Seq(Seq(T))
  BY <1>2, <1>3, MappedLen
<1>8. all \in Seq(W)
  BY <1>1, <1>2
<1>9. Mapped(tx, all) = <<e>> \o texts
  <2>1. PICK k \in Nat : Len(refs) = k
    BY <1>2
  <2>2. DOMAIN refs = 1 .. k /\ DOMAIN all = 1 .. k + 1 /\ all[1] = r /\ \A i \in 1 .. k : all[i + 1] = refs[i]
    BY <1>1, <1>2, <2>1
  <2> DEFINE q == <<e>> \o texts
  <2>3. texts = [i \in 1 .. k |-> tx[refs[i]]]
    BY <2>2 DEF Mapped
  <2>4. Mapped(tx, all) = [i \in 1 .. k + 1 |-> tx[all[i]]]
    BY <2>2 DEF Mapped
  <2> HIDE DEF texts, all
  <2>5. Len(texts) = k
    BY <2>1, <2>3
  <2>6. q \in Seq(Seq(T)) /\ Len(q) = k + 1 /\ q[1] = e /\ \A i \in 1 .. k : q[i + 1] = texts[i]
    BY <1>1, <1>7, <2>5
  <2> HIDE DEF q
  <2>7. q = [i \in 1 .. k + 1 |-> q[i]]
    BY <2>6
  <2>8. ASSUME NEW i \in 1 .. k + 1 PROVE q[i] = tx[all[i]]
    <3>1. CASE i = 1
      BY <1>1, <2>2, <2>6, <3>1
    <3>2. CASE i # 1
      <4> DEFINE j == i - 1
      <4>1. j \in 1 .. k /\ j + 1 = i
        BY <2>1, <3>2
      <4> HIDE DEF j
      <4>2. q[j + 1] = texts[j] /\ all[j + 1] = refs[j] /\ texts[j] = tx[refs[j]]
        BY <2>2, <2>3, <2>6, <4>1
      <4>3. QED
        BY <4>1, <4>2
    <3>3. QED
      BY <3>1, <3>2
  <2>9. Mapped(tx, all) = q
    BY <2>4, <2>7, <2>8
  <2>10. QED
    BY <2>9 DEF q
<1> HIDE DEF texts, all
<1>10. FlattenSeq(<<e>> \o texts) = e \o FlattenSeq(texts)
  <2> DEFINE q == <<e>> \o texts
             S == Seq(T)
  <2> HIDE DEF S
  <2>1. e \in S /\ texts \in Seq(S)
    BY <1>1, <1>7 DEF S
  <2>2. q \in Seq(S) /\ q # << >> /\ Head(q) = e /\ Tail(q) = texts
    BY <2>1
  <2> HIDE DEF q
  <2>3. q \in Seq(Seq(T))
    BY <2>2 DEF S
  <2>4. FlattenSeq(q) = Head(q) \o FlattenSeq(Tail(q))
    BY <2>2, <2>3, FlattenCons
  <2>5. QED
    BY <2>2, <2>4 DEF q
<1>11. Spell(T, cat, all) = e \o s
  BY <1>4, <1>5, <1>9, <1>10
<1>12. e \o s = Slice(payload, from, mid + Len(s))
  <2> DEFINE end == mid + Len(s)
  <2>1. Within(payload, from, mid) /\ Within(payload, mid, end)
    BY <1>2, <1>6
  <2>2. e = Slice(payload, from, mid) /\ s = Slice(payload, mid, end)
    BY <1>2, <1>6
  <2> HIDE DEF end
  <2>3. Slice(payload, from, mid) \o Slice(payload, mid, end) = Slice(payload, from, end)
    BY <2>1, SliceJoin
  <2>4. QED
    BY <2>2, <2>3 DEF end
<1>13. s \in Seq(T)
  BY <1>4, <1>7, FlattenType
<1>14. Len(e \o s) = Len(e) + Len(s) /\ Len(s) \in Nat
  BY <1>1, <1>13, LenJoined
<1>15. from + Len(e \o s) = mid + Len(s)
  BY <1>1, <1>14 DEF mid
<1>16. Within(payload, from, mid + Len(s))
  BY <1>1, <1>2, <1>14 DEF Within, mid
<1>17. all \in Spelled(T, cat, payload, from)
  BY <1>8, <1>11, <1>12, <1>15, <1>16 DEF Spelled, W
<1>18. QED
  BY <1>17 DEF all, one, r

\* What is covered is what is spelled.
LEMMA SpelledSum ==
  ASSUME NEW T, NEW cat, NEW payload, NEW refs \in Spelled(T, cat, payload, 0)
  PROVE  /\ BundleLen(Bundle(refs)) \in Nat /\ BundleLen(Bundle(refs)) <= Len(payload)
         /\ FlattenSeq(Mapped([r \in Wholes(T, cat) |-> Text(cat)[r]], refs)) = Slice(payload, 0, BundleLen(Bundle(refs)))
<1> DEFINE W == Wholes(T, cat)
           tx == [r \in W |-> Text(cat)[r]]
           s == FlattenSeq(Mapped(tx, refs))
           total == Len(s)
<1>1. refs \in Seq(W) /\ Within(payload, 0, 0 + total) /\ s = Slice(payload, 0, 0 + total)
  BY DEF Spelled, Spell
<1>2. Stands(T, W, tx)
  BY WholesStand
<1> HIDE DEF W, tx
<1>3. Mapped(tx, refs) \in Seq(Seq(T)) /\ Result(LenStep(W), Nat, 0, refs) = total
  BY <1>1, <1>2, MappedLen
<1>4. \A r \in W : r.len \in Nat
  BY <1>2 DEF Stands
<1>5. BundleLen(Bundle(refs)) = Result(LenStep(W), Nat, 0, refs)
  BY <1>1, <1>4, LenFold
<1>6. s \in Seq(T)
  BY <1>3, FlattenType
<1> HIDE DEF s
<1>7. total \in Nat /\ 0 + total = total
  BY <1>6
<1>8. total <= Len(payload) /\ s = Slice(payload, 0, total)
  BY <1>1, <1>7 DEF Within
<1>9. QED
  BY <1>3, <1>5, <1>7, <1>8 DEF s, W, tx

\* The references of a program are read as what they stand for.
Read(cat, M, tx) == \A r \in M : materialize_ref(cat, r) = Done(tx[r])

\* So are they when it is run, ...
LEMMA PartsAreRead ==
  ASSUME NEW cat, NEW M, NEW tx, Read(cat, M, tx), NEW refs \in Seq(M),
         NEW results, results = [i \in DOMAIN refs |-> materialize_ref(cat, refs[i])]
  PROVE  /\ ~ \E i \in DOMAIN results : ~ results[i].ok
         /\ [i \in DOMAIN results |-> results[i].value] = Mapped(tx, refs)
<1>1. DOMAIN results = DOMAIN refs
  OBVIOUS
<1>2. ASSUME NEW i \in DOMAIN refs PROVE results[i].ok /\ results[i].value = tx[refs[i]]
  <2>1. refs[i] \in M /\ results[i] = materialize_ref(cat, refs[i])
    OBVIOUS
  <2>2. results[i] = Done(tx[refs[i]])
    BY <2>1 DEF Read
  <2>3. QED
    BY <2>2 DEF Done
<1>3. [i \in DOMAIN results |-> results[i].value] = Mapped(tx, refs)
  BY <1>1, <1>2 DEF Mapped
<1>4. QED
  BY <1>1, <1>2, <1>3

\* ... and without operations the residual follows them.
LEMMA DecodePlain ==
  ASSUME NEW cat, NEW M, NEW tx, Read(cat, M, tx), NEW refs \in Seq(M), NEW residual
  PROVE  decode_exact_bytes(cat, StateProgram(refs, << >>, residual)) = Done(FlattenSeq(Mapped(tx, refs)) \o residual)
<1> DEFINE none == << >>
           program == StateProgram(refs, none, residual)
           results == [i \in DOMAIN refs |-> materialize_ref(cat, refs[i])]
           parts == [i \in DOMAIN results |-> results[i].value]
<1>1. program.refs = refs /\ program.ops = none /\ program.residual = residual /\ DOMAIN none = {}
  BY DEF StateProgram
<1>2. (~ \E i \in DOMAIN results : ~ results[i].ok) /\ parts = Mapped(tx, refs)
  <2>1. results = [i \in DOMAIN refs |-> materialize_ref(cat, refs[i])]
    OBVIOUS
  <2> HIDE DEF results
  <2>2. QED
    BY <2>1, PartsAreRead
<1>3. ProgramIsValid(program)
  BY <1>1 DEF ProgramIsValid
<1>4. decode_exact_bytes(cat, program) =
        CASE ~ ProgramIsValid(program) \/ \E i \in DOMAIN results : ~ results[i].ok -> Failed
          [] OTHER ->
               IF program.ops = <<>> THEN Done(FlattenSeq(parts) \o program.residual)
               ELSE FoldLeft(LAMBDA out, op : apply_op(program, parts, out, op),
                             Done(FlattenSeq(parts)), program.ops)
  BY <1>1, Zenon DEF decode_exact_bytes
<1> HIDE DEF results, parts, program
<1>5. decode_exact_bytes(cat, program) = Done(FlattenSeq(parts) \o program.residual)
  BY <1>1, <1>2, <1>3, <1>4, Zenon DEF none
<1>6. QED
  BY <1>1, <1>2, <1>5 DEF program, none
\* The operations a sender writes over a residual of n bytes.
Operations(n) ==
  {ConcatOp} \cup {PatchOp(x[1], x[2], x[3], x[4]) : x \in {y \in Nat \X Nat \X Nat \X Nat : y[3] + y[4] <= n}}

OpStep(T, program, parts) ==
  [x \in Outcomes(T) \X Operations(Len(program.residual)) |-> apply_op(program, parts, x[1], x[2])]

\* What a patch does.
LEMMA PatchOpIs ==
  ASSUME NEW T, NEW program, program.residual \in Seq(T), NEW parts, NEW s \in Seq(T),
         NEW a \in Nat, NEW b \in Nat, NEW c \in Nat, NEW d \in Nat, c + d <= Len(program.residual)
  PROVE  /\ apply_op(program, parts, Done(s), PatchOp(a, b, c, d)) = Splice(s, a, b, Slice(program.residual, c, c + d))
         /\ Slice(program.residual, c, c + d) \in Seq(T)
         /\ apply_op(program, parts, Done(s), PatchOp(a, b, c, d)) \in Outcomes(T)
<1> DEFINE op == PatchOp(a, b, c, d)
           fill == Slice(program.residual, c, c + d)
           out == Done(s)
<1>1. op.op = "patch" /\ op.offset = a /\ op.remove = b /\ op.from = c /\ op.len = d
  BY DEF PatchOp
<1>2. out.ok /\ out.value = s
  BY DEF Done
<1> HIDE DEF op, out
<1>3. apply_op(program, parts, out, op) = Splice(s, a, b, fill)
  BY <1>1, <1>2 DEF apply_op
<1>4. Within(program.residual, c, c + d)
  BY DEF Within
<1>5. fill \in Seq(T)
  BY <1>4, SliceIs
<1> HIDE DEF fill
<1>6. Splice(s, a, b, fill) \in Outcomes(T)
  BY <1>5, SpliceGives
<1>7. QED
  BY <1>3, <1>5, <1>6 DEF op, out, fill

\* An operation keeps a result one.
LEMMA OpStepIs ==
  ASSUME NEW T, NEW program, program.residual \in Seq(T), NEW parts, parts \in Seq(Seq(T))
  PROVE  OpStep(T, program, parts) \in Steps(Outcomes(T), Operations(Len(program.residual)))
<1> DEFINE n == Len(program.residual)
<1>1. ASSUME NEW out \in Outcomes(T), NEW op \in Operations(n) PROVE apply_op(program, parts, out, op) \in Outcomes(T)
  <2>1. CASE ~out.ok
    <3>1. apply_op(program, parts, out, op) = out
      BY <2>1 DEF apply_op
    <3>2. QED
      BY <3>1
  <2>2. ASSUME NEW s \in Seq(T), out = Done(s) PROVE apply_op(program, parts, out, op) \in Outcomes(T)
    <3>1. CASE op = ConcatOp
      <4>1. out.ok /\ op.op = "concat"
        BY <2>2, <3>1 DEF Done, ConcatOp
      <4>2. apply_op(program, parts, out, op) = Done(FlattenSeq(parts))
        BY <4>1 DEF apply_op
      <4>3. FlattenSeq(parts) \in Seq(T)
        BY FlattenType
      <4>4. QED
        BY <4>2, <4>3 DEF Outcomes
    <3>2. CASE op # ConcatOp
      <4>1. PICK x \in Nat \X Nat \X Nat \X Nat : x[3] + x[4] <= n /\ op = PatchOp(x[1], x[2], x[3], x[4])
        BY <3>2 DEF Operations
      <4> DEFINE a == x[1]
                 b == x[2]
                 c == x[3]
                 d == x[4]
      <4>2. a \in Nat /\ b \in Nat /\ c \in Nat /\ d \in Nat /\ c + d <= n /\ op = PatchOp(a, b, c, d)
        BY <4>1
      <4> HIDE DEF a, b, c, d
      <4>3. QED
        BY <2>2, <4>2, PatchOpIs
    <3>3. QED
      BY <3>1, <3>2
  <2>3. out = Failed \/ \E s \in Seq(T) : out = Done(s)
    BY DEF Outcomes
  <2>4. QED
    BY <2>1, <2>2, <2>3 DEF Failed
<1>2. QED
  BY <1>1 DEF OpStep, Steps

\* A program with operations applies them to what its references give.
LEMMA DecodeOps ==
  ASSUME NEW T, NEW cat, NEW M, NEW tx, Read(cat, M, tx), NEW refs \in Seq(M), Mapped(tx, refs) \in Seq(Seq(T)),
         NEW residual \in Seq(T), NEW ops \in Seq(Operations(Len(residual))), ops # << >>
  PROVE  decode_exact_bytes(cat, StateProgram(refs, ops, residual)) =
           Result(OpStep(T, StateProgram(refs, ops, residual), Mapped(tx, refs)), Outcomes(T),
                  Done(FlattenSeq(Mapped(tx, refs))), ops)
<1> DEFINE program == StateProgram(refs, ops, residual)
           results == [i \in DOMAIN program.refs |-> materialize_ref(cat, program.refs[i])]
           parts == [i \in DOMAIN results |-> results[i].value]
           first == Done(FlattenSeq(parts))
           Next(out, op) == apply_op(program, parts, out, op)
           A == Outcomes(T)
           C == Operations(Len(residual))
           f == OpStep(T, program, parts)
           Solves(h) == h = [s \in SUBSET DOMAIN ops |-> IF s = {} THEN first ELSE Next(h[s \ {Max(s)}], ops[Max(s)])]
           it == CHOOSE h : Solves(h)
<1>1. program.refs = refs /\ program.ops = ops /\ program.residual = residual
  BY DEF StateProgram
<1>2. (~ \E i \in DOMAIN results : ~ results[i].ok) /\ parts = Mapped(tx, refs)
  <2> HIDE DEF program
  <2>1. results = [i \in DOMAIN refs |-> materialize_ref(cat, refs[i])]
    BY <1>1
  <2> HIDE DEF results
  <2>2. QED
    BY <2>1, PartsAreRead
<1>3. ProgramIsValid(program)
  <2>1. ASSUME NEW i \in DOMAIN ops, ops[i].op = "patch" PROVE checked_range(Len(residual), ops[i].from, ops[i].len)
    <3>1. ops[i] \in C
      OBVIOUS
    <3>2. ops[i] # ConcatOp
      BY <2>1 DEF ConcatOp
    <3>3. PICK x \in Nat \X Nat \X Nat \X Nat : x[3] + x[4] <= Len(residual) /\ ops[i] = PatchOp(x[1], x[2], x[3], x[4])
      BY <3>1, <3>2 DEF Operations
    <3>4. ops[i].from = x[3] /\ ops[i].len = x[4] /\ x[3] \in Nat /\ x[4] \in Nat
      BY <3>3 DEF PatchOp
    <3>5. Len(residual) \in Nat
      OBVIOUS
    <3>6. QED
      BY <3>3, <3>4, <3>5 DEF checked_range
  <2> HIDE DEF program
  <2>2. QED
    BY <1>1, <2>1 DEF ProgramIsValid
<1>4. decode_exact_bytes(cat, program) =
        CASE ~ ProgramIsValid(program) \/ \E i \in DOMAIN results : ~ results[i].ok -> Failed
          [] OTHER ->
               IF program.ops = <<>> THEN Done(FlattenSeq(parts) \o program.residual)
               ELSE FoldLeft(Next, first, program.ops)
  BY Zenon DEF decode_exact_bytes
<1>5. decode_exact_bytes(cat, program) = FoldLeft(Next, first, ops)
  <2> HIDE DEF results, parts, program, Next, first
  <2>1. QED
    BY <1>1, <1>2, <1>3, <1>4, Zenon
<1>6. FoldLeft(Next, first, ops) = it[DOMAIN ops]
  BY Zenon DEF FoldLeft, MapThenFoldSet
<1>7. \A a \in A, x \in C : f[<<a, x>>] = Next(a, x)
  <2> HIDE DEF parts, program
  <2>1. QED
    BY <1>1 DEF OpStep
<1>8. f \in Steps(A, C) /\ first \in A
  <2> HIDE DEF parts, program, A
  <2>1. parts \in Seq(Seq(T))
    BY <1>2
  <2>2. f \in Steps(A, C)
    BY <1>1, <2>1, OpStepIs DEF A
  <2>3. FlattenSeq(parts) \in Seq(T)
    BY <2>1, FlattenType
  <2>4. QED
    BY <2>2, <2>3 DEF A, Outcomes
<1> HIDE DEF A, C, f, first, Next, parts, program, results
<1>9. PICK h : PeelsOf(f, A, C, first, ops, h)
  BY <1>8, PeelOfExists DEF C
<1>10. Solves(h)
  BY <1>7, <1>9 DEF PeelsOf
<1>11. Solves(it)
  <2> HIDE DEF Solves
  <2>1. QED
    BY <1>10, Zenon
<1> HIDE DEF it
<1>12. it[{}] = first
  BY <1>11
<1>13. ASSUME NEW s \in SUBSET DOMAIN ops, s # {}, it[s \ {Max(s)}] \in A
       PROVE  it[s] = f[<<it[s \ {Max(s)}], ops[Max(s)]>>]
  <2>1. it[s] = Next(it[s \ {Max(s)}], ops[Max(s)])
    BY <1>11, <1>13
  <2>2. ops[Max(s)] \in C
    BY <1>9, <1>13 DEF PeelsOf
  <2>3. QED
    BY <1>7, <1>13, <2>1, <2>2
<1>14. PeelsTo(f, A, first, ops, it)
  BY <1>12, <1>13 DEF PeelsTo
<1>15. it[DOMAIN ops] = Result(f, A, first, ops)
  BY <1>8, <1>14, PeelIsResult DEF C
<1>16. QED
  BY <1>2, <1>5, <1>6, <1>15 DEF A, f, first, program

\* What is kept is in the set.
LEMMA KeptIn ==
  ASSUME NEW A, NEW S, NEW s \in Seq(A)
  PROVE  Kept(s, S) \in Seq(A \cap S)
<1> DEFINE B == A \cap S
           parts == [i \in DOMAIN s |-> IF s[i] \in S THEN <<s[i]>> ELSE << >>]
<1>1. Kept(s, S) = FlattenSeq(parts)
  BY DEF Kept
<1>2. ASSUME NEW i \in DOMAIN s PROVE parts[i] \in Seq(B)
  <2>1. s[i] \in A
    OBVIOUS
  <2>2. CASE s[i] \in S
    <3> DEFINE e == s[i]
    <3>1. e \in B /\ parts[i] = <<e>>
      BY <2>1, <2>2
    <3> HIDE DEF B, e, parts
    <3>2. <<e>> \in Seq(B)
      BY <3>1
    <3>3. QED
      BY <3>1, <3>2
  <2>3. CASE s[i] \notin S
    <3>1. parts[i] = << >>
      BY <2>3
    <3> HIDE DEF B, parts
    <3>2. QED
      BY <3>1
  <2>4. QED
    BY <2>2, <2>3
<1>3. DOMAIN parts = DOMAIN s /\ parts = [i \in DOMAIN s |-> parts[i]]
  OBVIOUS
<1> HIDE DEF B, parts
<1>4. parts \in Seq(Seq(B))
  BY <1>2, <1>3
<1>5. FlattenSeq(parts) \in Seq(B)
  BY <1>4, FlattenType
<1>6. QED
  BY <1>1, <1>5 DEF B

\* Parts of the catalog that a string begins with.
HeadItems(T, cat, s) == {x \in WholeItems(T, cat) : x.ref.len <= Len(s) /\ x.bytes = Slice(s, 0, x.ref.len)}

\* These are the candidates.
LEMMA CandidatesAre ==
  ASSUME NEW T, NEW cat, CatalogRight(T, cat), NEW s \in Seq(T), NEW minLen \in Nat, NEW limit \in Nat
  PROVE  prefix_candidates(cat, s, minLen, limit) \in Seq(HeadItems(T, cat, s))
<1> DEFINE bases == Bases(cat)
           P == HeadItems(T, cat, s)
           n == Len(s)
           top == n + 1 - minLen
           Fitting(kind, len) == Kept(bases, {b \in ToSet(bases) : b.ref.kind = kind /\ b.bytes = SubSeq(s, 1, len)})
           OfLength(len) == Fitting("bundle", len) \o Fitting("block", len)
           lists == [k \in 1 .. top |-> OfLength(n + 1 - k)]
           sorted == FlattenSeq(lists)
<1>1. prefix_candidates(cat, s, minLen, limit) = SubSeq(sorted, 1, IF Len(sorted) < limit THEN Len(sorted) ELSE limit)
  BY DEF prefix_candidates
<1>2. bases \in Seq(WholeItems(T, cat))
  BY BasesAre
<1>3. n \in Nat /\ top \in Int
  OBVIOUS
<1>4. ASSUME NEW kind, NEW len \in 0 .. n PROVE Fitting(kind, len) \in Seq(P)
  <2> DEFINE S == {b \in ToSet(bases) : b.ref.kind = kind /\ b.bytes = SubSeq(s, 1, len)}
             I == WholeItems(T, cat)
  <2>1. Kept(bases, S) \in Seq(I \cap S)
    <3> HIDE DEF S, bases, I
    <3>1. bases \in Seq(I)
      BY <1>2 DEF I
    <3>2. QED
      BY <3>1, KeptIn
  <2>2. ASSUME NEW x \in I \cap S PROVE x \in P
    <3>1. x \in WholeItems(T, cat) /\ x.bytes = SubSeq(s, 1, len)
      OBVIOUS
    <3>2. SubSeq(s, 1, len) = Slice(s, 0, len)
      BY DEF Slice
    <3>3. Within(s, 0, len)
      BY DEF Within
    <3>4. Len(Slice(s, 0, len)) = len - 0
      BY <3>3, SliceIs
    <3>5. x.ref.len = Len(x.bytes)
      BY <3>1 DEF WholeItems
    <3>6. x.ref.len = len
      BY <3>1, <3>2, <3>4, <3>5
    <3>7. QED
      BY <3>1, <3>2, <3>6 DEF HeadItems
  <2> HIDE DEF S, bases, I, P
  <2>3. Seq(I \cap S) \subseteq Seq(P)
    BY <2>2, SeqMonotonic
  <2>4. QED
    BY <2>1, <2>3 DEF S
<1>5. ASSUME NEW k \in 1 .. top PROVE lists[k] \in Seq(P)
  <2> DEFINE len == n + 1 - k
  <2>1. len \in 0 .. n /\ lists[k] = OfLength(len)
    BY <1>3
  <2> HIDE DEF len, lists, Fitting
  <2>2. Fitting("bundle", len) \in Seq(P) /\ Fitting("block", len) \in Seq(P)
    BY <1>4, <2>1
  <2> HIDE DEF P
  <2>3. QED
    BY <2>1, <2>2
<1>6. PICK m \in Nat : 1 .. top = 1 .. m
  <2> HIDE DEF top
  <2>1. CASE top \in Nat
    BY <2>1
  <2>2. CASE top \notin Nat
    <3>1. 1 .. top = 1 .. 0
      BY <1>3, <2>2
    <3>2. QED
      BY <3>1
  <2>3. QED
    BY <2>1, <2>2
<1>7. lists = [k \in 1 .. m |-> lists[k]]
  BY <1>6
<1> HIDE DEF lists, P
<1>8. lists \in Seq(Seq(P))
  <2> DEFINE Q == Seq(P)
  <2> HIDE DEF top
  <2>1. \A k \in 1 .. m : lists[k] \in Q
    BY <1>5, <1>6
  <2> HIDE DEF Q
  <2>2. lists \in Seq(Q)
    BY <1>7, <2>1
  <2>3. QED
    BY <2>2 DEF Q
<1>9. sorted \in Seq(P)
  BY <1>8, FlattenType
<1> HIDE DEF sorted
<1>10. SubSeq(sorted, 1, IF Len(sorted) < limit THEN Len(sorted) ELSE limit) \in Seq(P)
  <2> DEFINE last == IF Len(sorted) < limit THEN Len(sorted) ELSE limit
  <2>1. last \in Nat /\ last <= Len(sorted)
    BY <1>9
  <2> HIDE DEF last
  <2>2. SubSeq(sorted, 1, last) \in Seq(P)
    BY <1>9, <2>1
  <2>3. QED
    BY <2>2 DEF last
<1>11. QED
  BY <1>1, <1>10 DEF P

\* What the search finds from a place on, with what it found below.
Branch(cat, payload, trailing, left, cursor, below) ==
  LET next == prefix_candidates(cat, Slice(payload, cursor, Len(payload)), MIN_COMPONENT, MAX_PER_STEP)
  IN  (IF Len(payload) - cursor <= trailing THEN <<<<>>>> ELSE <<>>)
      \o (IF left = 0 \/ cursor = Len(payload) THEN <<>>
          ELSE FlattenSeq([i \in DOMAIN next |->
                 LET rest == below.at[cursor + next[i].ref.len]
                 IN  [k \in DOMAIN rest |-> <<next[i].ref>> \o rest[k]]]))

\* What is found everywhere spells the payload from there.
Table(T, cat, payload, x) ==
  \A c \in 0 .. Len(payload) : x.at[c] \in Seq(Spelled(T, cat, payload, c))

\* One prefix and what is found after it.
LEMMA BranchPart ==
  ASSUME NEW T, NEW cat, NEW payload \in Seq(T), NEW cursor \in 0 .. Len(payload), NEW below, Table(T, cat, payload, below),
         NEW x \in HeadItems(T, cat, Slice(payload, cursor, Len(payload))), NEW rest, rest = below.at[cursor + x.ref.len]
  PROVE  [k \in DOMAIN rest |-> <<x.ref>> \o rest[k]] \in Seq(Spelled(T, cat, payload, cursor))
<1> DEFINE n == Len(payload)
           s == Slice(payload, cursor, n)
           len == x.ref.len
           mid == cursor + len
           R == Spelled(T, cat, payload, cursor)
           B == Spelled(T, cat, payload, mid)
<1>1. Within(payload, cursor, n) /\ cursor \in Nat /\ n \in Nat
  BY DEF Within
<1>2. Len(s) = n - cursor
  BY <1>1, SliceIs
<1>3. x \in WholeItems(T, cat) /\ len <= Len(s) /\ x.bytes = Slice(s, 0, len)
  BY DEF HeadItems
<1>4. len \in Nat
  <2>1. x.bytes \in Seq(T) /\ len = Len(x.bytes)
    BY <1>3, ItemReads
  <2>2. QED
    BY <2>1
<1> HIDE DEF s, n
<1>5. mid <= n /\ mid \in 0 .. n
  BY <1>1, <1>2, <1>3, <1>4
<1>6. Within(payload, cursor, mid) /\ x.bytes = Slice(payload, cursor, mid)
  <2> HIDE DEF len
  <2>1. payload \in Seq(T) /\ Within(payload, cursor, n) /\ len \in Nat /\ cursor + len <= n
    BY <1>1, <1>4, <1>5
  <2>2. Within(payload, cursor, cursor + len) /\ Slice(Slice(payload, cursor, n), 0, len) = Slice(payload, cursor, cursor + len)
    BY ONLY <2>1, SliceOfSlice
  <2>3. Slice(s, 0, len) = Slice(payload, cursor, mid) /\ Within(payload, cursor, mid)
    BY <2>2 DEF s
  <2>4. QED
    BY <1>3, <2>3
<1>7. rest \in Seq(B)
  BY <1>5 DEF Table, n
<1>8. ASSUME NEW refs \in B PROVE <<x.ref>> \o refs \in R
  BY <1>1, <1>3, <1>6, <1>8, SpelledNext
<1> HIDE DEF B, R
<1>9. \A k \in DOMAIN rest : <<x.ref>> \o rest[k] \in R
  BY <1>7, <1>8
<1>10. [k \in DOMAIN rest |-> <<x.ref>> \o rest[k]] \in Seq(R)
  <2> DEFINE F(k) == <<x.ref>> \o rest[k]
  <2>1. \A k \in DOMAIN rest : F(k) \in R
    BY <1>9
  <2> HIDE DEF F
  <2>2. [k \in DOMAIN rest |-> F(k)] \in Seq(R)
    BY <1>7, <2>1
  <2>3. QED
    BY <2>2 DEF F
<1>11. QED
  BY <1>10 DEF R

\* So the search is right when it was right below.
LEMMA BranchIs ==
  ASSUME NEW T, NEW cat, CatalogRight(T, cat), NEW payload \in Seq(T), NEW trailing, NEW left,
         NEW cursor \in 0 .. Len(payload), NEW below, left = 0 \/ Table(T, cat, payload, below)
  PROVE  Branch(cat, payload, trailing, left, cursor, below) \in Seq(Spelled(T, cat, payload, cursor))
<1> DEFINE s == Slice(payload, cursor, Len(payload))
           next == prefix_candidates(cat, s, MIN_COMPONENT, MAX_PER_STEP)
           Part(i) == LET rest == below.at[cursor + next[i].ref.len]
                      IN  [k \in DOMAIN rest |-> <<next[i].ref>> \o rest[k]]
           lists == [i \in DOMAIN next |-> Part(i)]
           none == << >>
           p == IF Len(payload) - cursor <= trailing THEN <<none>> ELSE << >>
           q == IF left = 0 \/ cursor = Len(payload) THEN << >> ELSE FlattenSeq(lists)
           R == Spelled(T, cat, payload, cursor)
<1>1. Branch(cat, payload, trailing, left, cursor, below) = p \o q
  BY DEF Branch
<1>2. p \in Seq(R)
  <2>1. none \in R
    BY SpelledNone
  <2> HIDE DEF R, none
  <2>2. <<none>> \in Seq(R) /\ << >> \in Seq(R)
    BY <2>1
  <2>3. QED
    BY <2>2
<1>3. s \in Seq(T)
  <2>1. Within(payload, cursor, Len(payload))
    BY DEF Within
  <2>2. QED
    BY <2>1, SliceIs
<1>4. next \in Seq(HeadItems(T, cat, s))
  BY <1>3, CandidatesAre, ReconstructionAssumption
<1>5. q \in Seq(R)
  <2>1. CASE left = 0 \/ cursor = Len(payload)
    <3>1. q = << >>
      BY <2>1
    <3> HIDE DEF q, R
    <3>2. QED
      BY <3>1
  <2>2. CASE ~(left = 0 \/ cursor = Len(payload))
    <3>1. Table(T, cat, payload, below)
      BY <2>2
    <3>2. ASSUME NEW i \in DOMAIN next PROVE Part(i) \in Seq(R)
      <4> DEFINE x == next[i]
                 rest == below.at[cursor + x.ref.len]
      <4>1. x \in HeadItems(T, cat, s)
        <5> HIDE DEF next, s
        <5>1. QED
          BY <1>4
      <4>2. Part(i) = [k \in DOMAIN rest |-> <<x.ref>> \o rest[k]]
        OBVIOUS
      <4>3. rest = below.at[cursor + x.ref.len]
        OBVIOUS
      <4>4. x \in HeadItems(T, cat, Slice(payload, cursor, Len(payload)))
        BY <4>1
      <4> HIDE DEF x, rest, Part, next, s
      <4>5. [k \in DOMAIN rest |-> <<x.ref>> \o rest[k]] \in Seq(Spelled(T, cat, payload, cursor))
        BY <3>1, <4>3, <4>4, BranchPart
      <4>6. QED
        BY <4>2, <4>5
    <3> HIDE DEF R, next, Part
    <3>3. lists \in Seq(Seq(R))
      BY <1>4, <3>2
    <3>4. FlattenSeq(lists) \in Seq(R)
      BY <3>3, FlattenType
    <3>5. QED
      BY <2>2, <3>4
  <2>3. QED
    BY <2>1, <2>2
<1> HIDE DEF p, q, R
<1>6. p \o q \in Seq(R)
  BY <1>2, <1>5
<1>7. QED
  BY <1>1, <1>6 DEF R

\* The search, with up to n references left.
Turn(cat, payload, trailing, left, below) ==
  [at |-> [cursor \in 0 .. Len(payload) |-> Branch(cat, payload, trailing, left, cursor, below)]]

Searches(cat, payload, trailing, n, F) ==
  F = [left \in 0 .. n |-> Turn(cat, payload, trailing, left, F[left - 1])]

\* There is one.
LEMMA SearchExists ==
  ASSUME NEW cat, NEW payload, NEW trailing, NEW n \in Nat
  PROVE  \E F : Searches(cat, payload, trailing, n, F)
<1> DEFINE Up(left, below) == Turn(cat, payload, trailing, left, below)
           S == {k \in Nat : \E F : F = [left \in 0 .. k |-> Up(left, F[left - 1])]}
<1>1. 0 \in S
  <2> DEFINE F == [left \in 0 .. 0 |-> Up(0, << >>)]
  <2>1. \A below : Up(0, below) = Up(0, << >>)
    BY DEF Turn, Branch
  <2> HIDE DEF Up
  <2>2. F = [left \in 0 .. 0 |-> Up(left, F[left - 1])]
    <3>1. \A left \in 0 .. 0 : left = 0
      OBVIOUS
    <3> HIDE DEF F
    <3>2. \A left \in 0 .. 0 : Up(left, F[left - 1]) = Up(0, << >>)
      BY <2>1, <3>1
    <3>3. QED
      BY <3>2 DEF F
  <2>3. QED
    BY <2>2
<1>2. \A k \in Nat : k \in S => k + 1 \in S
  <2> TAKE k \in Nat
  <2>1. HAVE k \in S
  <2>2. PICK F : F = [left \in 0 .. k |-> Up(left, F[left - 1])]
    BY <2>1
  <2> DEFINE more == [left \in 0 .. k + 1 |-> IF left = k + 1 THEN Up(left, F[k]) ELSE F[left]]
  <2> HIDE DEF Up
  <2>3. \A left \in 0 .. k : more[left] = F[left]
    OBVIOUS
  <2>4. \A left \in 0 .. k : more[left] = Up(left, more[left - 1])
    <3> TAKE left \in 0 .. k
    <3>1. F[left] = Up(left, F[left - 1])
      BY <2>2
    <3>2. CASE left = 0
      <4>1. \A below, other : Up(0, below) = Up(0, other)
        BY DEF Up, Turn, Branch
      <4> HIDE DEF more
      <4>2. QED
        BY <2>3, <3>1, <3>2, <4>1
    <3>3. CASE left # 0
      <4>1. left - 1 \in 0 .. k
        BY <3>3
      <4> HIDE DEF more
      <4>2. QED
        BY <2>3, <3>1, <4>1
    <3>4. QED
      BY <3>2, <3>3
  <2>5. more[k + 1] = Up(k + 1, more[(k + 1) - 1])
    <3>1. more[k + 1] = Up(k + 1, F[k]) /\ (k + 1) - 1 = k /\ more[k] = F[k]
      OBVIOUS
    <3> HIDE DEF more
    <3>2. QED
      BY <3>1
  <2>6. more = [left \in 0 .. k + 1 |-> more[left]]
    OBVIOUS
  <2> HIDE DEF more
  <2>7. \A left \in 0 .. k + 1 : more[left] = Up(left, more[left - 1])
    BY <2>4, <2>5
  <2>8. more = [left \in 0 .. k + 1 |-> Up(left, more[left - 1])]
    BY <2>6, <2>7
  <2>9. QED
    BY <2>8
<1>3. n \in S
  <2> HIDE DEF S
  <2>1. QED
    BY <1>1, <1>2, NatSetInduction
<1>4. QED
  BY <1>3 DEF Searches

\* Everything it finds spells the payload from its beginning.
LEMMA SearchSpells ==
  ASSUME NEW T, NEW cat, CatalogRight(T, cat), NEW payload \in Seq(T), NEW trailing
  PROVE  search_prefix_refs(cat, payload, trailing) \in Seq(Spelled(T, cat, payload, 0))
<1> DEFINE n == MAX_REFS
           Search == CHOOSE F : Searches(cat, payload, trailing, n, F)
           Good == {k \in 0 .. n : Table(T, cat, payload, Search[k])}
<1>1. n \in Nat
  BY ReconstructionAssumption
<1>2. search_prefix_refs(cat, payload, trailing) = Search[n].at[0]
  BY Zenon DEF search_prefix_refs, Searches, Turn, Branch
<1>3. Searches(cat, payload, trailing, n, Search)
  BY <1>1, SearchExists
<1> HIDE DEF n, Search
<1>4. \A left \in 0 .. n : Search[left] = Turn(cat, payload, trailing, left, Search[left - 1])
  BY <1>3 DEF Searches
<1>5. ASSUME NEW left \in 0 .. n, left = 0 \/ Table(T, cat, payload, Search[left - 1])
      PROVE  Table(T, cat, payload, Search[left])
  <2>1. ASSUME NEW c \in 0 .. Len(payload) PROVE Search[left].at[c] \in Seq(Spelled(T, cat, payload, c))
    <3>1. Search[left].at[c] = Branch(cat, payload, trailing, left, c, Search[left - 1])
      <4> DEFINE below == Search[left - 1]
                 row == [cursor \in 0 .. Len(payload) |-> Branch(cat, payload, trailing, left, cursor, below)]
      <4>1. Search[left] = Turn(cat, payload, trailing, left, below)
        BY <1>4
      <4>2. row[c] = Branch(cat, payload, trailing, left, c, below)
        OBVIOUS
      <4>3. Turn(cat, payload, trailing, left, below) = [at |-> row]
        BY DEF Turn
      <4> HIDE DEF row, below
      <4>4. QED
        BY <4>1, <4>2, <4>3 DEF below
    <3>2. Branch(cat, payload, trailing, left, c, Search[left - 1]) \in Seq(Spelled(T, cat, payload, c))
      BY <1>5, BranchIs
    <3>3. QED
      BY <3>1, <3>2
  <2>2. QED
    BY <2>1 DEF Table
<1>6. 0 \in Good
  BY <1>1, <1>5
<1>7. ASSUME NEW k \in 0 .. n, k \in Good, k < n PROVE k + 1 \in Good
  <2>1. k + 1 \in 0 .. n /\ (k + 1) - 1 = k
    BY <1>1, <1>7
  <2>2. QED
    BY <1>5, <1>7, <2>1
<1>8. n \in Good
  <2> HIDE DEF Good
  <2>1. \A k \in 0 .. n : k \in Good /\ k < n => k + 1 \in Good
    BY <1>7
  <2>2. 0 .. n \subseteq Good
    BY <1>1, <1>6, <2>1, IntervalInduction
  <2>3. QED
    BY <1>1, <2>2
<1>9. 0 \in 0 .. Len(payload)
  OBVIOUS
<1>10. QED
  BY <1>2, <1>8, <1>9 DEF Table

\* How much references cover.
CoveredBy(refs) == FoldLeft(LAMBDA n, r : n + r.len, 0, refs)

\* What may have been found so far.
Chosen(T, cat, payload) ==
  {Failed} \cup {Done([refs |-> refs, covered |-> CoveredBy(refs)]) : refs \in Spelled(T, cat, payload, 0)}

\* One more.
Preferred(best, refs) ==
  LET candidate == [refs |-> refs, covered |-> CoveredBy(refs)]
  IN  IF better_prefix_solution(best, candidate) THEN Done(candidate) ELSE best

PreferStep(T, cat, payload) ==
  [x \in Chosen(T, cat, payload) \X Spelled(T, cat, payload, 0) |-> Preferred(x[1], x[2])]

\* It stays so.
LEMMA PreferStepIs ==
  ASSUME NEW T, NEW cat, NEW payload
  PROVE  PreferStep(T, cat, payload) \in Steps(Chosen(T, cat, payload), Spelled(T, cat, payload, 0))
<1> DEFINE A == Chosen(T, cat, payload)
           C == Spelled(T, cat, payload, 0)
<1>1. ASSUME NEW best \in A, NEW refs \in C PROVE Preferred(best, refs) \in A
  <2> DEFINE candidate == [refs |-> refs, covered |-> CoveredBy(refs)]
  <2>1. Done(candidate) \in A
    BY DEF Chosen
  <2>2. Preferred(best, refs) = Done(candidate) \/ Preferred(best, refs) = best
    BY DEF Preferred
  <2> HIDE DEF A, candidate
  <2>3. QED
    BY <2>1, <2>2
<1>2. QED
  BY <1>1 DEF PreferStep, Steps

\* The best of what is found is found.
LEMMA BestIsChosen ==
  ASSUME NEW T, NEW cat, CatalogRight(T, cat), NEW payload \in Seq(T), NEW trailing
  PROVE  best_prefix_refs(cat, payload, trailing) \in Chosen(T, cat, payload)
<1> DEFINE seq == search_prefix_refs(cat, payload, trailing)
           A == Chosen(T, cat, payload)
           C == Spelled(T, cat, payload, 0)
           f == PreferStep(T, cat, payload)
           first == Failed
           Next(best, refs) == Preferred(best, refs)
           Solves(h) ==
             h = [s \in SUBSET DOMAIN seq |-> IF s = {} THEN first ELSE Next(h[s \ {Max(s)}], seq[Max(s)])]
           it == CHOOSE h : Solves(h)
<1>1. f \in Steps(A, C) /\ first \in A
  BY PreferStepIs DEF Chosen
<1>2. best_prefix_refs(cat, payload, trailing) = it[DOMAIN seq]
  <2>1. best_prefix_refs(cat, payload, trailing) = FoldLeft(Next, first, seq)
    BY Zenon DEF best_prefix_refs, Preferred, CoveredBy
  <2>2. FoldLeft(Next, first, seq) = it[DOMAIN seq]
    BY Zenon DEF FoldLeft, MapThenFoldSet
  <2>3. QED
    BY <2>1, <2>2
<1>3. \A a \in A, x \in C : f[<<a, x>>] = Next(a, x)
  BY DEF PreferStep
<1>4. seq \in Seq(C)
  BY SearchSpells
<1> HIDE DEF A, C, f, first, Next, seq
<1>5. PICK h : PeelsOf(f, A, C, first, seq, h)
  BY <1>1, <1>4, PeelOfExists
<1>6. Solves(h)
  BY <1>3, <1>5 DEF PeelsOf
<1>7. Solves(it)
  <2> HIDE DEF Solves
  <2>1. QED
    BY <1>6, Zenon
<1> HIDE DEF it
<1>8. it[{}] = first
  BY <1>7
<1>9. ASSUME NEW s \in SUBSET DOMAIN seq, s # {}, it[s \ {Max(s)}] \in A
      PROVE  it[s] = f[<<it[s \ {Max(s)}], seq[Max(s)]>>]
  <2>1. it[s] = Next(it[s \ {Max(s)}], seq[Max(s)])
    BY <1>7, <1>9
  <2>2. seq[Max(s)] \in C
    BY <1>5, <1>9 DEF PeelsOf
  <2>3. QED
    BY <1>3, <1>9, <2>1, <2>2
<1>10. PeelsTo(f, A, first, seq, it)
  BY <1>8, <1>9 DEF PeelsTo
<1>11. it[DOMAIN seq] = Result(f, A, first, seq)
  BY <1>1, <1>4, <1>10, PeelIsResult
<1>12. Result(f, A, first, seq) \in A
  BY <1>1, <1>4, ResultType
<1>13. QED
  BY <1>2, <1>11, <1>12 DEF A

\* A program decodes to a payload.
Decodes(cat, program, payload) == decode_exact_bytes(cat, program) = Done(payload)

\* References are read as a string.
ReadAs(T, cat, refs, s) ==
  \E M, tx : /\ Read(cat, M, tx) /\ refs \in Seq(M)
             /\ Mapped(tx, refs) \in Seq(Seq(T)) /\ FlattenSeq(Mapped(tx, refs)) = s

\* One reference is read.
LEMMA OneRead ==
  ASSUME NEW T, NEW cat, NEW ref, NEW e \in Seq(T), materialize_ref(cat, ref) = Done(e)
  PROVE  ReadAs(T, cat, <<ref>>, e)
<1> DEFINE M == {ref}
           tx == [r \in M |-> e]
           S == Seq(T)
           none == << >>
<1>1. Read(cat, M, tx)
  BY DEF Read
<1>2. <<ref>> \in Seq(M)
  OBVIOUS
<1>3. Mapped(tx, <<ref>>) = <<e>>
  BY DEF Mapped
<1>4. <<e>> \in Seq(S) /\ none \in Seq(S) /\ none \in S
  OBVIOUS
<1>5. Append(none, e) = <<e>>
  OBVIOUS
<1>6. FlattenSeq(Append(none, e)) = FlattenSeq(none) \o e
  BY <1>4, FlattenAppend
<1>7. FlattenSeq(none) \o e = e
  BY FlattenEmpty
<1>8. FlattenSeq(<<e>>) = e
  BY <1>5, <1>6, <1>7
<1> HIDE DEF M, tx
<1>9. QED
  BY <1>1, <1>2, <1>3, <1>4, <1>8 DEF ReadAs

\* A reference to all of a block or bundle, on its own.
LEMMA WholeDecodes ==
  ASSUME NEW T, NEW cat, NEW ref \in Refs(cat), NEW payload \in Seq(T), WholeIs(cat, ref, payload),
         ref.start = 0, ref.len = Len(payload)
  PROVE  Decodes(cat, StateProgram(<<ref>>, << >>, << >>), payload)
<1> DEFINE x == [ref |-> ref, bytes |-> payload]
           none == << >>
<1>1. x.ref = ref /\ x.bytes = payload /\ x \in [ref : Refs(cat), bytes : Seq(T)]
  OBVIOUS
<1> HIDE DEF x
<1>2. x \in WholeItems(T, cat)
  BY <1>1 DEF WholeItems
<1>3. materialize_ref(cat, ref) = Done(payload)
  BY <1>1, <1>2, ItemReads
<1> DEFINE refs == <<ref>>
<1> HIDE DEF refs, none
<1>4. ReadAs(T, cat, refs, payload)
  BY <1>3, OneRead DEF refs
<1>5. PICK M, tx : Read(cat, M, tx) /\ refs \in Seq(M) /\ FlattenSeq(Mapped(tx, refs)) = payload
  BY <1>4 DEF ReadAs
<1>6. decode_exact_bytes(cat, StateProgram(refs, << >>, none)) = Done(FlattenSeq(Mapped(tx, refs)) \o none)
  BY <1>5, DecodePlain
<1>7. payload \o none = payload
  BY DEF none
<1>8. QED
  BY <1>5, <1>6, <1>7 DEF Decodes, none, refs

\* What a candidate is made of.
LEMMA WeighedIs ==
  ASSUME NEW program
  PROVE  Candidate(program).ok /\ Candidate(program).value.program = program
<1> DEFINE x == [program |-> program, description |-> EncodedLen(program)]
<1>1. Candidate(program) = Done(x) /\ x.program = program
  BY Zenon DEF Candidate
<1> HIDE DEF x
<1>2. Done(x).ok /\ Done(x).value = x
  BY DEF Done
<1>3. QED
  BY <1>1, <1>2

\* A bundle that is the payload.
LEMMA BundleDecodes ==
  ASSUME NEW T, NEW cat, CatalogRight(T, cat), NEW payload \in Seq(T), exact_bundle_state(cat, payload).ok
  PROVE  Decodes(cat, exact_bundle_state(cat, payload).value.program, payload)
<1> DEFINE found == ExactBundlesFor(cat, payload)
           S == {b \in cat.bundles : materialize_bundle(cat, b) = Done(payload)}
           b == found[1]
           ref == BundleRef(b, 0, BundleLen(b))
<1>1. found # << >>
  BY DEF exact_bundle_state, Failed
<1>2. found \in Seq(cat.bundles \cap S)
  <2>1. InIdOrder(cat.bundles) \in Seq(cat.bundles)
    BY InOrder DEF CatalogRight
  <2>2. found = Kept(InIdOrder(cat.bundles), S)
    BY DEF ExactBundlesFor
  <2> HIDE DEF found, S
  <2>3. QED
    BY <2>1, <2>2, KeptIn
<1>3. b \in cat.bundles \cap S
  <2> HIDE DEF found, S
  <2>1. QED
    BY <1>1, <1>2
<1>4. b \in cat.bundles /\ materialize_bundle(cat, b) = Done(payload)
  <2> HIDE DEF b
  <2>1. QED
    BY <1>3
<1>5. exact_bundle_state(cat, payload) = Candidate(StateProgram(<<ref>>, << >>, << >>))
  BY <1>1 DEF exact_bundle_state
<1> HIDE DEF found, S, b
<1>6. BundleLen(b) = Len(payload)
  <2> DEFINE s == FlattenSeq(MemberParts(b.members))
  <2>1. materialize_bundle(cat, b) = Done(s) /\ BundleLen(b) = Len(s)
    BY <1>4, BundleIs
  <2> HIDE DEF s
  <2>2. s = payload
    BY <1>4, <2>1 DEF Done
  <2>3. QED
    BY <2>1, <2>2
<1>7. ref = [kind |-> "bundle", base |-> b, start |-> 0, len |-> BundleLen(b)]
  BY DEF BundleRef
<1>8. ref \in Refs(cat) /\ ref.kind = "bundle" /\ ref.base = b /\ ref.start = 0 /\ ref.len = Len(payload)
  <2>1. Len(payload) \in Nat
    OBVIOUS
  <2>2. QED
    BY <1>4, <1>6, <1>7, <2>1 DEF Refs
<1> HIDE DEF ref
<1>9. WholeIs(cat, ref, payload)
  BY <1>4, <1>8 DEF WholeIs
<1>10. Decodes(cat, StateProgram(<<ref>>, << >>, << >>), payload)
  BY <1>8, <1>9, WholeDecodes
<1> DEFINE program == StateProgram(<<ref>>, << >>, << >>)
<1> HIDE DEF program
<1>11. Candidate(program).value.program = program
  BY WeighedIs
<1>12. QED
  BY <1>5, <1>10, <1>11 DEF program

\* A block that is the payload.
LEMMA BlockDecodes ==
  ASSUME NEW T, NEW cat, CatalogRight(T, cat), NEW payload \in Seq(T), exact_block_state(cat, payload).ok
  PROVE  Decodes(cat, exact_block_state(cat, payload).value.program, payload)
<1> DEFINE found == ExactBlocksFor(cat, payload)
           S == {b \in cat.blocks : b.material = payload}
           b == found[1]
           ref == BlockRef(b, 0, Len(b.material))
<1>1. found # << >>
  BY DEF exact_block_state, Failed
<1>2. found \in Seq(cat.blocks \cap S)
  <2>1. InIdOrder(cat.blocks) \in Seq(cat.blocks)
    BY InOrder DEF CatalogRight
  <2>2. found = Kept(InIdOrder(cat.blocks), S)
    BY DEF ExactBlocksFor
  <2> HIDE DEF found, S
  <2>3. QED
    BY <2>1, <2>2, KeptIn
<1>3. b \in cat.blocks \cap S
  <2> HIDE DEF found, S
  <2>1. QED
    BY <1>1, <1>2
<1>4. b \in cat.blocks /\ b.material = payload
  <2> HIDE DEF b
  <2>1. QED
    BY <1>3
<1>5. exact_block_state(cat, payload) = Candidate(StateProgram(<<ref>>, << >>, << >>))
  BY <1>1 DEF exact_block_state
<1> HIDE DEF found, S, b
<1>6. Len(payload) \in Nat /\ Slice(payload, 0, Len(payload)) = payload
  <2>1. Len(payload) \in Nat /\ 0 \in 0 .. Len(payload)
    OBVIOUS
  <2>2. QED
    BY <2>1, SliceEnds
<1>7. ref = [kind |-> "block", base |-> b, start |-> 0, len |-> Len(payload)]
  BY <1>4 DEF BlockRef
<1>8. ref \in Refs(cat) /\ ref.kind = "block" /\ ref.base = b /\ ref.start = 0 /\ ref.len = Len(payload)
  BY <1>4, <1>6, <1>7 DEF Refs
<1> HIDE DEF ref
<1>9. materialize_block_range(cat, b, 0, Len(b.material)) = Done(payload)
  BY <1>4, <1>6 DEF materialize_block_range, checked_range
<1>10. WholeIs(cat, ref, payload)
  BY <1>8, <1>9 DEF WholeIs
<1>11. Decodes(cat, StateProgram(<<ref>>, << >>, << >>), payload)
  BY <1>8, <1>10, WholeDecodes
<1> DEFINE program == StateProgram(<<ref>>, << >>, << >>)
<1> HIDE DEF program
<1>12. Candidate(program).value.program = program
  BY WeighedIs
<1>13. QED
  BY <1>5, <1>11, <1>12 DEF program

\* What the best references give.
LEMMA BestReads ==
  ASSUME NEW T, NEW cat, CatalogRight(T, cat), NEW payload \in Seq(T), NEW trailing, NEW best,
         best = best_prefix_refs(cat, payload, trailing), best.ok
  PROVE  /\ ReadAs(T, cat, best.value.refs, Slice(payload, 0, best.value.covered))
         /\ best.value.covered \in 0 .. Len(payload)
<1> DEFINE W == Wholes(T, cat)
           tx == [r \in W |-> Text(cat)[r]]
<1>1. PICK refs \in Spelled(T, cat, payload, 0) : best = Done([refs |-> refs, covered |-> CoveredBy(refs)])
  <2>1. best \in Chosen(T, cat, payload)
    BY BestIsChosen
  <2>2. QED
    BY <2>1 DEF Chosen, Failed
<1>2. best.value.refs = refs /\ best.value.covered = CoveredBy(refs)
  BY <1>1 DEF Done
<1>3. CoveredBy(refs) = BundleLen(Bundle(refs))
  BY DEF CoveredBy, BundleLen, Bundle
<1>4. /\ CoveredBy(refs) \in Nat /\ CoveredBy(refs) <= Len(payload)
      /\ FlattenSeq(Mapped(tx, refs)) = Slice(payload, 0, CoveredBy(refs))
  BY <1>3, SpelledSum
<1>5. refs \in Seq(W)
  BY DEF Spelled
<1>6. Stands(T, W, tx) /\ Read(cat, W, tx)
  <2>1. Stands(T, W, tx) /\ \A r \in W : materialize_ref(cat, r) = Done(Text(cat)[r])
    BY WholesStand
  <2>2. \A r \in W : tx[r] = Text(cat)[r]
    OBVIOUS
  <2> HIDE DEF W, tx
  <2>3. QED
    BY <2>1, <2>2 DEF Read
<1> HIDE DEF W, tx
<1>7. Mapped(tx, refs) \in Seq(Seq(T))
  BY <1>5, <1>6, MappedLen
<1>8. CoveredBy(refs) \in 0 .. Len(payload)
  BY <1>4
<1>9. QED
  BY <1>2, <1>4, <1>5, <1>6, <1>7, <1>8 DEF ReadAs

\* References that cover the payload, and are joined.
LEMMA CompositeDecodes ==
  ASSUME NEW T, NEW cat, CatalogRight(T, cat), NEW payload \in Seq(T), exact_composite_state(cat, payload).ok
  PROVE  Decodes(cat, exact_composite_state(cat, payload).value.program, payload)
<1> DEFINE best == best_prefix_refs(cat, payload, 0)
           refs == best.value.refs
           none == << >>
           ops == <<ConcatOp>>
           program == StateProgram(refs, ops, none)
<1>1. exact_composite_state(cat, payload) = CompositeOf(best, payload)
  BY DEF exact_composite_state
<1> HIDE DEF best
<1>2. best.ok /\ best.value.covered = Len(payload) /\ exact_composite_state(cat, payload) = Candidate(program)
  BY <1>1 DEF CompositeOf, Failed
<1>3. PICK M, tx : /\ Read(cat, M, tx) /\ refs \in Seq(M) /\ Mapped(tx, refs) \in Seq(Seq(T))
                   /\ FlattenSeq(Mapped(tx, refs)) = Slice(payload, 0, Len(payload))
  <2>1. best = best_prefix_refs(cat, payload, 0)
    BY DEF best
  <2>2. ReadAs(T, cat, refs, Slice(payload, 0, best.value.covered))
    BY <1>2, <2>1, BestReads
  <2>3. QED
    BY <1>2, <2>2 DEF ReadAs
<1>4. Slice(payload, 0, Len(payload)) = payload
  <2>1. 0 \in 0 .. Len(payload)
    OBVIOUS
  <2>2. QED
    BY <2>1, SliceEnds
<1> DEFINE parts == Mapped(tx, refs)
           C == Operations(Len(none))
           A == Outcomes(T)
           f == OpStep(T, program, parts)
           first == Done(FlattenSeq(parts))
<1> HIDE DEF refs, parts
<1>5. none \in Seq(T) /\ parts \in Seq(Seq(T)) /\ FlattenSeq(parts) = payload
  BY <1>3, <1>4 DEF parts
<1>6. ConcatOp \in C /\ program.residual = none
  BY DEF Operations, StateProgram
<1>7. ops \in Seq(C) /\ ops # << >>
  <2> HIDE DEF C
  <2>1. QED
    BY <1>6
<1>8. decode_exact_bytes(cat, program) = Result(f, A, first, ops)
  <2> HIDE DEF ops, none
  <2>1. QED
    BY <1>3, <1>5, <1>7, DecodeOps DEF parts
<1>9. f \in Steps(A, C) /\ first \in A
  <2>1. program.residual \in Seq(T) /\ Len(program.residual) = Len(none)
    BY <1>5, <1>6
  <2>2. first \in A
    BY <1>5 DEF Outcomes
  <2> HIDE DEF program, none
  <2>3. QED
    BY <1>5, <2>1, <2>2, OpStepIs
<1>10. f[<<first, ConcatOp>>] = first
  <2>1. first \in A /\ ConcatOp \in Operations(Len(program.residual))
    BY <1>6, <1>9
  <2>2. apply_op(program, parts, first, ConcatOp) = first
    BY DEF apply_op, ConcatOp, Done
  <2> HIDE DEF first, program
  <2>3. QED
    BY <2>1, <2>2 DEF OpStep
<1> HIDE DEF f, A, C, first
<1>11. Result(f, A, first, ops) = first
  <2>1. ops = Append(none, ConcatOp) /\ none \in Seq(C)
    OBVIOUS
  <2>2. Result(f, A, first, none) = first
    BY <1>9, ResultEmpty
  <2> HIDE DEF none, ops
  <2>3. Result(f, A, first, Append(none, ConcatOp)) = f[<<Result(f, A, first, none), ConcatOp>>]
    BY <1>6, <1>9, <2>1, ResultAppend
  <2>4. QED
    BY <1>10, <2>1, <2>2, <2>3
<1>12. decode_exact_bytes(cat, program) = Done(payload)
  BY <1>5, <1>8, <1>11 DEF first
<1>13. exact_composite_state(cat, payload).value.program = program
  <2> HIDE DEF program
  <2>1. Candidate(program).value.program = program
    BY WeighedIs
  <2>2. QED
    BY <1>2, <2>1
<1>14. QED
  BY <1>12, <1>13 DEF Decodes

\* References that cover the beginning, and the rest as it is.
LEMMA SuffixDecodes ==
  ASSUME NEW T, NEW cat, CatalogRight(T, cat), NEW payload \in Seq(T),
         composite_with_suffix_residual_state(cat, payload).ok
  PROVE  Decodes(cat, composite_with_suffix_residual_state(cat, payload).value.program, payload)
<1> DEFINE best == best_prefix_refs(cat, payload, MAX_SUFFIX)
           refs == best.value.refs
           c == best.value.covered
           none == << >>
           rest == Slice(payload, c, Len(payload))
           program == StateProgram(refs, none, rest)
<1>1. composite_with_suffix_residual_state(cat, payload) = CompositeWithSuffixOf(best, payload)
  BY DEF composite_with_suffix_residual_state
<1> HIDE DEF best
<1>2. best.ok /\ composite_with_suffix_residual_state(cat, payload) = Candidate(program)
  BY <1>1 DEF CompositeWithSuffixOf, Failed
<1>3. PICK M, tx : /\ Read(cat, M, tx) /\ refs \in Seq(M) /\ FlattenSeq(Mapped(tx, refs)) = Slice(payload, 0, c)
                   /\ c \in 0 .. Len(payload)
  <2>1. best = best_prefix_refs(cat, payload, MAX_SUFFIX)
    BY DEF best
  <2>2. ReadAs(T, cat, refs, Slice(payload, 0, c)) /\ c \in 0 .. Len(payload)
    BY <1>2, <2>1, BestReads
  <2>3. QED
    BY <2>2 DEF ReadAs
<1> HIDE DEF refs, c
<1>4. Slice(payload, 0, c) \o rest = payload
  BY <1>3, SliceEnds
<1>5. decode_exact_bytes(cat, StateProgram(refs, << >>, rest)) = Done(FlattenSeq(Mapped(tx, refs)) \o rest)
  BY <1>3, DecodePlain
<1>6. composite_with_suffix_residual_state(cat, payload).value.program = program
  <2> HIDE DEF program
  <2>1. Candidate(program).value.program = program
    BY WeighedIs
  <2>2. QED
    BY <1>2, <2>1
<1>7. QED
  BY <1>3, <1>4, <1>5, <1>6 DEF Decodes, none

\* Putting bytes before a string, or after it.
LEMMA SpliceAtEnds ==
  ASSUME NEW T, NEW s \in Seq(T), NEW fill \in Seq(T)
  PROVE  Splice(s, 0, 0, fill) = Done(fill \o s) /\ Splice(s, Len(s), 0, fill) = Done(s \o fill)
<1> DEFINE n == Len(s)
           none == << >>
<1>1. n \in Nat /\ 0 \in 0 .. n /\ n \in 0 .. n /\ n + 0 = n
  OBVIOUS
<1>2. Slice(s, 0, n) = s /\ Slice(s, 0, 0) = none
  BY <1>1, SliceEnds
<1>3. Slice(s, n, n) = none
  BY <1>1, SliceEnds
<1>4. checked_range(n, 0, 0) /\ checked_range(n, n, 0)
  BY <1>1 DEF checked_range
<1>5. none \o fill = fill /\ (s \o fill) \o none = s \o fill
  OBVIOUS
<1> HIDE DEF none
<1>6. Splice(s, 0, 0, fill) = Done((none \o fill) \o s)
  BY <1>2, <1>4 DEF Splice
<1>7. Splice(s, n, 0, fill) = Done((s \o fill) \o none)
  BY <1>1, <1>2, <1>3, <1>4 DEF Splice
<1>8. QED
  BY <1>5, <1>6, <1>7

\* An operation makes one string of another, whatever the references are.
Makes(program, s, op, t) == \A parts : apply_op(program, parts, Done(s), op) = Done(t)

\* The residual has what lies around a part, and a and end are where that begins and ends.
SplitsAt(program, prefix, middle, suffix, a, end) ==
  program.residual = prefix \o suffix /\ a = Len(prefix) /\ end = a + Len(middle)

\* The patches for it do what they should.
PatchSpells(program, prefix, middle, suffix, a, end) ==
  /\ Makes(program, middle, PatchOp(0, 0, 0, a), prefix \o middle)
  /\ Makes(program, prefix \o middle, PatchOp(end, 0, a, Len(suffix)), (prefix \o middle) \o suffix)
  /\ PatchOp(0, 0, 0, a) \in Operations(Len(program.residual))
  /\ PatchOp(end, 0, a, Len(suffix)) \in Operations(Len(program.residual))

\* What lies around a part, from a residual that has both.
LEMMA PatchesGive ==
  ASSUME NEW T, NEW prefix \in Seq(T), NEW middle \in Seq(T), NEW suffix \in Seq(T), NEW program,
         NEW a, NEW end, SplitsAt(program, prefix, middle, suffix, a, end)
  PROVE  PatchSpells(program, prefix, middle, suffix, a, end)
<1> DEFINE b == Len(suffix)
           residual == program.residual
           both == prefix \o middle
<1>1. residual = prefix \o suffix /\ a = Len(prefix) /\ end = a + Len(middle)
  BY DEF SplitsAt
<1>2. a \in Nat /\ b \in Nat /\ end \in Nat /\ Len(middle) \in Nat
  BY <1>1
<1>3. residual \in Seq(T) /\ Len(residual) = a + b
  BY <1>1, LenJoined
<1>4. both \in Seq(T) /\ Len(both) = end
  BY <1>1, LenJoined
<1>5. Slice(residual, 0, a) = prefix /\ Slice(residual, a, a + b) = suffix
  <2>1. Slice(prefix \o suffix, 0, Len(prefix)) = prefix
    BY SliceOfJoined
  <2>2. Slice(prefix \o suffix, Len(prefix), Len(prefix \o suffix)) = suffix
    BY SliceOfJoined
  <2>3. QED
    BY <1>1, <1>3, <2>1, <2>2
<1> HIDE DEF residual, both, b
<1>6. 0 + a <= Len(residual) /\ a + b <= Len(residual) /\ 0 + a = a
  BY <1>2, <1>3
<1>7. \A parts :
        apply_op(program, parts, Done(middle), PatchOp(0, 0, 0, a)) = Splice(middle, 0, 0, Slice(residual, 0, 0 + a))
  <2> DEFINE zero == 0
  <2>1. program.residual \in Seq(T) /\ zero \in Nat /\ a \in Nat /\ zero + a <= Len(program.residual)
    BY <1>2, <1>3, <1>6 DEF residual
  <2>2. middle \in Seq(T)
    OBVIOUS
  <2> HIDE DEF zero
  <2>3. \A parts : apply_op(program, parts, Done(middle), PatchOp(zero, zero, zero, a)) =
                     Splice(middle, zero, zero, Slice(program.residual, zero, zero + a))
    BY ONLY <2>1, <2>2, PatchOpIs
  <2>4. QED
    BY <2>3 DEF zero, residual
<1>8. \A parts :
        apply_op(program, parts, Done(both), PatchOp(end, 0, a, b)) = Splice(both, end, 0, Slice(residual, a, a + b))
  <2> DEFINE zero == 0
  <2>1. program.residual \in Seq(T) /\ zero \in Nat /\ a \in Nat /\ b \in Nat /\ a + b <= Len(program.residual)
    BY <1>2, <1>3, <1>6 DEF residual, b
  <2>2. both \in Seq(T) /\ end \in Nat
    BY <1>2, <1>4
  <2> HIDE DEF zero
  <2>3. \A parts : apply_op(program, parts, Done(both), PatchOp(end, zero, a, b)) =
                     Splice(both, end, zero, Slice(program.residual, a, a + b))
    BY ONLY <2>1, <2>2, PatchOpIs
  <2>4. QED
    BY <2>3 DEF zero, residual
<1>9. Splice(middle, 0, 0, prefix) = Done(both)
  BY SpliceAtEnds DEF both
<1>10. Splice(both, end, 0, suffix) = Done(both \o suffix)
  BY <1>4, SpliceAtEnds
<1>11. PatchOp(0, 0, 0, a) \in Operations(Len(residual))
  <2> DEFINE x == <<0, 0, 0, a>>
  <2>1. x \in {y \in Nat \X Nat \X Nat \X Nat : y[3] + y[4] <= Len(residual)}
    BY <1>2, <1>6
  <2>2. PatchOp(0, 0, 0, a) = PatchOp(x[1], x[2], x[3], x[4])
    OBVIOUS
  <2> HIDE DEF x
  <2>3. QED
    BY <2>1, <2>2 DEF Operations
<1>12. PatchOp(end, 0, a, b) \in Operations(Len(residual))
  <2> DEFINE x == <<end, 0, a, b>>
  <2>1. x \in {y \in Nat \X Nat \X Nat \X Nat : y[3] + y[4] <= Len(residual)}
    BY <1>2, <1>6
  <2>2. PatchOp(end, 0, a, b) = PatchOp(x[1], x[2], x[3], x[4])
    OBVIOUS
  <2> HIDE DEF x
  <2>3. QED
    BY <2>1, <2>2 DEF Operations
<1>13. Makes(program, middle, PatchOp(0, 0, 0, a), both)
  BY <1>5, <1>6, <1>7, <1>9 DEF Makes
<1>14. Makes(program, both, PatchOp(end, 0, a, b), both \o suffix)
  BY <1>5, <1>8, <1>10 DEF Makes
<1>15. QED
  BY <1>11, <1>12, <1>13, <1>14 DEF PatchSpells, residual, both, b

\* One operation, ...
LEMMA RunsOne ==
  ASSUME NEW T, NEW cat, NEW refs, NEW s \in Seq(T), ReadAs(T, cat, refs, s), NEW residual \in Seq(T),
         NEW op \in Operations(Len(residual)), NEW program, program = StateProgram(refs, <<op>>, residual),
         NEW t, Makes(program, s, op, t)
  PROVE  decode_exact_bytes(cat, program) = Done(t)
<1>1. PICK M, tx : /\ Read(cat, M, tx) /\ refs \in Seq(M)
                   /\ Mapped(tx, refs) \in Seq(Seq(T)) /\ FlattenSeq(Mapped(tx, refs)) = s
  BY DEF ReadAs
<1> DEFINE parts == Mapped(tx, refs)
           ops == <<op>>
           none == << >>
           C == Operations(Len(residual))
           A == Outcomes(T)
           f == OpStep(T, program, parts)
           first == Done(s)
           out == Done(t)
<1>2. ops \in Seq(C) /\ ops # << >> /\ ops = Append(none, op) /\ none \in Seq(C)
  <2>1. op \in C
    OBVIOUS
  <2> HIDE DEF C
  <2>2. QED
    BY <2>1
<1>3. decode_exact_bytes(cat, program) = Result(f, A, first, ops)
  <2> HIDE DEF ops
  <2>1. program = StateProgram(refs, ops, residual)
    BY DEF ops
  <2> HIDE DEF parts, first
  <2>2. ops \in Seq(Operations(Len(residual))) /\ ops # << >> /\ residual \in Seq(T)
    BY <1>2
  <2>3. Read(cat, M, tx) /\ refs \in Seq(M) /\ Mapped(tx, refs) \in Seq(Seq(T))
    BY <1>1
  <2>4. decode_exact_bytes(cat, StateProgram(refs, ops, residual)) =
          Result(OpStep(T, StateProgram(refs, ops, residual), Mapped(tx, refs)), Outcomes(T),
                 Done(FlattenSeq(Mapped(tx, refs))), ops)
    BY ONLY <2>2, <2>3, DecodeOps
  <2>5. QED
    BY <1>1, <2>1, <2>4 DEF parts, first
<1>4. program.residual = residual
  BY DEF StateProgram
<1>5. f \in Steps(A, C) /\ first \in A
  <2>1. first \in A
    BY DEF Outcomes
  <2>2. parts \in Seq(Seq(T))
    BY <1>1
  <2> HIDE DEF parts
  <2>3. f \in Steps(A, C)
    BY <1>4, <2>2, OpStepIs
  <2>4. QED
    BY <2>1, <2>3
<1>6. f[<<first, op>>] = apply_op(program, parts, first, op)
  <2> HIDE DEF parts, first, A
  <2>1. QED
    BY <1>4, <1>5 DEF OpStep, A
<1>7. apply_op(program, parts, first, op) = out
  BY DEF Makes
<1> HIDE DEF f, A, C, first, none, ops, parts
<1>8. Result(f, A, first, none) = first
  BY <1>5, ResultEmpty DEF none
<1>9. op \in C
  BY DEF C
<1>10. Result(f, A, first, Append(none, op)) = f[<<Result(f, A, first, none), op>>]
  <2>1. f \in Steps(A, C) /\ first \in A /\ none \in Seq(C) /\ op \in C
    BY <1>2, <1>5, <1>9
  <2>2. QED
    BY ONLY <2>1, ResultAppend
<1>11. QED
  BY <1>2, <1>3, <1>6, <1>7, <1>8, <1>10

\* ... and two.
LEMMA RunsTwo ==
  ASSUME NEW T, NEW cat, NEW refs, NEW s \in Seq(T), ReadAs(T, cat, refs, s), NEW residual \in Seq(T),
         NEW op \in Operations(Len(residual)), NEW next \in Operations(Len(residual)),
         NEW program, program = StateProgram(refs, <<op, next>>, residual),
         NEW t \in Seq(T), Makes(program, s, op, t), NEW u, Makes(program, t, next, u)
  PROVE  decode_exact_bytes(cat, program) = Done(u)
<1>1. PICK M, tx : /\ Read(cat, M, tx) /\ refs \in Seq(M)
                   /\ Mapped(tx, refs) \in Seq(Seq(T)) /\ FlattenSeq(Mapped(tx, refs)) = s
  BY DEF ReadAs
<1> DEFINE parts == Mapped(tx, refs)
           one == <<op>>
           ops == <<op, next>>
           none == << >>
           C == Operations(Len(residual))
           A == Outcomes(T)
           f == OpStep(T, program, parts)
           first == Done(s)
           second == Done(t)
           out == Done(u)
<1>2. /\ ops \in Seq(C) /\ ops # << >> /\ ops = Append(one, next) /\ one = Append(none, op)
      /\ none \in Seq(C) /\ one \in Seq(C)
  <2>1. op \in C /\ next \in C
    OBVIOUS
  <2> HIDE DEF C
  <2>2. QED
    BY <2>1
<1>3. decode_exact_bytes(cat, program) = Result(f, A, first, ops)
  <2> HIDE DEF ops
  <2>1. program = StateProgram(refs, ops, residual)
    BY DEF ops
  <2> HIDE DEF parts, first
  <2>2. ops \in Seq(Operations(Len(residual))) /\ ops # << >> /\ residual \in Seq(T)
    BY <1>2
  <2>3. Read(cat, M, tx) /\ refs \in Seq(M) /\ Mapped(tx, refs) \in Seq(Seq(T))
    BY <1>1
  <2>4. decode_exact_bytes(cat, StateProgram(refs, ops, residual)) =
          Result(OpStep(T, StateProgram(refs, ops, residual), Mapped(tx, refs)), Outcomes(T),
                 Done(FlattenSeq(Mapped(tx, refs))), ops)
    BY ONLY <2>2, <2>3, DecodeOps
  <2>5. QED
    BY <1>1, <2>1, <2>4 DEF parts, first
<1>4. program.residual = residual
  BY DEF StateProgram
<1>5. f \in Steps(A, C) /\ first \in A /\ second \in A
  <2>1. first \in A /\ second \in A
    BY DEF Outcomes
  <2>2. parts \in Seq(Seq(T))
    BY <1>1
  <2> HIDE DEF parts
  <2>3. f \in Steps(A, C)
    BY <1>4, <2>2, OpStepIs
  <2>4. QED
    BY <2>1, <2>3
<1>6. /\ f[<<first, op>>] = apply_op(program, parts, first, op)
      /\ f[<<second, next>>] = apply_op(program, parts, second, next)
  <2> HIDE DEF parts, first, second, A
  <2>1. QED
    BY <1>4, <1>5 DEF OpStep, A
<1>7. apply_op(program, parts, first, op) = second /\ apply_op(program, parts, second, next) = out
  BY DEF Makes
<1> HIDE DEF f, A, C, first, second, none, one, ops, parts
<1>8. Result(f, A, first, none) = first
  BY <1>5, ResultEmpty DEF none
<1>9. op \in C /\ next \in C
  BY DEF C
<1>10. Result(f, A, first, Append(none, op)) = f[<<Result(f, A, first, none), op>>]
  <2>1. f \in Steps(A, C) /\ first \in A /\ none \in Seq(C) /\ op \in C
    BY <1>2, <1>5, <1>9
  <2>2. QED
    BY ONLY <2>1, ResultAppend
<1>11. Result(f, A, first, Append(one, next)) = f[<<Result(f, A, first, one), next>>]
  <2>1. f \in Steps(A, C) /\ first \in A /\ one \in Seq(C) /\ next \in C
    BY <1>2, <1>5, <1>9
  <2>2. QED
    BY ONLY <2>1, ResultAppend
<1>12. QED
  BY <1>2, <1>3, <1>6, <1>7, <1>8, <1>10, <1>11

\* Two sequences of one.
LEMMA PairJoined ==
  ASSUME NEW x, NEW y
  PROVE  <<x>> \o <<y>> = <<x, y>>
<1> DEFINE S == {x, y}
           p == <<x>>
           q == <<y>>
           r == <<x, y>>
<1>1. x \in S /\ y \in S
  OBVIOUS
<1> HIDE DEF S
<1>2. p \in Seq(S) /\ q \in Seq(S) /\ r \in Seq(S) /\ Len(p) = 1 /\ Len(q) = 1 /\ Len(r) = 2
  BY <1>1
<1>3. p[1] = x /\ q[1] = y /\ r[1] = x /\ r[2] = y
  OBVIOUS
<1> HIDE DEF p, q, r
<1>4. p \o q \in Seq(S) /\ Len(p \o q) = 2 /\ (p \o q)[1] = x /\ (p \o q)[2] = y
  <2>1. p \o q \in Seq(S) /\ Len(p \o q) = Len(p) + Len(q)
    BY <1>2, ConcatProperties
  <2>2. \A i \in 1 .. Len(p) + Len(q) : (p \o q)[i] = IF i <= Len(p) THEN p[i] ELSE q[i - Len(p)]
    BY <1>2, ConcatProperties
  <2>3. 1 \in 1 .. Len(p) + Len(q) /\ 2 \in 1 .. Len(p) + Len(q) /\ 2 - Len(p) = 1
    BY <1>2
  <2>4. (p \o q)[1] = p[1]
    BY <1>2, <2>2, <2>3
  <2>5. (p \o q)[2] = q[1]
    <3> DEFINE two == 2
    <3>1. two \in 1 .. Len(p) + Len(q) /\ ~(two <= Len(p)) /\ two - Len(p) = 1
      BY <1>2
    <3> HIDE DEF two
    <3>2. (p \o q)[two] = q[two - Len(p)]
      BY <2>2, <3>1
    <3>3. QED
      BY <3>1, <3>2 DEF two
  <2>6. QED
    BY <1>2, <1>3, <2>1, <2>4, <2>5
<1> DEFINE t == p \o q
<1> HIDE DEF t
<1>5. t = r
  BY <1>2, <1>3, <1>4 DEF t
<1>6. QED
  BY <1>5 DEF t, p, q, r

\* A window of the catalog with what lies around it.
LEMMA RangeDecodes ==
  ASSUME NEW T, NEW cat, CatalogRight(T, cat), NEW payload \in Seq(T), range_patch_state(cat, payload).ok
  PROVE  Decodes(cat, range_patch_state(cat, payload).value.program, payload)
<1> DEFINE match == best_window_match(cat, payload)
           window == match.value.window
           ref == match.value.ref
           a == window.payload_start
           end == a + window.matched_len
           n == Len(payload)
           middle == Slice(payload, a, end)
           prefix == Slice(payload, 0, a)
           suffix == Slice(payload, end, n)
           residual == prefix \o suffix
           before == PatchOp(0, 0, 0, Len(prefix))
           after == PatchOp(end, 0, Len(prefix), Len(suffix))
           ops == (IF prefix = <<>> THEN <<>> ELSE <<before>>) \o (IF suffix = <<>> THEN <<>> ELSE <<after>>)
           program == StateProgram(<<ref>>, ops, residual)
<1>1. range_patch_state(cat, payload) = RangePatchOf(match, payload)
  BY DEF range_patch_state
<1> HIDE DEF match
<1>2. match.ok /\ residual # <<>> /\ range_patch_state(cat, payload) = Candidate(program)
  BY <1>1 DEF RangePatchOf, Failed
<1>3. match.value \in WindowMatches(T, cat, payload)
  <2>1. match = best_window_match(cat, payload)
    BY DEF match
  <2>2. QED
    BY <1>2, <2>1, BestMatchIs
<1>4. /\ materialize_ref(cat, ref) = Done(match.value.bytes) /\ match.value.bytes = middle
      /\ Within(payload, a, end)
  BY <1>3 DEF WindowMatches
<1> HIDE DEF window, ref, a, end, n
<1>5. n \in Nat /\ Within(payload, 0, a) /\ Within(payload, end, n) /\ Within(payload, 0, end) /\ Within(payload, a, end)
  BY <1>4 DEF Within, n
<1>6. middle \in Seq(T) /\ Len(middle) = end - a
  BY <1>5, SliceIs
<1>7. prefix \in Seq(T) /\ Len(prefix) = a - 0
  BY <1>5, SliceIs
<1>8. suffix \in Seq(T)
  BY <1>5, SliceIs
<1>9. prefix \o middle = Slice(payload, 0, end) /\ Slice(payload, 0, end) \o suffix = Slice(payload, 0, n)
  <2>1. Slice(payload, 0, a) \o Slice(payload, a, end) = Slice(payload, 0, end)
    BY <1>5, SliceJoin
  <2>2. Slice(payload, 0, end) \o Slice(payload, end, n) = Slice(payload, 0, n)
    BY <1>5, SliceJoin
  <2>3. QED
    BY <2>1, <2>2
<1>10. (prefix \o middle) \o suffix = payload
  <2>1. 0 \in 0 .. Len(payload)
    OBVIOUS
  <2>2. Slice(payload, 0, n) = payload
    BY <2>1, SliceEnds DEF n
  <2>3. QED
    BY <1>9, <2>2
<1>11. a = Len(prefix) /\ end = Len(prefix) + Len(middle)
  BY <1>5, <1>6, <1>7 DEF Within
<1>12. ReadAs(T, cat, <<ref>>, middle)
  <2>1. materialize_ref(cat, ref) = Done(middle)
    BY <1>4
  <2> HIDE DEF middle
  <2>2. QED
    BY <1>6, <2>1, OneRead
<1> HIDE DEF middle, prefix, suffix
<1> DEFINE refs == <<ref>>
<1> HIDE DEF refs
<1>13. program = StateProgram(refs, ops, residual) /\ program.residual = residual /\ residual \in Seq(T)
  BY <1>7, <1>8 DEF StateProgram, refs
<1> HIDE DEF program
<1>14. /\ Makes(program, middle, before, prefix \o middle)
       /\ Makes(program, prefix \o middle, after, (prefix \o middle) \o suffix)
       /\ before \in Operations(Len(program.residual)) /\ after \in Operations(Len(program.residual))
  <2> DEFINE l == Len(prefix)
             e == l + Len(middle)
  <2>1. l = Len(prefix) /\ SplitsAt(program, prefix, middle, suffix, l, e)
    BY <1>13 DEF SplitsAt
  <2>2. end = e
    BY <1>11
  <2> HIDE DEF l, e
  <2>3. PatchSpells(program, prefix, middle, suffix, l, e)
    <3>1. prefix \in Seq(T) /\ middle \in Seq(T) /\ suffix \in Seq(T)
      BY <1>6, <1>7, <1>8
    <3>2. QED
      BY ONLY <2>1, <3>1, PatchesGive
  <2>4. QED
    BY <2>1, <2>2, <2>3 DEF PatchSpells
<1> HIDE DEF before, after, residual
<1>15. before \in Operations(Len(residual)) /\ after \in Operations(Len(residual))
  BY <1>13, <1>14
<1>16. ReadAs(T, cat, refs, middle)
  BY <1>12 DEF refs
<1> DEFINE both == prefix \o middle
<1>17. both \in Seq(T) /\ both \o suffix = payload
  BY <1>6, <1>7, <1>10
<1>18. CASE prefix = << >> /\ suffix = << >>
  <2>1. residual = << >>
    BY <1>18 DEF residual
  <2>2. QED
    BY <1>2, <2>1
<1>19. CASE prefix = << >> /\ suffix # << >>
  <2>1. ops = <<after>>
    BY <1>19
  <2>2. both = middle
    BY <1>6, <1>19
  <2> HIDE DEF ops, both
  <2>3. Makes(program, middle, after, payload)
    BY <1>14, <1>17, <2>2 DEF both
  <2>4. program = StateProgram(refs, <<after>>, residual)
    BY <1>13, <2>1
  <2>5. decode_exact_bytes(cat, program) = Done(payload)
    <3>1. middle \in Seq(T) /\ ReadAs(T, cat, refs, middle) /\ residual \in Seq(T) /\ after \in Operations(Len(residual))
      BY <1>6, <1>13, <1>15, <1>16
    <3>2. QED
      BY ONLY <2>3, <2>4, <3>1, RunsOne
  <2>6. QED
    BY <1>2, <2>5, WeighedIs DEF Decodes
<1>20. CASE prefix # << >> /\ suffix = << >>
  <2>1. ops = <<before>>
    BY <1>20
  <2>2. both = payload
    BY <1>17, <1>20
  <2> HIDE DEF ops, both
  <2>3. Makes(program, middle, before, payload)
    BY <1>14, <2>2 DEF both
  <2>4. program = StateProgram(refs, <<before>>, residual)
    BY <1>13, <2>1
  <2>5. decode_exact_bytes(cat, program) = Done(payload)
    <3>1. middle \in Seq(T) /\ ReadAs(T, cat, refs, middle) /\ residual \in Seq(T) /\ before \in Operations(Len(residual))
      BY <1>6, <1>13, <1>15, <1>16
    <3>2. QED
      BY ONLY <2>3, <2>4, <3>1, RunsOne
  <2>6. QED
    BY <1>2, <2>5, WeighedIs DEF Decodes
<1>21. CASE prefix # << >> /\ suffix # << >>
  <2>1. ops = <<before, after>>
    <3>1. ops = <<before>> \o <<after>>
      BY <1>21
    <3> HIDE DEF ops
    <3>2. QED
      BY <3>1, PairJoined
  <2> HIDE DEF ops, both
  <2>2. Makes(program, middle, before, both) /\ Makes(program, both, after, payload)
    BY <1>14, <1>17 DEF both
  <2>3. program = StateProgram(refs, <<before, after>>, residual)
    BY <1>13, <2>1
  <2>4. decode_exact_bytes(cat, program) = Done(payload)
    <3>1. /\ middle \in Seq(T) /\ ReadAs(T, cat, refs, middle) /\ residual \in Seq(T) /\ both \in Seq(T)
          /\ before \in Operations(Len(residual)) /\ after \in Operations(Len(residual))
      BY <1>6, <1>13, <1>15, <1>16, <1>17
    <3>2. QED
      BY ONLY <2>2, <2>3, <3>1, RunsTwo
  <2>5. QED
    BY <1>2, <2>4, WeighedIs DEF Decodes
<1>22. QED
  BY <1>18, <1>19, <1>20, <1>21

\* Every state program that is weighed decodes to the payload.
LEMMA WeighedDecode ==
  ASSUME NEW T, NEW cat, CatalogRight(T, cat), NEW payload \in Seq(T),
         NEW candidate \in ToSet(StateCandidates(cat, payload)), candidate.ok
  PROVE  decode_exact_bytes(cat, candidate.value.program) = Done(payload)
<1>1. candidate \in {exact_bundle_state(cat, payload), exact_block_state(cat, payload),
                     exact_composite_state(cat, payload), composite_with_suffix_residual_state(cat, payload),
                     range_patch_state(cat, payload)}
  BY DEF StateCandidates, ToSet
<1>2. QED
  BY <1>1, BundleDecodes, BlockDecodes, CompositeDecodes, SuffixDecodes, RangeDecodes DEF Decodes

\* Every state program the policy can choose, and every one it only weighs, decodes to the
\* payload: exact blocks and bundles, composites, ranges with what lies around them.
THEOREM ProgramsComeBack == RebuildSpec => []ProgramsDecodeExactly
<1>1. RebuildInv => ProgramsDecodeExactly
  <2>1. SUFFICES ASSUME RebuildInv, dispatched.decision \in Described,
                        NEW candidate \in ToSet(StateCandidates(catalog, original)), candidate.ok
                 PROVE  decode_exact_bytes(catalog, candidate.value.program) = Done(original)
    BY DEF ProgramsDecodeExactly
  <2>2. CatalogRight(Symbols, catalog) /\ original \in Seq(Symbols)
    BY <2>1 DEF RebuildInv
  <2>3. QED
    BY <2>1, <2>2, WeighedDecode
<1>2. QED
  BY <1>1, RebuildInvariant, PTL

=============================================================================
