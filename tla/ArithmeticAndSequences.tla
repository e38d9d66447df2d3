---- MODULE ArithmeticAndSequences ----
(***************************************************************************)
(* Facts that the proofs of several modules cite.                          *)
(*                                                                         *)
(* About %: the cursors of ij_queue.c wrap at 2^w and are masked by a      *)
(* capacity that divides 2^w.  About SubSeq and \o: files and connections  *)
(* grow by parts of a record, and what they hold is compared piece by      *)
(* piece with what was written.                                            *)
(***************************************************************************)
EXTENDS Integers, Sequences, SequenceTheorems, TLAPS

----------------------------------------------------------------------------
(* Remainders *)


\* A remainder is a slot index: 0 <= cursor & mask < capacity.
LEMMA ModRange == ASSUME NEW a \in Int, NEW n \in Nat \ {0} PROVE a % n \in 0 .. n-1
OBVIOUS

\* Quotient and remainder give back the cursor.
LEMMA DivMod ==
  ASSUME NEW a \in Int, NEW n \in Nat \ {0}
  PROVE a = (n * (a \div n)) + (a % n) /\ a \div n \in Int
OBVIOUS

\* Quotient and remainder are unique.
LEMMA ModUnique ==
  ASSUME NEW n \in Nat \ {0}, NEW q \in Int, NEW k \in Int, NEW r \in 0..n-1, NEW s \in 0..n-1,
         n*q + r = n*k + s
  PROVE r = s /\ q = k
OBVIOUS

\* Whatever decomposes a cursor is its remainder.
LEMMA ModSame ==
  ASSUME NEW n \in Nat \ {0}, NEW a \in Int, NEW q \in Int, NEW r \in 0..n-1, a = n*q + r
  PROVE a % n = r
<1> DEFINE k == a \div n  s == a % n
<1>1. a = n * k + s /\ k \in Int /\ s \in 0 .. n-1
  BY DivMod, ModRange
<1> HIDE DEF k, s
<1>2. n * q + r = n * k + s
  BY <1>1
<1>3. r = s
  BY <1>1, <1>2, ModUnique
<1> QED BY <1>3 DEF s

\* Cursors less than a capacity apart select different slots: an enqueue into
\* a ring that is not full overwrites nothing.
LEMMA ModInjective ==
  ASSUME NEW n \in Nat \ {0}, NEW i \in Int, NEW j \in Int, i % n = j % n, i - j < n, j - i < n
  PROVE i = j
<1> DEFINE q == (i \div n) - (j \div n)
<1>1. i - j = n * q /\ q \in Int
  BY DivMod, ModRange
<1>2. q = 0
  <2> HIDE DEF q
  <2> QED BY <1>1
<1> QED BY <1>1, <1>2

\* Advancing a wrapped cursor is wrapping the advanced one.
LEMMA ModShift ==
  ASSUME NEW n \in Nat \ {0}, NEW a \in Int
  PROVE ((a % n) + 1) % n = (a + 1) % n
<1> DEFINE q == a \div n  r == a % n
<1>1. a = n * q + r /\ q \in Int /\ r \in 0..n-1
  BY DivMod, ModRange
<1> HIDE DEF q, r
<1>2. CASE r + 1 < n
  <2>1. (r + 1) % n = r + 1
    BY <1>1, <1>2, ModSame
  <2>2. (a + 1) % n = r + 1
    BY <1>1, <1>2, ModSame
  <2> QED BY <2>1, <2>2 DEF r
<1>3. CASE r + 1 = n
  <2>1. (r + 1) % n = 0
    <3>1. r + 1 = n * 1 + 0  BY <1>1, <1>3
    <3> QED BY <3>1, <1>1, ModSame
  <2>2. (a + 1) % n = 0
    <3>1. a + 1 = n * (q + 1) + 0  BY <1>1, <1>3
    <3> QED BY <3>1, <1>1, ModSame
  <2> QED BY <2>1, <2>2 DEF r
<1> QED BY <1>1, <1>2, <1>3

\* Masking a cursor after it wrapped at a multiple of the capacity.
LEMMA ModOfMultiple ==
  ASSUME NEW n \in Nat \ {0}, NEW k \in Int, NEW w \in Nat \ {0}, w = n * k, NEW a \in Int
  PROVE (a % w) % n = a % n
<1> DEFINE q == a \div w  r == a % w  p == r \div n  s == r % n
<1>1. a = w * q + r /\ q \in Int /\ r \in Int
  <2>1. a = (w * (a \div w)) + (a % w) /\ a \div w \in Int
    BY DivMod
  <2>2. a % w \in 0 .. w - 1
    BY ModRange
  <2> QED BY <2>1, <2>2
<1>2. r = n * p + s /\ p \in Int /\ s \in 0..n-1
  BY <1>1, DivMod, ModRange
<1> HIDE DEF q, r, p, s
<1>3. a = n * (k * q + p) + s
  BY <1>1, <1>2
<1>4. a % n = s
  BY <1>3, <1>1, <1>2, ModSame
<1> QED BY <1>4 DEF s, r

\* Multiples of the capacity do not change the slot.
LEMMA ModDropMultiple ==
  ASSUME NEW n \in Nat \ {0}, NEW z \in Int, NEW y \in Int
  PROVE (n * z + y) % n = y % n
<1> DEFINE p == y \div n  s == y % n
<1>1. y = n * p + s /\ p \in Int /\ s \in 0 .. n-1
  BY DivMod, ModRange
<1> HIDE DEF p, s
<1>2. n * z + y = n * (z + p) + s
  BY <1>1
<1>3. (n * z + y) % n = s
  BY <1>1, <1>2, ModSame
<1> QED BY <1>3 DEF s

\* The slot at an offset from a wrapped cursor.
LEMMA ModAddMultiple ==
  ASSUME NEW n \in Nat \ {0}, NEW k \in Int, NEW w \in Nat \ {0}, w = n * k,
         NEW a \in Int, NEW b \in Int
  PROVE ((a % w) + b) % n = (a + b) % n
<1> DEFINE q == a \div w  r == a % w
<1>1. a = w * q + r /\ q \in Int /\ r \in Int
  <2>1. a = (w * (a \div w)) + (a % w) /\ a \div w \in Int
    BY DivMod
  <2>2. a % w \in 0 .. w - 1
    BY ModRange
  <2> QED BY <2>1, <2>2
<1> HIDE DEF q, r
<1>2. a + b = n * (k * q) + (r + b) /\ k * q \in Int /\ r + b \in Int
  BY <1>1
<1>3. (n * (k * q) + (r + b)) % n = (r + b) % n
  BY <1>2, ModDropMultiple, Zenon
<1> QED BY <1>2, <1>3 DEF r

\* The cursor at an offset from a wrapped cursor.
LEMMA ModAdd ==
  ASSUME NEW n \in Nat \ {0}, NEW a \in Int, NEW b \in Int
  PROVE ((a % n) + b) % n = (a + b) % n
<1>1. n = n * 1 /\ 1 \in Int
  OBVIOUS
<1> QED BY <1>1, ModAddMultiple, Zenon

----------------------------------------------------------------------------
(* Parts of sequences *)

(* A sequence is its first n cells and the rest. *)
LEMMA Split ==
    ASSUME NEW S, NEW s \in Seq(S), NEW n \in 0 .. Len(s)
    PROVE  /\ SubSeq(s, 1, n) \in Seq(S) /\ SubSeq(s, n + 1, Len(s)) \in Seq(S)
           /\ s = SubSeq(s, 1, n) \o SubSeq(s, n + 1, Len(s))
           /\ Len(SubSeq(s, 1, n)) = n
<1>1. SubSeq(s, 1, n) \in Seq(S) /\ SubSeq(s, n + 1, Len(s)) \in Seq(S)
      /\ Len(SubSeq(s, 1, n)) = n
  BY SubSeqProperties
<1>2. SubSeq(s, 1, n) \o SubSeq(s, n + 1, Len(s)) = SubSeq(s, 1, Len(s))
  <2>1. 1 \in 1 .. Len(s) + 1 /\ n \in 1 - 1 .. Len(s) /\ Len(s) \in n .. Len(s)
    BY LenProperties
  <2> QED BY <2>1, ConcatAdjacentSubSeq
<1> QED BY <1>1, <1>2, SubSeqFull

(* Appending two parts one after the other appends the whole. *)
LEMMA Regroup ==
    ASSUME NEW S, NEW a \in Seq(S), NEW b \in Seq(S), NEW c \in Seq(S), NEW h
    PROVE  h = b \o c => (a \o b) \o c = a \o h
<1>1. (a \o b) \o c = a \o (b \o c)
  BY ConcatAssociative
<1> QED BY <1>1

(* Cells that move from the head of b to the tail of a stay where they are *)
(* in the whole.                                                           *)
LEMMA Shift ==
    ASSUME NEW S, NEW a \in Seq(S), NEW b \in Seq(S), NEW n \in 0 .. Len(b)
    PROVE  (a \o SubSeq(b, 1, n)) \o SubSeq(b, n + 1, Len(b)) = a \o b
<1>1. ASSUME NEW x \in Seq(S), NEW y \in Seq(S) PROVE (a \o x) \o y = a \o (x \o y)
  BY ConcatAssociative, SMTT(30)
<1>2. /\ SubSeq(b, 1, n) \in Seq(S) /\ SubSeq(b, n + 1, Len(b)) \in Seq(S)
      /\ b = SubSeq(b, 1, n) \o SubSeq(b, n + 1, Len(b))
  BY Split
<1>3. \A x, y, z : z = x \o y => a \o (x \o y) = a \o z
  OBVIOUS
<1>4. \A x, y \in Seq(S) : b = x \o y => (a \o x) \o y = a \o b
  BY <1>1, <1>3, SMTT(30)
<1> QED BY <1>2, <1>4, Zenon

(* What was there before an append is still there. *)
LEMMA SliceOfConcat ==
    ASSUME NEW S, NEW a \in Seq(S), NEW b \in Seq(S), NEW m \in Nat, NEW n \in 0 .. Len(a)
    PROVE  SubSeq(a \o b, m + 1, n) = SubSeq(a, m + 1, n)
<1>1. /\ a \o b \in Seq(S) /\ Len(a \o b) = Len(a) + Len(b)
      /\ \A i \in 1 .. Len(a) : (a \o b)[i] = a[i]
  BY ConcatProperties
<1> DEFINE c == a \o b
<1> HIDE DEF c
<1>2. \A i \in 1 .. Len(a) : c[i] = a[i]
  BY <1>1 DEF c
<1>3. SubSeq(c, m + 1, n) = [i \in 1 .. 1 + n - (m + 1) |-> c[(m + 1) + i - 1]]
  OBVIOUS
<1>4. SubSeq(a, m + 1, n) = [i \in 1 .. 1 + n - (m + 1) |-> a[(m + 1) + i - 1]]
  OBVIOUS
<1>5. \A i \in 1 .. 1 + n - (m + 1) : (m + 1) + i - 1 \in 1 .. Len(a)
  BY LenProperties
<1>6. SubSeq(c, m + 1, n) = SubSeq(a, m + 1, n)
  BY <1>2, <1>3, <1>4, <1>5
<1> QED BY <1>6 DEF c

(* The end of the whole is the end of what was there and what was added. *)
LEMMA EndOfConcat ==
    ASSUME NEW S, NEW a \in Seq(S), NEW b \in Seq(S), NEW m \in 0 .. Len(a)
    PROVE  SubSeq(a \o b, m + 1, Len(a \o b)) = SubSeq(a, m + 1, Len(a)) \o b
<1> DEFINE c == a \o b
           p == SubSeq(a, m + 1, Len(a))
           q == p \o b
<1>0. Len(a) \in Nat /\ Len(b) \in Nat
  BY LenProperties
<1>1. /\ c \in Seq(S) /\ Len(c) = Len(a) + Len(b)
      /\ \A i \in 1 .. Len(a) + Len(b) : c[i] = IF i <= Len(a) THEN a[i] ELSE b[i - Len(a)]
  BY ConcatProperties
<1>2. p \in Seq(S)
  BY Split
<1>3. p = [i \in 1 .. Len(a) - m |-> a[m + i]] /\ Len(p) = Len(a) - m
  <2>1. p = [i \in 1 .. 1 + Len(a) - (m + 1) |-> a[(m + 1) + i - 1]]
    OBVIOUS
  <2>2. 1 + Len(a) - (m + 1) = Len(a) - m /\ \A i \in Nat : (m + 1) + i - 1 = m + i
    BY <1>0
  <2>3. p = [i \in 1 .. Len(a) - m |-> a[m + i]]
    BY <2>1, <2>2
  <2>4. Len(a) - m \in Nat
    BY <1>0
  <2> HIDE DEF p
  <2> QED BY <1>2, <2>3, <2>4, LenProperties
<1> HIDE DEF p
<1>4. /\ q \in Seq(S) /\ Len(q) = Len(p) + Len(b)
      /\ \A i \in 1 .. Len(p) + Len(b) : q[i] = IF i <= Len(p) THEN p[i] ELSE b[i - Len(p)]
  BY <1>2, ConcatProperties
<1> HIDE DEF q, c
<1>5. SubSeq(c, m + 1, Len(c)) = [i \in 1 .. Len(q) |-> c[m + i]]
  <2>1. SubSeq(c, m + 1, Len(c)) = [i \in 1 .. 1 + Len(c) - (m + 1) |-> c[(m + 1) + i - 1]]
    OBVIOUS
  <2>2. 1 + Len(c) - (m + 1) = Len(q) /\ \A i \in Nat : (m + 1) + i - 1 = m + i
    BY <1>0, <1>1, <1>3, <1>4
  <2> QED BY <2>1, <2>2
<1>6. q = [i \in 1 .. Len(q) |-> q[i]]
  BY <1>4, LenProperties
<1>7. ASSUME NEW i \in 1 .. Len(q) PROVE c[m + i] = q[i]
  <2>1. m + i \in 1 .. Len(a) + Len(b) /\ i \in 1 .. Len(p) + Len(b)
    BY <1>0, <1>3, <1>4
  <2>2. CASE i <= Len(p)
    <3>1. m + i <= Len(a) /\ i \in 1 .. Len(a) - m
      BY <1>0, <1>3, <2>2
    <3>2. q[i] = p[i] /\ c[m + i] = a[m + i]
      BY <1>1, <1>4, <2>1, <2>2, <3>1
    <3> QED BY <1>3, <3>1, <3>2
  <2>3. CASE ~(i <= Len(p))
    <3>1. ~(m + i <= Len(a)) /\ (m + i) - Len(a) = i - Len(p)
      BY <1>0, <1>3, <2>3
    <3> QED BY <1>1, <1>4, <2>1, <2>3, <3>1
  <2> QED BY <2>2, <2>3
<1>8. SubSeq(c, m + 1, Len(c)) = q
  BY <1>5, <1>6, <1>7
<1> QED BY <1>8 DEF c, p, q

(* What was there before an append comes first. *)
LEMMA PrefixOfConcat ==
    ASSUME NEW S, NEW a \in Seq(S), NEW b \in Seq(S)
    PROVE  SubSeq(a \o b, 1, Len(a)) = a
<1>1. SubSeq(a \o b, 0 + 1, Len(a)) = SubSeq(a, 0 + 1, Len(a))
  BY SliceOfConcat, LenProperties
<1> QED BY <1>1, SubSeqFull

(* What SubSeq is. *)
LEMMA SubSeqIs ==
    ASSUME NEW s, NEW a \in Nat, NEW b \in Nat
    PROVE  SubSeq(s, a, b) = [i \in 1 .. 1 + b - a |-> s[a + i - 1]]
OBVIOUS

(* The end of the end of a sequence is an end of it. *)
LEMMA EndOfEnd ==
    ASSUME NEW S, NEW t \in Seq(S), NEW m \in 0 .. Len(t), NEW e \in 0 .. Len(t) - m,
           NEW d, d = SubSeq(t, m + 1, Len(t))
    PROVE  /\ d \in Seq(S) /\ Len(d) = Len(t) - m
           /\ \A i \in 1 .. Len(t) - m : d[i] = t[m + i]
           /\ SubSeq(d, e + 1, Len(d)) = SubSeq(t, m + e + 1, Len(t))
<1>0. Len(t) \in Nat /\ Len(t) - m \in Nat
  BY LenProperties
<1>1. d \in Seq(S)
  BY Split
<1>2. d = [i \in 1 .. Len(t) - m |-> t[m + i]]
  <2>1. d = [i \in 1 .. 1 + Len(t) - (m + 1) |-> t[(m + 1) + i - 1]]
    OBVIOUS
  <2>2. 1 + Len(t) - (m + 1) = Len(t) - m /\ \A i \in Nat : (m + 1) + i - 1 = m + i
    BY <1>0
  <2> QED BY <2>1, <2>2
<1>3. Len(d) = Len(t) - m
  BY <1>0, <1>1, <1>2, LenProperties
<1>4. \A i \in 1 .. Len(t) - m : d[i] = t[m + i]
  BY <1>2
<1>5. SubSeq(d, e + 1, Len(d)) = [i \in 1 .. 1 + Len(d) - (e + 1) |-> d[(e + 1) + i - 1]]
  <2>1. e + 1 \in Nat /\ Len(d) \in Nat
    BY <1>0, <1>3
  <2> QED BY <2>1, SubSeqIs
<1>6. SubSeq(t, m + e + 1, Len(t)) = [i \in 1 .. 1 + Len(t) - (m + e + 1) |-> t[(m + e + 1) + i - 1]]
  OBVIOUS
<1>7. 1 + Len(d) - (e + 1) = 1 + Len(t) - (m + e + 1)
  BY <1>0, <1>3
<1>8. ASSUME NEW i \in 1 .. 1 + Len(d) - (e + 1)
      PROVE  d[(e + 1) + i - 1] = t[(m + e + 1) + i - 1]
  <2>1. (e + 1) + i - 1 \in 1 .. Len(t) - m /\ m + ((e + 1) + i - 1) = (m + e + 1) + i - 1
    BY <1>0, <1>3
  <2> QED BY <1>4, <2>1
<1> QED BY <1>1, <1>3, <1>4, <1>5, <1>6, <1>7, <1>8
====
