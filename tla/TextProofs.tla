---- MODULE TextProofs ----
(***************************************************************************)
(* Proofs about the operators on byte strings, for every string, every     *)
(* processor and every block width: the scan for a byte to escape, the     *)
(* matching of redacted keys, UTF-8 validation, sums of lengths, and the   *)
(* bounded buffer of the encoders with the pieces they put into it.        *)
(*                                                                         *)
(* The loops work in blocks, by recursive functions or by folds.  What     *)
(* they compute is shown without the induction theorems of the library: a  *)
(* function that satisfies the recursive equation is given explicitly or   *)
(* shown to exist, and a least or a last position where loop and reference *)
(* differ is shown not to exist.                                           *)
(***************************************************************************)
EXTENDS Utf8, Redact, Rfc5424, ArithmeticAndSequences, SequenceTheorems, FiniteSetTheorems,
        WellFoundedInduction, TLAPS

----------------------------------------------------------------------------
(* The scans that work in blocks *)

(* A set of naturals that is not empty has a least element. *)
LEMMA LeastIs ==
    ASSUME NEW S \in SUBSET Nat, S # {}
    PROVE  Min(S) \in S /\ \A y \in S : Min(S) <= y
<1> DEFINE less == {p \in Nat \X Nat : p[1] < p[2]}
           m == Min(S)
<1>1. IsWellFoundedOn(less, Nat)
  BY NatLessThanWellFounded, Zenon DEF OpToRel
<1>2. \E x \in S : \A y \in S : ~(<<y, x>> \in less)
  <2> HIDE DEF less
  <2> QED BY <1>1, WFMin
<1>3. \A x, y \in Nat : y < x => <<y, x>> \in less
  OBVIOUS
<1>4. m = CHOOSE x \in S : \A y \in S : x =< y
  BY DEF Min
<1> HIDE DEF m, less
<1>5. \E x \in S : \A y \in S : x <= y
  <2>1. PICK x \in S : \A y \in S : ~(<<y, x>> \in less)
    BY <1>2
  <2>2. ASSUME NEW y \in S PROVE x <= y
    <3>1. ~(y < x) /\ x \in Nat /\ y \in Nat
      BY <1>3, <2>1
    <3> QED BY <3>1
  <2> QED BY <2>2
<1>6. m \in S /\ \A y \in S : m <= y
  BY <1>4, <1>5
<1> QED BY <1>6 DEF m

\* n bytes of s come before the first one in T.
IsFirst(s, n, T) ==
    /\ n \in 0 .. Len(s)
    /\ \A k \in 1 .. n : s[k] \notin T
    /\ n < Len(s) => s[n + 1] \in T

(* There is only one such n. *)
LEMMA FirstUnique ==
    ASSUME NEW s, Len(s) \in Nat, NEW T, NEW m, NEW n, IsFirst(s, m, T), IsFirst(s, n, T)
    PROVE  m = n
<1>1. m \in Nat /\ n \in Nat /\ m <= Len(s) /\ n <= Len(s)
  BY DEF IsFirst
<1>2. CASE m < n
  <2>1. m + 1 \in 1 .. n /\ m < Len(s)
    BY <1>1, <1>2
  <2> QED BY <2>1 DEF IsFirst
<1>3. CASE n < m
  <2>1. n + 1 \in 1 .. m /\ n < Len(s)
    BY <1>1, <1>3
  <2> QED BY <2>1 DEF IsFirst
<1> QED BY <1>1, <1>2, <1>3

(* Before finds it. *)
LEMMA LeastIsFirst ==
    ASSUME NEW s, s \in Seq(Byte), NEW T,
           NEW n, n = Min({k - 1 : k \in {j \in DOMAIN s : s[j] \in T}} \cup {Len(s)})
    PROVE  IsFirst(s, n, T)
<1> DEFINE S == {k - 1 : k \in {j \in DOMAIN s : s[j] \in T}} \cup {Len(s)}
<1>1. Len(s) \in Nat /\ DOMAIN s = 1 .. Len(s)
  BY LenProperties
<1>2. S \in SUBSET (0 .. Len(s)) /\ S # {} /\ Len(s) \in S
  BY <1>1
<1>3. \A k \in 1 .. Len(s) : s[k] \in T => k - 1 \in S
  BY <1>1
<1>4. \A m \in S : m < Len(s) => s[m + 1] \in T
  BY <1>1
<1> HIDE DEF S
<1>5. S \in SUBSET Nat
  BY <1>1, <1>2
<1>6. n \in S /\ \A y \in S : n <= y
  BY <1>2, <1>5, LeastIs DEF S
<1>7. ASSUME NEW k \in 1 .. n PROVE s[k] \notin T
  <2>1. k \in 1 .. Len(s) /\ ~(n <= k - 1)
    BY <1>1, <1>2, <1>6
  <2> QED BY <1>3, <1>6, <2>1
<1> QED BY <1>2, <1>4, <1>6, <1>7 DEF IsFirst

(* The comparisons of all three variants find what RFC 8259 lists. *)
LEMMA SpecialIs ==
    ASSUME NEW c \in Byte
    PROVE  (Special(c) <=> c \in MustEscape) /\ (MaskBit(c) <=> c \in MustEscape)
<1>1. Special(c) <=> c \in MustEscape
  BY DEF Special, MustEscape, Byte, Backslash, Quote, Lf, Cr, Tab
<1>2. Control(c) <=> c < 32
  BY DEF Control, Byte
<1>3. MaskBit(c) <=> c \in MustEscape
  BY <1>2 DEF MaskBit, MustEscape, Byte, Backslash, Quote, Lf, Cr, Tab
<1> QED BY <1>1, <1>3

(* The scalar scan. *)
LEMMA ScalarFirst ==
    ASSUME NEW s \in Seq(Byte)
    PROVE  /\ IsFirst(s, json_escape_scalar_find_first_special(s), MustEscape)
           /\ IsFirst(s, Before(s, MaskBit), MustEscape)
<1>1. \A j \in DOMAIN s : s[j] \in Byte
  OBVIOUS
<1>2. /\ {j \in DOMAIN s : Special(s[j])} = {j \in DOMAIN s : s[j] \in MustEscape}
      /\ {j \in DOMAIN s : MaskBit(s[j])} = {j \in DOMAIN s : s[j] \in MustEscape}
  BY <1>1, SpecialIs
<1> DEFINE n == Min({k - 1 : k \in {j \in DOMAIN s : s[j] \in MustEscape}} \cup {Len(s)})
<1>3. json_escape_scalar_find_first_special(s) = n /\ Before(s, MaskBit) = n
  BY <1>2 DEF json_escape_scalar_find_first_special, Before
<1>4. IsFirst(s, n, MustEscape)
  BY LeastIsFirst
<1> QED BY <1>3, <1>4

(* What is found in a part of s that has nothing before it is found in s. *)
LEMMA FirstInPart ==
    ASSUME NEW s \in Seq(Byte), NEW T, NEW from \in 0 .. Len(s), NEW m \in from .. Len(s),
           \A k \in 1 .. from : s[k] \notin T,
           NEW r, r = SubSeq(s, from + 1, m), NEW b, IsFirst(r, b, T),
           m = Len(s) \/ \E k \in from + 1 .. m : s[k] \in T
    PROVE  IsFirst(s, from + b, T)
<1>1. Len(s) \in Nat /\ from \in Nat /\ m \in Nat /\ from <= m /\ m <= Len(s)
  BY LenProperties
<1>2. Len(r) = m - from /\ \A k \in 1 .. m - from : r[k] = s[from + k]
  <2>1. r = [k \in 1 .. 1 + m - (from + 1) |-> s[(from + 1) + k - 1]]
    BY <1>1, SubSeqIs
  <2>2. 1 + m - (from + 1) = m - from /\ m - from \in Nat /\ \A k \in Nat : (from + 1) + k - 1 = from + k
    BY <1>1
  <2>3. r = [k \in 1 .. m - from |-> s[from + k]]
    BY <2>1, <2>2
  <2>4. r \in Seq(Byte)
    <3>1. \A k \in 1 .. m - from : s[from + k] \in Byte
      BY <1>1
    <3>2. r \in [1 .. m - from -> Byte]
      BY <2>3, <3>1
    <3>3. \A n \in Nat : [1 .. n -> Byte] \subseteq Seq(Byte)
      OBVIOUS
    <3> QED BY <2>2, <3>2, <3>3
  <2> QED BY <2>2, <2>3, <2>4, LenProperties
<1>3. b \in 0 .. m - from /\ (\A k \in 1 .. b : s[from + k] \notin T) /\ (b < m - from => s[from + b + 1] \in T)
  <2>1. b \in 0 .. m - from
    BY <1>2 DEF IsFirst
  <2>2. ASSUME NEW k \in 1 .. b PROVE s[from + k] \notin T
    <3>1. k \in 1 .. m - from /\ r[k] \notin T
      BY <1>1, <2>1 DEF IsFirst
    <3> QED BY <1>2, <3>1
  <2>3. ASSUME b < m - from PROVE s[from + b + 1] \in T
    <3>1. b + 1 \in 1 .. m - from /\ from + (b + 1) = from + b + 1
      BY <1>1, <2>1, <2>3
    <3> QED BY <1>2, <2>3, <3>1 DEF IsFirst
  <2> QED BY <2>1, <2>2, <2>3
<1>4. from + b \in 0 .. Len(s)
  BY <1>1, <1>3
<1>5. ASSUME NEW k \in 1 .. from + b PROVE s[k] \notin T
  <2>1. CASE k \in 1 .. from
    BY <2>1
  <2>2. CASE k \notin 1 .. from
    <3>1. k - from \in 1 .. b /\ from + (k - from) = k
      BY <1>1, <1>3, <2>2
    <3> QED BY <1>3, <3>1
  <2> QED BY <2>1, <2>2
<1>6. ASSUME from + b < Len(s) PROVE s[from + b + 1] \in T
  <2>1. CASE b < m - from
    BY <1>3, <2>1
  <2>2. CASE b = m - from
    <3>1. m # Len(s)
      BY <1>1, <1>6, <2>2
    <3>2. PICK k \in from + 1 .. m : s[k] \in T
      BY <3>1
    <3>3. k - from \in 1 .. b /\ from + (k - from) = k
      BY <1>1, <2>2
    <3> QED BY <1>3, <3>2, <3>3
  <2> QED BY <1>1, <1>3, <2>1, <2>2
<1> QED BY <1>4, <1>5, <1>6 DEF IsFirst

(* Whole blocks lie in the text. *)
LEMMA BlockBound ==
    ASSUME NEW len \in Nat, NEW w \in Nat \ {0}, NEW c, c = len \div w
    PROVE  /\ c \in Nat /\ c * w <= len
           /\ \A n \in 0 .. c : n * w \in 0 .. len
           /\ \A n \in 0 .. c - 1 : (n + 1) * w \in n * w .. len /\ (n + 1) * w = n * w + w
<1>1. len = (w * c) + (len % w) /\ c \in Int /\ len % w \in 0 .. w - 1
  BY DivMod, ModRange
<1> DEFINE r == len % w
<1>2. r \in 0 .. w - 1 /\ len = w * c + r
  BY <1>1
<1> HIDE DEF r
<1>3. c \in Nat
  BY <1>1, <1>2
<1>4. c * w <= len
  BY <1>2, <1>3
<1>5. ASSUME NEW n \in 0 .. c PROVE n * w \in Nat /\ n * w <= c * w
  BY <1>3
<1>6. ASSUME NEW n \in 0 .. c - 1 PROVE (n + 1) * w = n * w + w
  BY <1>3
<1>7. ASSUME NEW n \in 0 .. c PROVE n * w \in 0 .. len
  <2> DEFINE x == n * w
             y == c * w
  <2>1. x \in Nat /\ x <= y /\ y \in Nat /\ y <= len
    BY <1>3, <1>4, <1>5
  <2> HIDE DEF x, y
  <2>2. x \in 0 .. len
    BY <2>1
  <2> QED BY <2>2 DEF x
<1>8. ASSUME NEW n \in 0 .. c - 1 PROVE (n + 1) * w \in n * w .. len
  <2> DEFINE x == n * w
             y == (n + 1) * w
  <2>1. n + 1 \in 0 .. c /\ n \in 0 .. c
    BY <1>3
  <2>2. x \in Nat /\ y = x + w /\ y \in 0 .. len
    BY <1>6, <1>7, <2>1
  <2> HIDE DEF x, y
  <2>3. y \in x .. len
    BY <2>2
  <2> QED BY <2>3 DEF x, y
<1> QED BY <1>3, <1>4, <1>6, <1>7, <1>8

\* The block at which a block loop stops that looks for a byte of T.
FirstWith(s, w, T) ==
    Min({m \in 0 .. BlockCount(s, w) - 1 : \E j \in 1 .. w : s[m * w + j] \in T}
          \cup {BlockCount(s, w)})
Stopped(s, w, T, c, n) ==
    /\ n \in 0 .. c /\ c \in Nat
    /\ \A k \in 1 .. n * w : s[k] \notin T
    /\ n < c => \E k \in n * w + 1 .. (n + 1) * w : s[k] \in T

(* There is no byte of T before it, and one in it unless it is the rest.   *)
LEMMA BlockFirst ==
    ASSUME NEW s \in Seq(Byte), NEW w \in Nat \ {0}, NEW T, NEW c, c = BlockCount(s, w),
           NEW n, n = FirstWith(s, w, T)
    PROVE  Stopped(s, w, T, c, n)
<1> DEFINE S == {m \in 0 .. c - 1 : \E j \in 1 .. w : s[m * w + j] \in T} \cup {c}
<1>1. c \in Nat
  BY BlockBound, LenProperties DEF BlockCount
<1>2. S \in SUBSET (0 .. c) /\ S # {}
  BY <1>1
<1>3. \A m \in 0 .. c - 1 : m \in S <=> \E j \in 1 .. w : s[m * w + j] \in T
  <2>1. \A m \in 0 .. c - 1 : m # c
    BY <1>1
  <2> QED BY <2>1, Zenon
<1> HIDE DEF S
<1>4. S \in SUBSET Nat
  BY <1>1, <1>2
<1>5. n \in S /\ \A y \in S : n <= y
  <2>1. n = Min(S)
    BY DEF S, FirstWith
  <2> QED BY <1>2, <1>4, <2>1, LeastIs
<1>6. n \in 0 .. c /\ n \in Nat
  BY <1>1, <1>2, <1>5
<1>7. ASSUME NEW k \in 1 .. n * w PROVE s[k] \notin T
  <2> DEFINE m == (k - 1) \div w
             j == (k - 1) % w
  <2>0. n * w \in Nat /\ k \in Nat /\ k >= 1 /\ k <= n * w
    BY <1>6
  <2>1. k - 1 = (w * m) + j /\ m \in Int /\ j \in 0 .. w - 1
    <3>1. k - 1 \in Int
      BY <2>0
    <3> QED BY <3>1, DivMod, ModRange
  <2> HIDE DEF m, j
  <2>2. m >= 0
    <3>1. CASE m <= -1
      <4>1. w * m <= -w
        BY <2>1, <3>1
      <4> QED BY <2>0, <2>1, <4>1
    <3> QED BY <2>1, <3>1
  <2>3. m < n
    <3>1. CASE m >= n
      <4>1. w * m >= n * w
        BY <1>6, <2>1, <3>1
      <4> QED BY <2>0, <2>1, <4>1
    <3> QED BY <1>6, <2>1, <3>1
  <2>4. m \in 0 .. c - 1 /\ ~(n <= m)
    BY <1>1, <1>6, <2>1, <2>2, <2>3
  <2>5. m * w + (j + 1) = k /\ j + 1 \in 1 .. w
    <3>1. m * w = w * m /\ w * m \in Int
      BY <2>1
    <3> DEFINE p == w * m
    <3>2. k - 1 = p + j /\ p \in Int
      BY <2>1, <3>1
    <3> HIDE DEF p
    <3>3. p + (j + 1) = k
      BY <2>0, <2>1, <3>2
    <3> QED BY <2>1, <3>1, <3>3 DEF p
  <2> QED BY <1>3, <1>5, <2>4, <2>5
<1>8. ASSUME n < c PROVE \E k \in n * w + 1 .. (n + 1) * w : s[k] \in T
  <2>1. n \in 0 .. c - 1
    BY <1>1, <1>6, <1>8
  <2>2. PICK j \in 1 .. w : s[n * w + j] \in T
    BY <1>3, <1>5, <2>1
  <2> DEFINE x == n * w
             y == (n + 1) * w
  <2>3. x \in Nat /\ y = x + w
    BY <1>6
  <2> HIDE DEF x, y
  <2>4. x + j \in x + 1 .. y
    BY <2>3
  <2>5. s[x + j] \in T
    BY <2>2 DEF x
  <2> QED BY <2>4, <2>5 DEF x, y
<1> QED BY <1>1, <1>6, <1>7, <1>8 DEF Stopped

(* The vector variants find what the scalar one finds. *)
LEMMA BlocksFirst ==
    ASSUME NEW s \in Seq(Byte), NEW w \in Nat \ {0}, NEW T, NEW n, NEW from, NEW b, NEW c,
           c = BlockCount(s, w), n = FirstWith(s, w, T), from = n * w,
           n < c => IsFirst(BlockAt(s, w, n), b, T), ~(n < c) => IsFirst(From(s, from), b, T)
    PROVE  IsFirst(s, from + b, T)
<1>1. /\ n \in 0 .. c /\ c \in Nat
      /\ \A k \in 1 .. from : s[k] \notin T
      /\ n < c => \E k \in from + 1 .. (n + 1) * w : s[k] \in T
  <2>1. Stopped(s, w, T, c, n)
    BY BlockFirst, Zenon
  <2> QED BY <2>1 DEF Stopped
<1>2. Len(s) \in Nat
  BY LenProperties
<1>3. /\ \A m \in 0 .. c : m * w \in 0 .. Len(s)
      /\ \A m \in 0 .. c - 1 : (m + 1) * w \in m * w .. Len(s)
  <2>1. c = Len(s) \div w
    BY DEF BlockCount
  <2> QED BY <1>2, <2>1, BlockBound
<1>4. from \in 0 .. Len(s)
  BY <1>1, <1>3
<1>5. CASE n < c
  <2> DEFINE e == (n + 1) * w
             r == SubSeq(s, from + 1, e)
  <2>1. n \in 0 .. c - 1
    BY <1>1, <1>5
  <2>2. e \in from .. Len(s) /\ \E k \in from + 1 .. e : s[k] \in T
    BY <1>1, <1>3, <1>5, <2>1
  <2>3. IsFirst(r, b, T)
    BY <1>5 DEF BlockAt
  <2> HIDE DEF e
  <2> QED BY <1>1, <1>4, <2>2, <2>3, FirstInPart
<1>6. CASE ~(n < c)
  <2> DEFINE r == SubSeq(s, from + 1, Len(s))
  <2>1. IsFirst(r, b, T) /\ Len(s) \in from .. Len(s)
    BY <1>2, <1>4, <1>6 DEF From
  <2> QED BY <1>1, <1>4, <2>1, FirstInPart
<1> QED BY <1>5, <1>6

(* A part of a text is a text. *)
LEMMA PartIs ==
    ASSUME NEW s \in Seq(Byte), NEW from \in 0 .. Len(s), NEW m \in from .. Len(s)
    PROVE  SubSeq(s, from + 1, m) \in Seq(Byte)
<1>1. Len(s) \in Nat /\ from \in Nat /\ m \in Nat
  BY LenProperties
<1>2. \A k \in from + 1 .. m : s[k] \in Byte
  BY <1>1
<1> QED BY <1>1, <1>2, SubSeqProperties

(* Whatever the processor, whatever the width of a block and the minimum    *)
(* length, and wherever the blocks of the text begin, the scan for a byte   *)
(* that JSON escapes finds the first one that RFC 8259 lists.               *)
THEOREM EscapeScanExact ==
    ASSUME NEW cpu, NEW s \in Seq(Byte)
    PROVE  IsFirst(s, json_escape_find_first_special(cpu, s), MustEscape)
<1>0. Len(s) \in Nat /\ \A k \in 1 .. Len(s) : s[k] \in Byte
  BY LenProperties
<1>1. ASSUME NEW w \in Nat \ {0}
      PROVE  /\ FirstBlock(s, w, MaskBit) = FirstBlock(s, w, Special)
             /\ FirstBlock(s, w, Special) = FirstWith(s, w, MustEscape)
  <2> DEFINE c == BlockCount(s, w)
  <2>1. ASSUME NEW m \in 0 .. c - 1, NEW j \in 1 .. w
        PROVE  s[m * w + j] \in Byte
    <3>1. m * w \in Nat /\ m * w + w <= Len(s)
      <4> DEFINE y == (m + 1) * w
                 x == m * w
      <4>1. /\ \A k \in 0 .. c : k * w \in 0 .. Len(s)
            /\ \A k \in 0 .. c - 1 : (k + 1) * w \in k * w .. Len(s) /\ (k + 1) * w = k * w + w
            /\ c \in Nat
        BY <1>0, BlockBound DEF BlockCount
      <4>2. m \in 0 .. c
        BY <4>1
      <4>3. y \in x .. Len(s) /\ y = x + w /\ x \in 0 .. Len(s)
        BY <4>1, <4>2
      <4> HIDE DEF x, y
      <4>4. x \in Nat /\ x + w <= Len(s)
        BY <1>0, <4>3
      <4> QED BY <4>4 DEF x
    <3> DEFINE x == m * w
    <3>2. x \in Nat /\ x + w <= Len(s)
      BY <3>1
    <3> HIDE DEF x
    <3>3. x + j \in 1 .. Len(s)
      BY <1>0, <3>2
    <3> QED BY <1>0, <3>3 DEF x
  <2>2. \A m \in 0 .. c - 1 : \A j \in 1 .. w :
           /\ Special(s[m * w + j]) <=> s[m * w + j] \in MustEscape
           /\ MaskBit(s[m * w + j]) <=> s[m * w + j] \in MustEscape
    BY <2>1, SpecialIs
  <2>3. /\ {m \in 0 .. c - 1 : \E j \in 1 .. w : Special(s[m * w + j])}
             = {m \in 0 .. c - 1 : \E j \in 1 .. w : s[m * w + j] \in MustEscape}
        /\ {m \in 0 .. c - 1 : \E j \in 1 .. w : MaskBit(s[m * w + j])}
             = {m \in 0 .. c - 1 : \E j \in 1 .. w : s[m * w + j] \in MustEscape}
    BY <2>2
  <2> QED BY <2>3 DEF FirstBlock, FirstWith
<1>2. ASSUME NEW w \in Nat \ {0}, NEW n, n = FirstBlock(s, w, Special)
      PROVE  /\ n < BlockCount(s, w) => BlockAt(s, w, n) \in Seq(Byte)
             /\ From(s, n * w) \in Seq(Byte)
  <2> DEFINE c == BlockCount(s, w)
  <2>1. n = FirstWith(s, w, MustEscape)
    BY <1>1, <1>2
  <2>2. n \in 0 .. c /\ c \in Nat
    <3>1. Stopped(s, w, MustEscape, c, n)
      BY <2>1, BlockFirst, Zenon
    <3> QED BY <3>1 DEF Stopped
  <2>3. /\ n * w \in 0 .. Len(s)
        /\ n < c => (n + 1) * w \in n * w .. Len(s)
    <3>1. /\ \A m \in 0 .. c : m * w \in 0 .. Len(s)
          /\ \A m \in 0 .. c - 1 : (m + 1) * w \in m * w .. Len(s)
      <4>1. c = Len(s) \div w
        BY DEF BlockCount
      <4> HIDE DEF c
      <4> QED BY <1>0, <4>1, BlockBound
    <3>2. n < c => n \in 0 .. c - 1
      BY <2>2
    <3> QED BY <2>2, <3>1, <3>2
  <2>4. Len(s) \in n * w .. Len(s)
    <3> DEFINE x == n * w
    <3>1. x \in 0 .. Len(s)
      BY <2>3
    <3> HIDE DEF x
    <3>2. Len(s) \in x .. Len(s)
      BY <1>0, <3>1
    <3> QED BY <3>2 DEF x
  <2> QED BY <2>3, <2>4, PartIs DEF BlockAt, From
<1>3. IsFirst(s, json_escape_scalar_find_first_special(s), MustEscape)
  BY ScalarFirst
<1>4. IsFirst(s, json_escape_x86_avx2_find_first_special(s), MustEscape)
  <2> DEFINE w == Avx2Block
             c == BlockCount(s, w)
             n == FirstBlock(s, w, MaskBit)
             b == IF n < c THEN Before(BlockAt(s, w, n), MaskBit)
                  ELSE json_escape_scalar_find_first_special(From(s, n * w))
  <2>0. w \in Nat \ {0}
    BY SimdConstants
  <2>1. json_escape_x86_avx2_find_first_special(s) = n * w + b
    BY DEF json_escape_x86_avx2_find_first_special
  <2>2. n = FirstBlock(s, w, Special) /\ n = FirstWith(s, w, MustEscape)
    BY <1>1, <2>0
  <2>3. /\ n < c => IsFirst(BlockAt(s, w, n), b, MustEscape)
        /\ ~(n < c) => IsFirst(From(s, n * w), b, MustEscape)
    <3>1. /\ n < c => BlockAt(s, w, n) \in Seq(Byte)
          /\ From(s, n * w) \in Seq(Byte)
      BY <1>2, <2>0, <2>2
    <3>2. \A r \in Seq(Byte) : /\ IsFirst(r, Before(r, MaskBit), MustEscape)
                               /\ IsFirst(r, json_escape_scalar_find_first_special(r), MustEscape)
      BY ScalarFirst
    <3> HIDE DEF n, c, w
    <3> QED BY <3>1, <3>2
  <2> HIDE DEF n, c, w, b
  <2>4. IsFirst(s, n * w + b, MustEscape)
    BY <2>0, <2>2, <2>3, BlocksFirst DEF c
  <2> QED BY <2>1, <2>4
<1>5. IsFirst(s, json_escape_arm_neon_find_first_special(s), MustEscape)
  <2> DEFINE w == NeonBlock
             c == BlockCount(s, w)
             n == FirstBlock(s, w, Special)
             b == IF n < c THEN json_escape_scalar_find_first_special(BlockAt(s, w, n))
                  ELSE json_escape_scalar_find_first_special(From(s, n * w))
  <2>0. w \in Nat \ {0}
    BY SimdConstants
  <2>1. json_escape_arm_neon_find_first_special(s) = n * w + b
    BY DEF json_escape_arm_neon_find_first_special
  <2>2. n = FirstWith(s, w, MustEscape)
    BY <1>1, <2>0
  <2>3. /\ n < c => IsFirst(BlockAt(s, w, n), b, MustEscape)
        /\ ~(n < c) => IsFirst(From(s, n * w), b, MustEscape)
    <3>1. /\ n < c => BlockAt(s, w, n) \in Seq(Byte)
          /\ From(s, n * w) \in Seq(Byte)
      BY <1>2, <2>0
    <3>2. \A r \in Seq(Byte) : IsFirst(r, json_escape_scalar_find_first_special(r), MustEscape)
      BY ScalarFirst
    <3> HIDE DEF n, c, w
    <3> QED BY <3>1, <3>2
  <2> HIDE DEF n, c, w, b
  <2>4. IsFirst(s, n * w + b, MustEscape)
    BY <2>0, <2>2, <2>3, BlocksFirst DEF c
  <2> QED BY <2>1, <2>4
<1>6. json_escape_kind(cpu) \in {"AVX2", "NEON", "SCALAR"}
  BY DEF json_escape_kind
<1> QED BY <1>3, <1>4, <1>5, <1>6 DEF json_escape_find_first_special

\* r is what comes behind the first n bytes of s.
IsRest(r, s, n) ==
    /\ DOMAIN r = 1 .. Len(s) - n /\ Len(r) = Len(s) - n
    /\ \A k \in 1 .. Len(s) - n : r[k] = s[n + k]

(* What a vector loop leaves to the scalar one. *)
LEMMA RestIs ==
    ASSUME NEW s \in Seq(Byte), NEW n \in 0 .. Len(s), NEW r, r = From(s, n)
    PROVE  IsRest(r, s, n)
<1>1. Len(s) \in Nat /\ 0 \in 0 .. Len(s) - n
  BY LenProperties
<1>2. r = SubSeq(s, n + 1, Len(s))
  BY DEF From
<1>3. r \in Seq(Byte) /\ Len(r) = Len(s) - n /\ \A k \in 1 .. Len(s) - n : r[k] = s[n + k]
  BY <1>1, <1>2, EndOfEnd
<1> QED BY <1>3, LenProperties DEF IsRest

(* A text is its whole blocks and the rest. *)
LEMMA BlocksAndRest ==
    ASSUME NEW s \in Seq(Byte), NEW w \in Nat \ {0}, NEW n, n = BlockCount(s, w) * w
    PROVE  /\ n \in 0 .. Len(s) /\ Len(s) \in Nat
           /\ \A k \in 1 .. Len(s) : k \in 1 .. n \/ (k - n \in 1 .. Len(s) - n /\ n + (k - n) = k)
           /\ \A k \in 1 .. n : k \in 1 .. Len(s)
           /\ \A k \in 1 .. Len(s) - n : n + k \in 1 .. Len(s)
<1>1. Len(s) \in Nat
  BY LenProperties
<1>2. n \in 0 .. Len(s)
  <2> DEFINE c == BlockCount(s, w)
  <2>1. c = Len(s) \div w
    BY DEF BlockCount
  <2> HIDE DEF c
  <2>2. c \in Nat /\ \A m \in 0 .. c : m * w \in 0 .. Len(s)
    BY <1>1, <2>1, BlockBound
  <2>3. c \in 0 .. c
    BY <2>2
  <2> QED BY <2>2, <2>3 DEF c
<1> QED BY <1>1, <1>2

(* The search for a dot, in blocks of any width. *)
LEMMA HasDotExact ==
    ASSUME NEW s \in Seq(Byte), NEW w \in Nat \ {0}
    PROVE  HasDotBlocks(w, s) <=> redact_has_dot_scalar(s)
<1> DEFINE c == BlockCount(s, w)
           n == c * w
           f == FirstWith(s, w, {Dot})
           r == From(s, n)
<1>1. FirstBlock(s, w, LAMBDA x : x = Dot) = f
  BY DEF FirstBlock, FirstWith
<1>2. HasDotBlocks(w, s) <=> f < c \/ \E k \in DOMAIN r : r[k] = Dot
  BY <1>1 DEF HasDotBlocks, Rest, redact_has_dot_scalar
<1>3. /\ n \in 0 .. Len(s) /\ Len(s) \in Nat
      /\ \A k \in 1 .. Len(s) : k \in 1 .. n \/ (k - n \in 1 .. Len(s) - n /\ n + (k - n) = k)
      /\ \A k \in 1 .. n : k \in 1 .. Len(s)
      /\ \A k \in 1 .. Len(s) - n : n + k \in 1 .. Len(s)
  BY BlocksAndRest
<1>4. DOMAIN r = 1 .. Len(s) - n /\ \A k \in 1 .. Len(s) - n : r[k] = s[n + k]
  <2>1. IsRest(r, s, n)
    BY <1>3, RestIs, Zenon
  <2> QED BY <2>1 DEF IsRest
<1>5. Stopped(s, w, {Dot}, c, f)
  BY BlockFirst, Zenon
<1>6. /\ f \in 0 .. c /\ c \in Nat
      /\ \A k \in 1 .. f * w : s[k] # Dot
      /\ f < c => \E k \in f * w + 1 .. (f + 1) * w : s[k] = Dot
  BY <1>5 DEF Stopped
<1>7. DOMAIN s = 1 .. Len(s)
  OBVIOUS
<1>8. ASSUME f < c PROVE \E k \in 1 .. Len(s) : s[k] = Dot
  <2>1. PICK k \in f * w + 1 .. (f + 1) * w : s[k] = Dot
    BY <1>6, <1>8
  <2> DEFINE x == f * w
             y == (f + 1) * w
  <2>2. y \in x .. Len(s) /\ x \in 0 .. Len(s)
    <3>1. f \in 0 .. c - 1 /\ c = Len(s) \div w
      BY <1>6, <1>8 DEF BlockCount
    <3> HIDE DEF c, f
    <3> QED BY <1>3, <1>6, <3>1, BlockBound
  <2> HIDE DEF x, y
  <2>3. k \in 1 .. Len(s)
    <3>1. k \in x + 1 .. y
      BY DEF x, y
    <3> QED BY <1>3, <2>2, <3>1
  <2> QED BY <2>1, <2>3
<1>9. ASSUME ~(f < c) PROVE \A k \in 1 .. n : s[k] # Dot
  <2>1. f = c
    BY <1>6, <1>9
  <2> QED BY <1>6, <2>1
<1> HIDE DEF c, f, n, r
<1>10. ASSUME NEW k \in 1 .. Len(s), s[k] = Dot, ~(f < c) PROVE \E j \in DOMAIN r : r[j] = Dot
  BY <1>3, <1>4, <1>9, <1>10
<1>11. ASSUME NEW j \in DOMAIN r, r[j] = Dot PROVE \E k \in 1 .. Len(s) : s[k] = Dot
  BY <1>3, <1>4, <1>11
<1> QED BY <1>2, <1>7, <1>8, <1>10, <1>11 DEF redact_has_dot_scalar

(* The comparison of two keys, in blocks of any width, if the folding of a *)
(* byte is that of the C locale.                                           *)
LEMMA SameExact ==
    ASSUME NEW s \in Seq(Byte), NEW t \in Seq(Byte), NEW w \in Nat \ {0},
           NEW n, n = BlockCount(s, w) * w, Len(s) = Len(t)
    PROVE  redact_case_equal_scalar("C", s, t) <=>
             /\ \A k \in 1 .. n : tolower("C", s[k]) = tolower("C", t[k])
             /\ redact_case_equal_scalar("C", From(s, n), From(t, n))
<1> DEFINE same(k) == tolower("C", s[k]) = tolower("C", t[k])
           q == From(s, n)
           r == From(t, n)
<1>1. /\ n \in 0 .. Len(s) /\ Len(s) \in Nat
      /\ \A k \in 1 .. Len(s) : k \in 1 .. n \/ (k - n \in 1 .. Len(s) - n /\ n + (k - n) = k)
      /\ \A k \in 1 .. n : k \in 1 .. Len(s)
      /\ \A k \in 1 .. Len(s) - n : n + k \in 1 .. Len(s)
  BY BlocksAndRest
<1>2. /\ DOMAIN q = 1 .. Len(s) - n /\ Len(q) = Len(s) - n
      /\ \A k \in 1 .. Len(s) - n : q[k] = s[n + k]
  <2>1. IsRest(q, s, n)
    BY <1>1, RestIs, Zenon
  <2> QED BY <2>1 DEF IsRest
<1>3. /\ DOMAIN r = 1 .. Len(s) - n /\ Len(r) = Len(s) - n
      /\ \A k \in 1 .. Len(s) - n : r[k] = t[n + k]
  <2>1. IsRest(r, t, n)
    BY <1>1, RestIs, Zenon
  <2> QED BY <2>1 DEF IsRest
<1>4. redact_case_equal_scalar("C", s, t) <=> \A k \in 1 .. Len(s) : same(k)
  BY DEF redact_case_equal_scalar
<1> HIDE DEF q, r
<1>5. redact_case_equal_scalar("C", q, r) <=> \A k \in 1 .. Len(s) - n : same(n + k)
  <2>1. redact_case_equal_scalar("C", q, r) <=>
          \A k \in 1 .. Len(s) - n : tolower("C", q[k]) = tolower("C", r[k])
    BY <1>2, <1>3 DEF redact_case_equal_scalar
  <2>2. ASSUME NEW k \in 1 .. Len(s) - n
        PROVE  (tolower("C", q[k]) = tolower("C", r[k])) <=> same(n + k)
    <3>1. q[k] = s[n + k] /\ r[k] = t[n + k]
      BY <1>2, <1>3
    <3> QED BY <3>1
  <2> QED BY <2>1, <2>2
<1> HIDE DEF same
<1>6. (\A k \in 1 .. Len(s) : same(k)) <=>
         (\A k \in 1 .. n : same(k)) /\ (\A k \in 1 .. Len(s) - n : same(n + k))
  <2>1. ASSUME \A k \in 1 .. n : same(k), \A k \in 1 .. Len(s) - n : same(n + k),
               NEW k \in 1 .. Len(s)
        PROVE  same(k)
    <3>1. CASE k \in 1 .. n
      BY <2>1, <3>1
    <3>2. CASE k - n \in 1 .. Len(s) - n /\ n + (k - n) = k
      BY <2>1, <3>2
    <3> QED BY <1>1, <3>1, <3>2
  <2> QED BY <1>1, <2>1
<1> QED BY <1>4, <1>5, <1>6 DEF same, q, r

(* The vector variants of the key comparison and of the search for a dot    *)
(* give what the scalar ones give in the C locale, whatever the block width *)
(* and the place of block boundaries: the dispatch could select them.       *)
THEOREM RedactVariantsAgree ==
    ASSUME NEW s \in Seq(Byte), NEW t \in Seq(Byte)
    PROVE  /\ redact_has_dot_x86_avx2(s) <=> redact_has_dot_scalar(s)
           /\ redact_has_dot_arm_neon(s) <=> redact_has_dot_scalar(s)
           /\ redact_case_equal_x86_avx2("C", s, t) <=> redact_case_equal_scalar("C", s, t)
           /\ redact_case_equal_arm_neon("C", s, t) <=> redact_case_equal_scalar("C", s, t)
<1>0. Avx2Block \in Nat \ {0} /\ NeonBlock \in Nat \ {0}
  BY SimdConstants
<1>1. /\ redact_has_dot_x86_avx2(s) <=> redact_has_dot_scalar(s)
      /\ redact_has_dot_arm_neon(s) <=> redact_has_dot_scalar(s)
  BY <1>0, HasDotExact DEF redact_has_dot_x86_avx2, redact_has_dot_arm_neon
<1>2. ASSUME NEW c \in Byte
      PROVE  redact_lower_x86_avx2(c) = tolower("C", c) /\ redact_lower_arm_neon(c) = tolower("C", c)
  <2>1. redact_lower_arm_neon(c) = tolower("C", c)
    BY DEF redact_lower_arm_neon, tolower, Byte
  <2>2. redact_lower_x86_avx2(c) = tolower("C", c)
    BY DEF redact_lower_x86_avx2, Signed, tolower, Byte
  <2> QED BY <2>1, <2>2
<1>3. ASSUME Len(s) = Len(t), NEW w \in Nat \ {0}, NEW n, n = BlockCount(s, w) * w,
             NEW k \in 1 .. n
      PROVE  s[k] \in Byte /\ t[k] \in Byte
  <2>1. k \in 1 .. Len(s)
    BY <1>3, BlocksAndRest
  <2> QED BY <1>3, <2>1
<1>4. redact_case_equal_x86_avx2("C", s, t) <=> redact_case_equal_scalar("C", s, t)
  <2>1. CASE Len(s) # Len(t)
    BY <2>1 DEF redact_case_equal_x86_avx2, CaseEqualBlocks, redact_case_equal_scalar
  <2>2. CASE Len(s) = Len(t)
    <3> DEFINE n == BlockCount(s, Avx2Block) * Avx2Block
    <3>1. redact_case_equal_x86_avx2("C", s, t) <=>
             /\ \A k \in 1 .. n : redact_lower_x86_avx2(s[k]) = redact_lower_x86_avx2(t[k])
             /\ redact_case_equal_scalar("C", From(s, n), From(t, n))
      BY <2>2 DEF redact_case_equal_x86_avx2, CaseEqualBlocks
    <3>2. \A k \in 1 .. n : s[k] \in Byte /\ t[k] \in Byte
      BY <1>0, <1>3, <2>2
    <3>3. redact_case_equal_scalar("C", s, t) <=>
             /\ \A k \in 1 .. n : tolower("C", s[k]) = tolower("C", t[k])
             /\ redact_case_equal_scalar("C", From(s, n), From(t, n))
      BY <1>0, <2>2, SameExact
    <3> HIDE DEF n
    <3> QED BY <1>2, <3>1, <3>2, <3>3
  <2> QED BY <2>1, <2>2
<1>5. redact_case_equal_arm_neon("C", s, t) <=> redact_case_equal_scalar("C", s, t)
  <2>1. CASE Len(s) # Len(t)
    BY <2>1 DEF redact_case_equal_arm_neon, CaseEqualBlocks, redact_case_equal_scalar
  <2>2. CASE Len(s) = Len(t)
    <3> DEFINE n == BlockCount(s, NeonBlock) * NeonBlock
    <3>1. redact_case_equal_arm_neon("C", s, t) <=>
             /\ \A k \in 1 .. n : redact_lower_arm_neon(s[k]) = redact_lower_arm_neon(t[k])
             /\ redact_case_equal_scalar("C", From(s, n), From(t, n))
      BY <2>2 DEF redact_case_equal_arm_neon, CaseEqualBlocks
    <3>2. \A k \in 1 .. n : s[k] \in Byte /\ t[k] \in Byte
      BY <1>0, <1>3, <2>2
    <3>3. redact_case_equal_scalar("C", s, t) <=>
             /\ \A k \in 1 .. n : tolower("C", s[k]) = tolower("C", t[k])
             /\ redact_case_equal_scalar("C", From(s, n), From(t, n))
      BY <1>0, <2>2, SameExact
    <3> HIDE DEF n
    <3> QED BY <1>2, <3>1, <3>2, <3>3
  <2> QED BY <2>1, <2>2
<1> QED BY <1>1, <1>4, <1>5

----------------------------------------------------------------------------
(* The keys that name a secret *)

\* The key k is of the denylist and spelled as the bucket b says.
InBucket(k, b) ==
    /\ k \in Denylist /\ k \in Seq(KeyBytes) /\ Len(k) = b.len
    /\ b.first # << >> => b.first[1] = k[1]
    /\ k[1] \in 97 .. 122
    /\ b.len \in {13, 12, 11, 10, 8, 7, 6, 5}
RightBucket(b) == \A k \in b.keys : InBucket(k, b)

(* A bucket of keys with the length and the first letter of the bucket. *)
LEMMA BucketIs ==
    ASSUME NEW len \in {13, 12, 11, 10, 8, 7, 6, 5}, NEW x, NEW first \in {"", x}, NEW keys,
           \A t \in keys : <<t, len, x>> \in Spelling
    PROVE  RightBucket(Bucket(len, first, keys))
<1> DEFINE b == Bucket(len, first, keys)
<1>1. b.len = len /\ b.first = B(first) /\ b.keys = {B(t) : t \in keys}
  BY DEF Bucket
<1> HIDE DEF b
<1>2. ASSUME NEW t \in keys PROVE InBucket(B(t), b)
  <2>1. /\ B(t) \in Seq(KeyBytes) /\ Len(B(t)) = len
        /\ B(t)[1] = B(x)[1] /\ B(t)[1] \in 97 .. 122
    BY RedactLiterals
  <2>2. B(t) \in Denylist
    BY DEF Denylist, Spelling
  <2>3. b.first # << >> => first = x
    BY <1>1, RedactLiterals
  <2> QED BY <1>1, <2>1, <2>2, <2>3 DEF InBucket
<1> QED BY <1>1, <1>2 DEF b, RightBucket

(* The table: every key is in the right bucket. *)
LEMMA BucketsRight == \A b \in Buckets : RightBucket(b)
<1>1. RightBucket(Bucket(5, "", {"token"}))
  <2>1. \A t \in {"token"} : <<t, 5, "t">> \in Spelling
    BY DEF Spelling
  <2> QED BY <2>1, BucketIs
<1>2. RightBucket(Bucket(6, "a", {"apikey"}))
  <2>1. \A t \in {"apikey"} : <<t, 6, "a">> \in Spelling
    BY DEF Spelling
  <2> QED BY <2>1, BucketIs
<1>3. RightBucket(Bucket(6, "c", {"cookie"}))
  <2>1. \A t \in {"cookie"} : <<t, 6, "c">> \in Spelling
    BY DEF Spelling
  <2> QED BY <2>1, BucketIs
<1>4. RightBucket(Bucket(6, "p", {"passwd"}))
  <2>1. \A t \in {"passwd"} : <<t, 6, "p">> \in Spelling
    BY DEF Spelling
  <2> QED BY <2>1, BucketIs
<1>5. RightBucket(Bucket(6, "s", {"secret"}))
  <2>1. \A t \in {"secret"} : <<t, 6, "s">> \in Spelling
    BY DEF Spelling
  <2> QED BY <2>1, BucketIs
<1>6. RightBucket(Bucket(7, "a", {"api_key"}))
  <2>1. \A t \in {"api_key"} : <<t, 7, "a">> \in Spelling
    BY DEF Spelling
  <2> QED BY <2>1, BucketIs
<1>7. RightBucket(Bucket(7, "s", {"session"}))
  <2>1. \A t \in {"session"} : <<t, 7, "s">> \in Spelling
    BY DEF Spelling
  <2> QED BY <2>1, BucketIs
<1>8. RightBucket(Bucket(8, "i", {"id_token"}))
  <2>1. \A t \in {"id_token"} : <<t, 8, "i">> \in Spelling
    BY DEF Spelling
  <2> QED BY <2>1, BucketIs
<1>9. RightBucket(Bucket(8, "p", {"password"}))
  <2>1. \A t \in {"password"} : <<t, 8, "p">> \in Spelling
    BY DEF Spelling
  <2> QED BY <2>1, BucketIs
<1>10. RightBucket(Bucket(10, "p", {"passphrase"}))
  <2>1. \A t \in {"passphrase"} : <<t, 10, "p">> \in Spelling
    BY DEF Spelling
  <2> QED BY <2>1, BucketIs
<1>11. RightBucket(Bucket(10, "s", {"session_id", "set_cookie", "secret_key"}))
  <2>1. \A t \in {"session_id", "set_cookie", "secret_key"} : <<t, 10, "s">> \in Spelling
    BY DEF Spelling
  <2> QED BY <2>1, BucketIs
<1>12. RightBucket(Bucket(11, "p", {"private_key"}))
  <2>1. \A t \in {"private_key"} : <<t, 11, "p">> \in Spelling
    BY DEF Spelling
  <2> QED BY <2>1, BucketIs
<1>13. RightBucket(Bucket(11, "s", {"signing_key"}))
  <2>1. \A t \in {"signing_key"} : <<t, 11, "s">> \in Spelling
    BY DEF Spelling
  <2> QED BY <2>1, BucketIs
<1>14. RightBucket(Bucket(12, "", {"access_token"}))
  <2>1. \A t \in {"access_token"} : <<t, 12, "a">> \in Spelling
    BY DEF Spelling
  <2> QED BY <2>1, BucketIs
<1>15. RightBucket(Bucket(13, "a", {"authorization"}))
  <2>1. \A t \in {"authorization"} : <<t, 13, "a">> \in Spelling
    BY DEF Spelling
  <2> QED BY <2>1, BucketIs
<1>16. RightBucket(Bucket(13, "c", {"client_secret"}))
  <2>1. \A t \in {"client_secret"} : <<t, 13, "c">> \in Spelling
    BY DEF Spelling
  <2> QED BY <2>1, BucketIs
<1>17. RightBucket(Bucket(13, "r", {"refresh_token"}))
  <2>1. \A t \in {"refresh_token"} : <<t, 13, "r">> \in Spelling
    BY DEF Spelling
  <2> QED BY <2>1, BucketIs
<1> QED BY <1>1, <1>2, <1>3, <1>4, <1>5, <1>6, <1>7, <1>8, <1>9, <1>10, <1>11, <1>12, <1>13, <1>14, <1>15, <1>16, <1>17 DEF Buckets

\* The key t has a bucket.
HasBucket(t) == \E b \in Buckets : B(t) \in b.keys

(* The table is complete. *)
LEMMA BucketsComplete == \A k \in Denylist : \E b \in Buckets : k \in b.keys
<1>1. \A len, first, keys : Bucket(len, first, keys) \in Buckets => \A t \in keys : HasBucket(t)
  BY DEF Bucket, HasBucket
<1>2. HasBucket("token")
  <2>1. Bucket(5, "", {"token"}) \in Buckets
    BY DEF Buckets
  <2> QED BY <1>1, <2>1
<1>3. HasBucket("apikey")
  <2>1. Bucket(6, "a", {"apikey"}) \in Buckets
    BY DEF Buckets
  <2> QED BY <1>1, <2>1
<1>4. HasBucket("cookie")
  <2>1. Bucket(6, "c", {"cookie"}) \in Buckets
    BY DEF Buckets
  <2> QED BY <1>1, <2>1
<1>5. HasBucket("passwd")
  <2>1. Bucket(6, "p", {"passwd"}) \in Buckets
    BY DEF Buckets
  <2> QED BY <1>1, <2>1
<1>6. HasBucket("secret")
  <2>1. Bucket(6, "s", {"secret"}) \in Buckets
    BY DEF Buckets
  <2> QED BY <1>1, <2>1
<1>7. HasBucket("api_key")
  <2>1. Bucket(7, "a", {"api_key"}) \in Buckets
    BY DEF Buckets
  <2> QED BY <1>1, <2>1
<1>8. HasBucket("session")
  <2>1. Bucket(7, "s", {"session"}) \in Buckets
    BY DEF Buckets
  <2> QED BY <1>1, <2>1
<1>9. HasBucket("id_token")
  <2>1. Bucket(8, "i", {"id_token"}) \in Buckets
    BY DEF Buckets
  <2> QED BY <1>1, <2>1
<1>10. HasBucket("password")
  <2>1. Bucket(8, "p", {"password"}) \in Buckets
    BY DEF Buckets
  <2> QED BY <1>1, <2>1
<1>11. HasBucket("passphrase")
  <2>1. Bucket(10, "p", {"passphrase"}) \in Buckets
    BY DEF Buckets
  <2> QED BY <1>1, <2>1
<1>12. HasBucket("session_id") /\ HasBucket("set_cookie") /\ HasBucket("secret_key")
  <2>1. Bucket(10, "s", {"session_id", "set_cookie", "secret_key"}) \in Buckets
    BY DEF Buckets
  <2> QED BY <1>1, <2>1
<1>13. HasBucket("private_key")
  <2>1. Bucket(11, "p", {"private_key"}) \in Buckets
    BY DEF Buckets
  <2> QED BY <1>1, <2>1
<1>14. HasBucket("signing_key")
  <2>1. Bucket(11, "s", {"signing_key"}) \in Buckets
    BY DEF Buckets
  <2> QED BY <1>1, <2>1
<1>15. HasBucket("access_token")
  <2>1. Bucket(12, "", {"access_token"}) \in Buckets
    BY DEF Buckets
  <2> QED BY <1>1, <2>1
<1>16. HasBucket("authorization")
  <2>1. Bucket(13, "a", {"authorization"}) \in Buckets
    BY DEF Buckets
  <2> QED BY <1>1, <2>1
<1>17. HasBucket("client_secret")
  <2>1. Bucket(13, "c", {"client_secret"}) \in Buckets
    BY DEF Buckets
  <2> QED BY <1>1, <2>1
<1>18. HasBucket("refresh_token")
  <2>1. Bucket(13, "r", {"refresh_token"}) \in Buckets
    BY DEF Buckets
  <2> QED BY <1>1, <2>1
<1>19. \A k \in Denylist : \E t : k = B(t) /\ HasBucket(t)
  BY <1>2, <1>3, <1>4, <1>5, <1>6, <1>7, <1>8, <1>9, <1>10, <1>11, <1>12, <1>13, <1>14, <1>15, <1>16, <1>17, <1>18 DEF Denylist
<1> QED BY <1>19 DEF HasBucket

(* Comparing with a key in lower case is comparing the folded text. *)
LEMMA FoldedIs ==
    ASSUME NEW s \in Seq(Byte), NEW k \in Seq(KeyBytes)
    PROVE  redact_case_equal_scalar("C", s, k) <=> Folded(s) = k
<1>1. Len(s) \in Nat /\ DOMAIN s = 1 .. Len(s) /\ \A j \in DOMAIN s : s[j] \in Byte
  BY LenProperties
<1>2. Len(k) \in Nat /\ DOMAIN k = 1 .. Len(k) /\ \A j \in DOMAIN k : k[j] \in KeyBytes
  BY LenProperties
<1>3. DOMAIN Folded(s) = DOMAIN s /\ \A j \in DOMAIN s : Folded(s)[j] = tolower("C", s[j])
  BY DEF Folded, tolower
<1>4. \A c \in KeyBytes : tolower("C", c) = c
  BY DEF KeyBytes, tolower
<1>5. ASSUME redact_case_equal_scalar("C", s, k) PROVE Folded(s) = k
  <2>1. DOMAIN Folded(s) = DOMAIN k /\ \A j \in DOMAIN k : Folded(s)[j] = k[j]
    <3>1. Len(s) = Len(k) /\ \A j \in DOMAIN s : tolower("C", s[j]) = tolower("C", k[j])
      BY <1>5 DEF redact_case_equal_scalar
    <3> QED BY <1>1, <1>2, <1>3, <1>4, <3>1
  <2>2. Folded(s) = [j \in DOMAIN k |-> Folded(s)[j]]
    BY <1>3, <2>1 DEF Folded
  <2>3. k = [j \in DOMAIN k |-> k[j]]
    OBVIOUS
  <2> QED BY <2>1, <2>2, <2>3
<1>6. ASSUME Folded(s) = k PROVE redact_case_equal_scalar("C", s, k)
  <2>1. DOMAIN s = DOMAIN k /\ Len(s) = Len(k)
    <3>1. DOMAIN s = DOMAIN k
      BY <1>3, <1>6
    <3>2. \A m, n \in Nat : 1 .. m = 1 .. n => m = n
      <4>1. ASSUME NEW m \in Nat, NEW n \in Nat, 1 .. m = 1 .. n, m < n PROVE FALSE
        <5>1. n \in 1 .. n /\ n \notin 1 .. m
          BY <4>1
        <5> QED BY <4>1, <5>1
      <4>2. ASSUME NEW m \in Nat, NEW n \in Nat, 1 .. m = 1 .. n PROVE m = n
        <5>1. ~(m < n) /\ ~(n < m)
          BY <4>1, <4>2
        <5> QED BY <5>1
      <4> QED BY <4>2
    <3> QED BY <1>1, <1>2, <3>1, <3>2
  <2> QED BY <1>2, <1>3, <1>4, <1>6, <2>1 DEF redact_case_equal_scalar
<1> QED BY <1>5, <1>6

(* key[0] | 0x20 is the lower case of a letter. *)
LEMMA CaseBitIs ==
    ASSUME NEW c \in Byte
    PROVE  /\ c \in 65 .. 90 => CaseBit(c) = c + 32
           /\ c \in 97 .. 122 => CaseBit(c) = c
<1> DEFINE q == c \div 32
           r == c % 32
<1>1. c = 32 * q + r /\ q \in Int /\ r \in 0 .. 31 /\ c \in 0 .. 255
  <2>1. c \in Int /\ 32 \in Nat \ {0}
    BY DEF Byte
  <2> QED BY <2>1, DivMod, ModRange DEF Byte
<1>2. CaseBit(c) = IF q % 2 = 0 THEN c + 32 ELSE c
  BY DEF CaseBit
<1> HIDE DEF q, r
<1>3. c \in 65 .. 90 => q = 2
  BY <1>1
<1>4. c \in 97 .. 122 => q = 3
  BY <1>1
<1>5. 2 % 2 = 0 /\ 3 % 2 = 1
  OBVIOUS
<1> QED BY <1>2, <1>3, <1>4, <1>5

(* The table finds exactly the keys of the denylist. *)
LEMMA KnownExact ==
    ASSUME NEW s \in Seq(Byte)
    PROVE  /\ redact_match_known_key("C", s) <=> Folded(s) \in Denylist
           /\ Folded(s) \in Denylist => Len(s) \in {13, 12, 11, 10, 8, 7, 6, 5}
<1>1. ASSUME NEW b \in Buckets, NEW k \in b.keys
      PROVE  /\ InBucket(k, b)
             /\ redact_case_equal_scalar("C", s, k) <=> Folded(s) = k
             /\ Folded(s) = k => Len(s) = b.len
  <2>1. InBucket(k, b)
    BY BucketsRight DEF RightBucket
  <2>2. k \in Seq(KeyBytes) /\ Len(k) = b.len
    BY <2>1 DEF InBucket
  <2>3. redact_case_equal_scalar("C", s, k) <=> Folded(s) = k
    BY <2>2, FoldedIs
  <2> QED BY <2>1, <2>2, <2>3 DEF redact_case_equal_scalar
<1>2. ASSUME redact_match_known_key("C", s) PROVE Folded(s) \in Denylist
  BY <1>1, <1>2 DEF redact_match_known_key, InBucket
<1>3. ASSUME Folded(s) \in Denylist
      PROVE  redact_match_known_key("C", s) /\ Len(s) \in {13, 12, 11, 10, 8, 7, 6, 5}
  <2> DEFINE k == Folded(s)
  <2>1. PICK b \in Buckets : k \in b.keys
    BY <1>3, BucketsComplete
  <2>2. InBucket(k, b) /\ redact_case_equal_scalar("C", s, k) /\ Len(s) = b.len
    BY <1>1, <2>1
  <2>3. Len(s) \in {13, 12, 11, 10, 8, 7, 6, 5}
    BY <2>2 DEF InBucket
  <2>4. 1 \in DOMAIN s /\ s[1] \in Byte
    BY <2>3
  <2>5. k[1] = (IF s[1] \in 65 .. 90 THEN s[1] + 32 ELSE s[1]) /\ k[1] \in 97 .. 122
    BY <2>2, <2>4 DEF InBucket, Folded
  <2>6. CaseBit(s[1]) = k[1]
    BY <2>4, <2>5, CaseBitIs
  <2>7. b.first # << >> => CaseBit(s[1]) = b.first[1]
    BY <2>2, <2>6 DEF InBucket
  <2> QED BY <2>1, <2>2, <2>3, <2>7 DEF redact_match_known_key
<1> QED BY <1>2, <1>3

(* Known keys are found by length and first letter, alone or at the end of *)
(* a dotted name: exactly those of the denylist, whatever their case.      *)
THEOREM RedactKeyExact ==
    ASSUME NEW s \in Seq(Byte)
    PROVE  key_should_redact_n("C", s) <=> Sensitive(s)
<1>1. redact_match_known_key("C", s) <=> Folded(s) \in Denylist
  BY KnownExact
<1>2. redact_has_dot_scalar(s) <=> \E k \in DOMAIN s : s[k] = Dot
  BY DEF redact_has_dot_scalar
<1>3. Len(s) \in Nat
  BY LenProperties
<1>4. ASSUME NEW n \in 1 .. Len(s) - 1
      PROVE  /\ redact_match_known_key("C", From(s, n)) <=> Folded(From(s, n)) \in Denylist
             /\ Folded(From(s, n)) \in Denylist =>
                  Len(s) - n \in {13, 12, 11, 10, 8, 7, 6, 5}
  <2>1. From(s, n) \in Seq(Byte) /\ Len(From(s, n)) = Len(s) - n
    <3>1. n \in 0 .. Len(s) /\ 0 \in 0 .. Len(s) - n
      BY <1>3
    <3> QED BY <3>1, EndOfEnd DEF From
  <2> QED BY <2>1, KnownExact
<1>5. ASSUME NEW n \in {13, 12, 11, 10, 8, 7, 6, 5}, Len(s) > n,
             redact_match_known_key("C", From(s, Len(s) - n))
      PROVE  \E m \in 1 .. Len(s) - 1 : Folded(From(s, m)) \in Denylist
  <2>1. Len(s) - n \in 1 .. Len(s) - 1
    BY <1>3, <1>5
  <2> QED BY <1>4, <1>5, <2>1
<1>6. ASSUME NEW m \in 1 .. Len(s) - 1, Folded(From(s, m)) \in Denylist
      PROVE  redact_match_suffix("C", s)
  <2> DEFINE n == Len(s) - m
  <2>1. n \in {13, 12, 11, 10, 8, 7, 6, 5} /\ redact_match_known_key("C", From(s, m))
    BY <1>4, <1>6
  <2>2. Len(s) > n /\ Len(s) - n = m
    BY <1>3
  <2> QED BY <2>1, <2>2 DEF redact_match_suffix
<1>7. redact_match_suffix("C", s) <=>
         \E m \in 1 .. Len(s) - 1 : Folded(From(s, m)) \in Denylist
  BY <1>5, <1>6 DEF redact_match_suffix
<1> QED BY <1>1, <1>2, <1>7 DEF key_should_redact_n, Sensitive


----------------------------------------------------------------------------
(* UTF-8 validation *)

LEMMA ByteIs ==
    ASSUME NEW c \in Byte
    PROVE  c \in Nat /\ c <= 255
BY DEF Byte

(* The bit patterns of ij_utf8_scalar_validate as ranges of bytes. *)
LEMMA BytePatterns ==
    ASSUME NEW c \in Byte
    PROVE  /\ c \div 64 = 2 <=> c \in 128 .. 191
           /\ c \div 32 = 6 <=> c \in 192 .. 223
           /\ c \div 16 = 14 <=> c \in 224 .. 239
           /\ c \div 8 = 30 <=> c \in 240 .. 247
<1>1. c \in Nat /\ c <= 255
  BY DEF Byte
<1> QED BY <1>1

(* What is left of a byte when the pattern is taken off. *)
LEMMA ByteBits ==
    ASSUME NEW c \in Byte
    PROVE  /\ c <= 127 => c % 128 = c
           /\ c \in 192 .. 223 => c % 32 = c - 192
           /\ c \in 224 .. 239 => c % 16 = c - 224
           /\ c \in 240 .. 247 => c % 8 = c - 240
           /\ c \in 128 .. 191 => c % 64 = c - 128
<1>1. c \in Nat /\ c <= 255
  BY DEF Byte
<1> QED BY <1>1

(* The first byte of a character of one to four bytes, and of none. *)
Lead1(c) == c <= 127
Lead2(c) == c \in 192 .. 223
Lead3(c) == c \in 224 .. 239
Lead4(c) == c \in 240 .. 247
Lead0(c) == c \in 128 .. 191 \/ c > 247

(* Each byte is of one kind. *)
LEMMA LeadKinds ==
    ASSUME NEW c \in Byte
    PROVE  /\ Lead1(c) => ~Lead0(c) /\ ~Lead2(c) /\ ~Lead3(c) /\ ~Lead4(c)
           /\ Lead2(c) => ~Lead0(c) /\ ~Lead1(c) /\ ~Lead3(c) /\ ~Lead4(c)
           /\ Lead3(c) => ~Lead0(c) /\ ~Lead1(c) /\ ~Lead2(c) /\ ~Lead4(c)
           /\ Lead4(c) => ~Lead0(c) /\ ~Lead1(c) /\ ~Lead2(c) /\ ~Lead3(c)
           /\ Lead0(c) => ~Lead1(c) /\ ~Lead2(c) /\ ~Lead3(c) /\ ~Lead4(c)
           /\ Lead0(c) \/ Lead1(c) \/ Lead2(c) \/ Lead3(c) \/ Lead4(c)
BY ByteIs DEF Lead0, Lead1, Lead2, Lead3, Lead4

(* The tests of ij_utf8_scalar_validate on a lead byte. *)
LEMMA LeadTests ==
    ASSUME NEW c \in Byte
    PROVE  /\ c <= 127 <=> Lead1(c)
           /\ c \div 32 = 6 <=> Lead2(c)
           /\ c \div 16 = 14 <=> Lead3(c)
           /\ c \div 8 = 30 <=> Lead4(c)
BY BytePatterns DEF Lead1, Lead2, Lead3, Lead4

(* The n - 1 bytes behind s[i] are there and continue a character. *)
Follows(s, i, n) ==
    /\ i + n - 1 <= Len(s)
    /\ \A k \in 1 .. n - 1 : s[i + k] \in 128 .. 191

LEMMA FollowsIs ==
    ASSUME NEW s \in Seq(Byte), NEW i \in 1 .. Len(s), NEW n \in 1 .. 4
    PROVE  Follows(s, i, n) <=> /\ Len(s) - i + 1 >= n
                                /\ \A k \in 1 .. n - 1 : Continuation(s[i + k])
<1>1. Len(s) \in Nat /\ i \in Nat /\ n \in Nat
  OBVIOUS
<1>2. Len(s) - i + 1 >= n <=> i + n - 1 <= Len(s)
  BY <1>1
<1>3. ASSUME i + n - 1 <= Len(s), NEW k \in 1 .. n - 1
      PROVE  s[i + k] \in 128 .. 191 <=> Continuation(s[i + k])
  <2>1. i + k \in 1 .. Len(s)
    BY <1>1, <1>3
  <2>2. s[i + k] \in Byte
    BY <2>1, ElementOfSeq
  <2> QED BY <2>2, BytePatterns DEF Continuation
<1> QED BY <1>2, <1>3 DEF Follows

(* What else the scalar loop asks of a lead byte and the one behind it. *)
Accepted2(c) == c >= 194
Accepted3(c, second) == ~Excluded(c, second)
Accepted4(c, second) == ~Excluded(c, second) /\ c <= 244

(* The scalar loop at s[i], by the kind of the byte. *)
LEMMA StepIs ==
    ASSUME NEW s \in Seq(Byte), NEW i \in 1 .. Len(s)
    PROVE  /\ s[i] \in Byte
           /\ Lead1(s[i]) => Step(s, i) = 1
           /\ Lead2(s[i]) => IF Follows(s, i, 2) /\ Accepted2(s[i])
                             THEN Step(s, i) = 2 ELSE Step(s, i) = 0
           /\ Lead3(s[i]) => IF Follows(s, i, 3) /\ Accepted3(s[i], s[i + 1])
                             THEN Step(s, i) = 3 ELSE Step(s, i) = 0
           /\ Lead4(s[i]) => IF Follows(s, i, 4) /\ Accepted4(s[i], s[i + 1])
                             THEN Step(s, i) = 4 ELSE Step(s, i) = 0
           /\ Lead0(s[i]) => Step(s, i) = 0
<1> DEFINE c == s[i]
           second == s[i + 1]
           f(n) == /\ Len(s) - i + 1 >= n
                   /\ \A k \in 1 .. n - 1 : Continuation(s[i + k])
<1>1. c \in Byte
  BY ElementOfSeq
<1>2. /\ c <= 127 <=> Lead1(c)
      /\ c \div 32 = 6 <=> Lead2(c)
      /\ c \div 16 = 14 <=> Lead3(c)
      /\ c \div 8 = 30 <=> Lead4(c)
  <2> HIDE DEF c
  <2> QED BY <1>1, LeadTests
<1>3. /\ f(2) <=> Follows(s, i, 2)
      /\ f(3) <=> Follows(s, i, 3)
      /\ f(4) <=> Follows(s, i, 4)
  BY FollowsIs
<1>4. Step(s, i) =
        CASE c <= 127 -> 1
          [] c \div 32 = 6 -> IF f(2) /\ c >= 194 THEN 2 ELSE 0
          [] c \div 16 = 14 -> IF f(3) /\ ~Excluded(c, second) THEN 3 ELSE 0
          [] c \div 8 = 30 -> IF f(4) /\ ~Excluded(c, second) /\ c <= 244 THEN 4 ELSE 0
          [] OTHER -> 0
  BY DEF Step
<1> HIDE DEF f, c, second
<1>5. Step(s, i) =
        CASE Lead1(c) -> 1
          [] Lead2(c) -> IF Follows(s, i, 2) /\ Accepted2(c) THEN 2 ELSE 0
          [] Lead3(c) -> IF Follows(s, i, 3) /\ Accepted3(c, second) THEN 3 ELSE 0
          [] Lead4(c) -> IF Follows(s, i, 4) /\ Accepted4(c, second) THEN 4 ELSE 0
          [] OTHER -> 0
  BY <1>2, <1>3, <1>4 DEF Accepted2, Accepted3, Accepted4
<1>6. /\ Lead1(c) => ~Lead0(c) /\ ~Lead2(c) /\ ~Lead3(c) /\ ~Lead4(c)
      /\ Lead2(c) => ~Lead0(c) /\ ~Lead1(c) /\ ~Lead3(c) /\ ~Lead4(c)
      /\ Lead3(c) => ~Lead0(c) /\ ~Lead1(c) /\ ~Lead2(c) /\ ~Lead4(c)
      /\ Lead4(c) => ~Lead0(c) /\ ~Lead1(c) /\ ~Lead2(c) /\ ~Lead3(c)
      /\ Lead0(c) => ~Lead1(c) /\ ~Lead2(c) /\ ~Lead3(c) /\ ~Lead4(c)
  BY <1>1, LeadKinds
<1>7. Lead1(c) => Step(s, i) = 1
  BY <1>5, <1>6
<1>8. Lead2(c) => IF Follows(s, i, 2) /\ Accepted2(c)
                  THEN Step(s, i) = 2 ELSE Step(s, i) = 0
  BY <1>5, <1>6
<1>9. Lead3(c) => IF Follows(s, i, 3) /\ Accepted3(c, second)
                  THEN Step(s, i) = 3 ELSE Step(s, i) = 0
  BY <1>5, <1>6
<1>10. Lead4(c) => IF Follows(s, i, 4) /\ Accepted4(c, second)
                   THEN Step(s, i) = 4 ELSE Step(s, i) = 0
  BY <1>5, <1>6
<1>11. Lead0(c) => Step(s, i) = 0
  BY <1>5, <1>6
<1> QED BY <1>1, <1>7, <1>8, <1>9, <1>10, <1>11 DEF c, second

(* The scalar loop moves by at most four bytes and never past the end. *)
LEMMA StepStays ==
    ASSUME NEW s \in Seq(Byte), NEW i \in 1 .. Len(s)
    PROVE  /\ Step(s, i) \in 0 .. 4
           /\ i + Step(s, i) \in i .. Len(s) + 1
<1>1. Len(s) \in Nat /\ i \in Nat /\ i <= Len(s)
  OBVIOUS
<1> DEFINE n == Step(s, i)
<1>2. n = 1 \/ n = 0 \/ (n = 2 /\ Follows(s, i, 2)) \/ (n = 3 /\ Follows(s, i, 3))
        \/ (n = 4 /\ Follows(s, i, 4))
  BY StepIs, LeadKinds
<1>3. /\ Follows(s, i, 2) => i + 2 - 1 <= Len(s)
      /\ Follows(s, i, 3) => i + 3 - 1 <= Len(s)
      /\ Follows(s, i, 4) => i + 4 - 1 <= Len(s)
  BY DEF Follows
<1> HIDE DEF n
<1>4. n \in 0 .. 4 /\ i + n \in i .. Len(s) + 1
  BY <1>1, <1>2, <1>3
<1> QED BY <1>4 DEF n

(* Code points of two, three and four bytes in the shortest form, outside the *)
(* surrogates and not above U+10FFFF, as the scalar loop tells them.          *)
Tailing(d) == d \in 128 .. 191
Point(x, n) == x >= <<0, 128, 2048, 65536>>[n] /\ x <= 1114111 /\ x \notin Surrogates
Point2(c, d) == 64 * (c - 192) + (d - 128)
Point3(c, d, e) == 64 * (64 * (c - 224) + (d - 128)) + (e - 128)
Point4(c, d, e, f) == 64 * (64 * (64 * (c - 240) + (d - 128)) + (e - 128)) + (f - 128)

LEMMA Points2 ==
    ASSUME NEW c, NEW d, Lead2(c), Tailing(d)
    PROVE  Point(Point2(c, d), 2) <=> Accepted2(c)
BY DEF Accepted2, Surrogates, Point, Point2, Lead2, Tailing

LEMMA Points3 ==
    ASSUME NEW c, NEW d, NEW e, Lead3(c), Tailing(d), Tailing(e)
    PROVE  Point(Point3(c, d, e), 3) <=> Accepted3(c, d)
<1> USE DEF Lead3, Tailing
<1> DEFINE x == Point3(c, d, e)
<1>1. x >= 2048 <=> ~(c = 224 /\ d < 160)
  BY DEF Point3
<1>2. x <= 1114111
  BY DEF Point3
<1>3. x \notin Surrogates <=> ~(c = 237 /\ d >= 160)
  BY DEF Surrogates, Point3
<1>4. Accepted3(c, d) <=> ~(c = 224 /\ d < 160) /\ ~(c = 237 /\ d >= 160)
  BY DEF Accepted3, Excluded
<1> QED BY <1>1, <1>2, <1>3, <1>4 DEF Point

LEMMA Points4 ==
    ASSUME NEW c, NEW d, NEW e, NEW f, Lead4(c), Tailing(d), Tailing(e), Tailing(f)
    PROVE  Point(Point4(c, d, e, f), 4) <=> Accepted4(c, d)
<1> USE DEF Lead4, Tailing
<1> DEFINE x == Point4(c, d, e, f)
<1>1. x >= 65536 <=> ~(c = 240 /\ d < 144)
  BY DEF Point4
<1>2. x <= 1114111 <=> c <= 244 /\ ~(c = 244 /\ d >= 144)
  BY DEF Point4
<1>3. x >= 65536 => x \notin Surrogates
  BY DEF Surrogates, Point4
<1>4. Accepted4(c, d) <=> ~(c = 240 /\ d < 144) /\ ~(c = 244 /\ d >= 144) /\ c <= 244
  BY DEF Accepted4, Excluded
<1> QED BY <1>1, <1>2, <1>3, <1>4 DEF Point

(* The code point the reference computes, written out. *)
LEMMA CodePointIs ==
    ASSUME NEW s, NEW i, NEW n \in 1 .. 4, NEW b, NEW d, NEW e, NEW f,
           b = s[i] % <<128, 32, 16, 8>>[n],
           d = s[i + 1] % 64, e = s[i + 2] % 64, f = s[i + 3] % 64
    PROVE  CodePoint(s, i, n) = CASE n = 1 -> b
                                  [] n = 2 -> 64 * b + d
                                  [] n = 3 -> 64 * (64 * b + d) + e
                                  [] n = 4 -> 64 * (64 * (64 * b + d) + e) + f
<1> DEFINE F(g) == [k \in 0 .. n - 1 |->
                       IF k = 0 THEN s[i] % <<128, 32, 16, 8>>[n]
                                ELSE 64 * g[k - 1] + (s[i + k] % 64)]
           w == [k \in 0 .. n - 1 |-> CASE k = 0 -> b
                                        [] k = 1 -> 64 * b + d
                                        [] k = 2 -> 64 * (64 * b + d) + e
                                        [] k = 3 -> 64 * (64 * (64 * b + d) + e) + f]
           v == CHOOSE g : g = F(g)
<1>1. CodePoint(s, i, n) = v[n - 1]
  BY DEF CodePoint
<1>2. w = F(w)
  <2>1. ASSUME NEW k \in 0 .. n - 1
        PROVE  w[k] = IF k = 0 THEN s[i] % <<128, 32, 16, 8>>[n]
                               ELSE 64 * w[k - 1] + (s[i + k] % 64)
    <3>1. CASE k = 0
      BY <3>1
    <3>2. CASE k = 1
      BY <3>2
    <3>3. CASE k = 2
      BY <3>3
    <3>4. CASE k = 3
      BY <3>4
    <3> QED BY <3>1, <3>2, <3>3, <3>4
  <2> QED BY <2>1
<1>3. v = F(v)
  <2> HIDE DEF F, w
  <2> QED BY <1>2
<1> HIDE DEF v
<1>4. \A k \in 0 .. n - 1 :
        v[k] = IF k = 0 THEN s[i] % <<128, 32, 16, 8>>[n]
                        ELSE 64 * v[k - 1] + (s[i + k] % 64)
  BY <1>3
<1>5. v[0] = b
  BY <1>4
<1>6. n > 1 => v[1] = 64 * b + d
  BY <1>4, <1>5
<1>7. n > 2 => v[2] = 64 * (64 * b + d) + e
  BY <1>4, <1>6
<1>8. n > 3 => v[3] = 64 * (64 * (64 * b + d) + e) + f
  BY <1>4, <1>7
<1> QED BY <1>1, <1>5, <1>6, <1>7, <1>8

(* A character of the reference starts where its lead byte says. *)
LEMMA PatternIs ==
    ASSUME NEW s \in Seq(Byte), NEW i \in 1 .. Len(s)
    PROVE  /\ Pattern(s, i, 1) <=> Lead1(s[i])
           /\ Pattern(s, i, 2) <=> Lead2(s[i]) /\ Follows(s, i, 2)
           /\ Pattern(s, i, 3) <=> Lead3(s[i]) /\ Follows(s, i, 3)
           /\ Pattern(s, i, 4) <=> Lead4(s[i]) /\ Follows(s, i, 4)
<1>1. Len(s) \in Nat /\ i \in Nat /\ i <= Len(s)
  OBVIOUS
<1>2. s[i] \in Byte
  BY ElementOfSeq
<1>3. Lead1(s[i]) <=> s[i] \in 0 .. 127
  <2> DEFINE c == s[i]
  <2> HIDE DEF c
  <2>1. c \in Byte
    BY <1>2 DEF c
  <2>2. c \in Nat
    BY <2>1, ByteIs
  <2>3. Lead1(c) <=> c \in 0 .. 127
    BY <2>2 DEF Lead1
  <2> QED BY <2>3 DEF c
<1>4. Follows(s, i, 1)
  BY <1>1 DEF Follows
<1>5. <<0 .. 127, 192 .. 223, 224 .. 239, 240 .. 247>>[1] = 0 .. 127
  OBVIOUS
<1>6. <<0 .. 127, 192 .. 223, 224 .. 239, 240 .. 247>>[2] = 192 .. 223
  OBVIOUS
<1>7. <<0 .. 127, 192 .. 223, 224 .. 239, 240 .. 247>>[3] = 224 .. 239
  OBVIOUS
<1>8. <<0 .. 127, 192 .. 223, 224 .. 239, 240 .. 247>>[4] = 240 .. 247
  OBVIOUS
<1>9. \A n : Pattern(s, i, n) <=>
        /\ s[i] \in <<0 .. 127, 192 .. 223, 224 .. 239, 240 .. 247>>[n]
        /\ Follows(s, i, n)
  BY DEF Pattern, Follows
<1>10. Pattern(s, i, 1) <=> Lead1(s[i])
  BY <1>3, <1>4, <1>5, <1>9
<1> USE DEF Lead2, Lead3, Lead4
<1>11. Pattern(s, i, 2) <=> Lead2(s[i]) /\ Follows(s, i, 2)
  <2>1. Pattern(s, i, 2) <=>
          /\ s[i] \in <<0 .. 127, 192 .. 223, 224 .. 239, 240 .. 247>>[2]
          /\ Follows(s, i, 2)
    BY <1>9
  <2> QED BY <2>1, <1>6
<1>12. Pattern(s, i, 3) <=> Lead3(s[i]) /\ Follows(s, i, 3)
  <2>1. Pattern(s, i, 3) <=>
          /\ s[i] \in <<0 .. 127, 192 .. 223, 224 .. 239, 240 .. 247>>[3]
          /\ Follows(s, i, 3)
    BY <1>9
  <2> QED BY <2>1, <1>7
<1>13. Pattern(s, i, 4) <=> Lead4(s[i]) /\ Follows(s, i, 4)
  <2>1. Pattern(s, i, 4) <=>
          /\ s[i] \in <<0 .. 127, 192 .. 223, 224 .. 239, 240 .. 247>>[4]
          /\ Follows(s, i, 4)
    BY <1>9
  <2> QED BY <2>1, <1>8
<1> QED BY <1>10, <1>11, <1>12, <1>13

(* What Character asks of the code point. *)
LEMMA CharacterPoint ==
    ASSUME NEW s, NEW i, NEW n \in 1 .. 4, NEW point, point = CodePoint(s, i, n)
    PROVE  Character(s, i, n) <=>
             Pattern(s, i, n) /\ Point(point, n)
BY DEF Character, Point

LEMMA Character1 ==
    ASSUME NEW s \in Seq(Byte), NEW i \in 1 .. Len(s)
    PROVE  Character(s, i, 1) <=> Lead1(s[i])
<1>1. ASSUME Lead1(s[i])
      PROVE  Character(s, i, 1)
  <2> DEFINE c == s[i]
  <2>1. c \in Byte
    BY ElementOfSeq
  <2>2. CodePoint(s, i, 1) = c % 128
    BY CodePointIs
  <2>3. Lead1(c)
    BY <1>1
  <2>4. Pattern(s, i, 1)
    BY <1>1, PatternIs
  <2> HIDE DEF c
  <2>5. c \in Nat /\ c <= 127 /\ c % 128 = c
    BY <2>1, <2>3, ByteIs, ByteBits DEF Lead1
  <2>6. Point(c, 1)
    BY <2>5 DEF Surrogates, Point
  <2> QED BY <2>2, <2>4, <2>5, <2>6, CharacterPoint
<1> QED BY <1>1, PatternIs DEF Character

LEMMA Character2 ==
    ASSUME NEW s \in Seq(Byte), NEW i \in 1 .. Len(s)
    PROVE  Character(s, i, 2) <=> Lead2(s[i]) /\ Follows(s, i, 2) /\ Accepted2(s[i])
<1>1. ASSUME Lead2(s[i]), Follows(s, i, 2)
      PROVE  Character(s, i, 2) <=> Accepted2(s[i])
  <2> DEFINE c == s[i]
             d == s[i + 1]
             point == CodePoint(s, i, 2)
  <2>1. c \in 192 .. 223 /\ d \in 128 .. 191
    BY <1>1 DEF Lead2, Follows
  <2>2. point = 64 * (c % 32) + (d % 64)
    BY CodePointIs
  <2>3. Character(s, i, 2) <=> Point(point, 2)
    BY <1>1, CharacterPoint, PatternIs
  <2> HIDE DEF c, d, point
  <2>4. c % 32 = c - 192 /\ d % 64 = d - 128
    BY <2>1, ByteBits DEF Byte
  <2>5. point = Point2(c, d)
    BY <2>2, <2>4 DEF Point2
  <2>6. Character(s, i, 2) <=> Accepted2(c)
    <3>1. Lead2(c) /\ Tailing(d)
      BY <2>1 DEF Lead2, Tailing
    <3>2. Point(Point2(c, d), 2) <=> Accepted2(c)
      BY <3>1, Points2
    <3> QED BY <2>3, <2>5, <3>2
  <2> QED BY <2>6 DEF c
<1> QED BY <1>1, PatternIs DEF Character

LEMMA Character3 ==
    ASSUME NEW s \in Seq(Byte), NEW i \in 1 .. Len(s)
    PROVE  Character(s, i, 3) <=>
             Lead3(s[i]) /\ Follows(s, i, 3) /\ Accepted3(s[i], s[i + 1])
<1>1. ASSUME Lead3(s[i]), Follows(s, i, 3)
      PROVE  Character(s, i, 3) <=> Accepted3(s[i], s[i + 1])
  <2> DEFINE c == s[i]
             d == s[i + 1]
             e == s[i + 2]
             point == CodePoint(s, i, 3)
  <2>1. c \in 224 .. 239 /\ d \in 128 .. 191 /\ e \in 128 .. 191
    BY <1>1 DEF Lead3, Follows
  <2>2. point = 64 * (64 * (c % 16) + (d % 64)) + (e % 64)
    BY CodePointIs
  <2>3. Character(s, i, 3) <=> Point(point, 3)
    BY <1>1, CharacterPoint, PatternIs
  <2> HIDE DEF c, d, e, point
  <2>4. c % 16 = c - 224 /\ d % 64 = d - 128 /\ e % 64 = e - 128
    BY <2>1, ByteBits DEF Byte
  <2>5. point = Point3(c, d, e)
    BY <2>2, <2>4 DEF Point3
  <2>6. Character(s, i, 3) <=> Accepted3(c, d)
    <3>1. Lead3(c) /\ Tailing(d) /\ Tailing(e)
      BY <2>1 DEF Lead3, Tailing
    <3>2. Point(Point3(c, d, e), 3) <=> Accepted3(c, d)
      BY <3>1, Points3
    <3> QED BY <2>3, <2>5, <3>2
  <2> QED BY <2>6 DEF c, d
<1> QED BY <1>1, PatternIs DEF Character

LEMMA Character4 ==
    ASSUME NEW s \in Seq(Byte), NEW i \in 1 .. Len(s)
    PROVE  Character(s, i, 4) <=>
             Lead4(s[i]) /\ Follows(s, i, 4) /\ Accepted4(s[i], s[i + 1])
<1>1. ASSUME Lead4(s[i]), Follows(s, i, 4)
      PROVE  Character(s, i, 4) <=> Accepted4(s[i], s[i + 1])
  <2> DEFINE c == s[i]
             d == s[i + 1]
             e == s[i + 2]
             f == s[i + 3]
             point == CodePoint(s, i, 4)
  <2>1. c \in 240 .. 247 /\ d \in 128 .. 191 /\ e \in 128 .. 191 /\ f \in 128 .. 191
    BY <1>1 DEF Lead4, Follows
  <2>2. point = 64 * (64 * (64 * (c % 8) + (d % 64)) + (e % 64)) + (f % 64)
    BY CodePointIs
  <2>3. Character(s, i, 4) <=> Point(point, 4)
    BY <1>1, CharacterPoint, PatternIs
  <2> HIDE DEF c, d, e, f, point
  <2>4. c % 8 = c - 240 /\ d % 64 = d - 128 /\ e % 64 = e - 128 /\ f % 64 = f - 128
    BY <2>1, ByteBits DEF Byte
  <2>5. point = Point4(c, d, e, f)
    BY <2>2, <2>4 DEF Point4
  <2>6. Character(s, i, 4) <=> Accepted4(c, d)
    <3>1. Lead4(c) /\ Tailing(d) /\ Tailing(e) /\ Tailing(f)
      BY <2>1 DEF Lead4, Tailing
    <3>2. Point(Point4(c, d, e, f), 4) <=> Accepted4(c, d)
      BY <3>1, Points4
    <3> QED BY <2>3, <2>5, <3>2
  <2> QED BY <2>6 DEF c, d
<1> QED BY <1>1, PatternIs DEF Character

(* The scalar loop moves on by n bytes exactly over a character of n bytes. *)
LEMMA CharacterIs ==
    ASSUME NEW s \in Seq(Byte), NEW i \in 1 .. Len(s), NEW n \in 1 .. 4
    PROVE  Character(s, i, n) <=> Step(s, i) = n
<1> DEFINE c == s[i]
           m == Step(s, i)
<1>1. c \in Byte
  BY StepIs
<1>2. /\ Lead1(c) => ~Lead0(c) /\ ~Lead2(c) /\ ~Lead3(c) /\ ~Lead4(c)
      /\ Lead2(c) => ~Lead0(c) /\ ~Lead1(c) /\ ~Lead3(c) /\ ~Lead4(c)
      /\ Lead3(c) => ~Lead0(c) /\ ~Lead1(c) /\ ~Lead2(c) /\ ~Lead4(c)
      /\ Lead4(c) => ~Lead0(c) /\ ~Lead1(c) /\ ~Lead2(c) /\ ~Lead3(c)
      /\ Lead0(c) => ~Lead1(c) /\ ~Lead2(c) /\ ~Lead3(c) /\ ~Lead4(c)
      /\ Lead0(c) \/ Lead1(c) \/ Lead2(c) \/ Lead3(c) \/ Lead4(c)
  BY <1>1, LeadKinds
<1>3. CASE n = 1
  BY <1>2, <1>3, StepIs, Character1
<1>4. CASE n = 2
  BY <1>2, <1>4, StepIs, Character2
<1>5. CASE n = 3
  BY <1>2, <1>5, StepIs, Character3
<1>6. CASE n = 4
  BY <1>2, <1>6, StepIs, Character4
<1> QED BY <1>3, <1>4, <1>5, <1>6

(* A set of positions that the scalar loop does not leave on its way to the *)
(* end of the text, and the function its recursion stands for.              *)
Passes(s, P) ==
    \A p \in P : p <= Len(s) => Step(s, p) # 0 /\ p + Step(s, p) \in P
Reaches(s, i) == \E P \in SUBSET (1 .. Len(s) + 1) : i \in P /\ Passes(s, P)
Scan(s, v) == [i \in 1 .. Len(s) + 1 |->
                  IF i > Len(s) THEN TRUE ELSE Step(s, i) # 0 /\ v[i + Step(s, i)]]

LEMMA ReachesStep ==
    ASSUME NEW s \in Seq(Byte), NEW i \in 1 .. Len(s)
    PROVE  Reaches(s, i) <=> Step(s, i) # 0 /\ Reaches(s, i + Step(s, i))
<1>1. Len(s) \in Nat /\ i \in 1 .. Len(s) + 1 /\ i <= Len(s)
  BY LenProperties
<1>2. ASSUME Reaches(s, i)
      PROVE  Step(s, i) # 0 /\ Reaches(s, i + Step(s, i))
  BY <1>1, <1>2 DEF Reaches, Passes
<1>3. ASSUME Step(s, i) # 0, Reaches(s, i + Step(s, i))
      PROVE  Reaches(s, i)
  <2>1. PICK P \in SUBSET (1 .. Len(s) + 1) : i + Step(s, i) \in P /\ Passes(s, P)
    BY <1>3 DEF Reaches
  <2> DEFINE Q == P \cup {i}
  <2>2. Q \in SUBSET (1 .. Len(s) + 1) /\ i \in Q
    BY <1>1
  <2>3. Passes(s, Q)
    BY <1>3, <2>1 DEF Passes
  <2> QED BY <2>2, <2>3 DEF Reaches
<1> QED BY <1>2, <1>3

LEMMA ReachesEnd ==
    ASSUME NEW s \in Seq(Byte)
    PROVE  Reaches(s, Len(s) + 1)
<1> DEFINE P == {Len(s) + 1}
<1>1. Len(s) \in Nat
  BY LenProperties
<1>2. P \in SUBSET (1 .. Len(s) + 1) /\ Len(s) + 1 \in P /\ ~(Len(s) + 1 <= Len(s))
  BY <1>1
<1> QED BY <1>2 DEF Reaches, Passes

(* The recursion has a solution. *)
LEMMA ScanExists ==
    ASSUME NEW s \in Seq(Byte)
    PROVE  \E v : v = Scan(s, v)
<1> DEFINE v == [i \in 1 .. Len(s) + 1 |-> Reaches(s, i)]
<1>1. Len(s) \in Nat
  BY LenProperties
<1>2. ASSUME NEW i \in 1 .. Len(s) + 1
      PROVE  v[i] = IF i > Len(s) THEN TRUE ELSE Step(s, i) # 0 /\ v[i + Step(s, i)]
  <2>1. CASE i > Len(s)
    <3>1. i = Len(s) + 1
      BY <1>1, <2>1
    <3>2. Reaches(s, i)
      BY <3>1, ReachesEnd
    <3>3. v[i] = TRUE
      BY <3>2 DEF Reaches
    <3> QED BY <2>1, <3>3
  <2>2. CASE ~(i > Len(s))
    <3>1. i \in 1 .. Len(s)
      BY <1>1, <2>2
    <3>2. i + Step(s, i) \in 1 .. Len(s) + 1
      BY <1>1, <3>1, StepStays
    <3>3. v[i] = Reaches(s, i) /\ v[i + Step(s, i)] = Reaches(s, i + Step(s, i))
      BY <3>2
    <3>4. Reaches(s, i) <=> Step(s, i) # 0 /\ Reaches(s, i + Step(s, i))
      BY <3>1, ReachesStep
    <3>5. Reaches(s, i) = (Step(s, i) # 0 /\ Reaches(s, i + Step(s, i)))
      BY <3>4 DEF Reaches
    <3> QED BY <2>2, <3>3, <3>5
  <2> QED BY <2>1, <2>2
<1>3. v = Scan(s, v)
  BY <1>2 DEF Scan
<1> QED BY <1>3

(* And only one: what it says of a position is whether the loop reaches the end *)
(* from there.                                                                  *)
LEMMA ScanIs ==
    ASSUME NEW s \in Seq(Byte), NEW v, v = Scan(s, v)
    PROVE  v[1] <=> Reaches(s, 1)
<1>1. Len(s) \in Nat /\ 1 \in 1 .. Len(s) + 1
  BY LenProperties
<1>2. ASSUME NEW i \in 1 .. Len(s) + 1
      PROVE  v[i] = IF i > Len(s) THEN TRUE ELSE Step(s, i) # 0 /\ v[i + Step(s, i)]
  BY DEF Scan
<1>3. ASSUME v[1]
      PROVE  Reaches(s, 1)
  <2> DEFINE P == {p \in 1 .. Len(s) + 1 : v[p]}
  <2>1. ASSUME NEW p \in P, p <= Len(s)
        PROVE  Step(s, p) # 0 /\ p + Step(s, p) \in P
    <3>1. p \in 1 .. Len(s) /\ ~(p > Len(s))
      BY <1>1, <2>1
    <3>2. p + Step(s, p) \in 1 .. Len(s) + 1
      BY <1>1, <3>1, StepStays
    <3>3. Step(s, p) # 0 /\ v[p + Step(s, p)]
      BY <1>2, <3>1
    <3> QED BY <3>2, <3>3
  <2>2. Passes(s, P)
    BY <2>1 DEF Passes
  <2> QED BY <1>1, <1>3, <2>2 DEF Reaches
<1>4. ASSUME Reaches(s, 1)
      PROVE  v[1]
  <2>1. PICK P \in SUBSET (1 .. Len(s) + 1) : 1 \in P /\ Passes(s, P)
    BY <1>4 DEF Reaches
  <2> SUFFICES ASSUME ~v[1]
               PROVE  FALSE
    OBVIOUS
  <2> DEFINE D == {d \in 0 .. Len(s) : Len(s) + 1 - d \in P /\ ~v[Len(s) + 1 - d]}
  <2>2. Len(s) \in D
    <3>1. Len(s) \in 0 .. Len(s) /\ Len(s) + 1 - Len(s) = 1
      BY <1>1
    <3> QED BY <2>1, <3>1
  <2>3. PICK d \in D : \A x \in D : d <= x
    <3>1. D \subseteq Nat /\ D # {}
      BY <1>1, <2>2
    <3> HIDE DEF D
    <3> QED BY <3>1, LeastIs
  <2> DEFINE q == Len(s) + 1 - d
  <2>4. q \in P /\ ~v[q] /\ q \in 1 .. Len(s) + 1
    BY <1>1
  <2>5. ~(q > Len(s))
    BY <1>2, <2>4
  <2>6. q \in 1 .. Len(s) /\ q <= Len(s)
    BY <1>1, <2>4, <2>5
  <2>7. Step(s, q) # 0 /\ q + Step(s, q) \in P
    BY <2>1, <2>4, <2>6 DEF Passes
  <2>8. Step(s, q) \in 0 .. 4 /\ q + Step(s, q) \in q .. Len(s) + 1
    BY <2>6, StepStays
  <2> DEFINE n == Step(s, q)
             x == d - n
  <2>9. x \in 0 .. Len(s) /\ Len(s) + 1 - x = q + n /\ ~(d <= x)
    <3>1. n \in 0 .. 4 /\ n # 0 /\ q + n <= Len(s) + 1
      BY <2>7, <2>8
    <3> HIDE DEF n
    <3> QED BY <1>1, <3>1
  <2>10. v[q + n]
    <3>1. x \notin D
      BY <2>3, <2>9
    <3> QED BY <2>7, <2>9, <3>1
  <2>11. v[q]
    BY <1>2, <2>4, <2>5, <2>7, <2>10
  <2> QED BY <2>4, <2>11
<1> QED BY <1>3, <1>4

LEMMA ScalarIs ==
    ASSUME NEW s \in Seq(Byte)
    PROVE  utf8_scalar_validate(s) <=> Reaches(s, 1)
<1> DEFINE v == CHOOSE g : g = Scan(s, g)
<1>1. utf8_scalar_validate(s) = v[1]
  BY DEF utf8_scalar_validate, Scan
<1>2. v = Scan(s, v)
  BY ScanExists
<1> HIDE DEF v
<1>3. v[1] <=> Reaches(s, 1)
  BY <1>2, ScanIs
<1> QED BY <1>1, <1>3

(* The scalar loop accepts exactly well-formed texts. *)
LEMMA ScalarExact ==
    ASSUME NEW s \in Seq(Byte)
    PROVE  utf8_scalar_validate(s) <=> WellFormed(s)
<1> DEFINE Formed(g) == [i \in 1 .. Len(s) + 1 |->
                            IF i > Len(s) THEN TRUE
                            ELSE \E n \in 1 .. 4 : Character(s, i, n) /\ g[i + n]]
           v == CHOOSE g : g = Formed(g)
<1>1. WellFormed(s) = v[1]
  BY DEF WellFormed
<1>2. ASSUME NEW g
      PROVE  Formed(g) = Scan(s, g)
  <2>1. ASSUME NEW i \in 1 .. Len(s) + 1, ~(i > Len(s))
        PROVE  (\E n \in 1 .. 4 : Character(s, i, n) /\ g[i + n])
                 = (Step(s, i) # 0 /\ g[i + Step(s, i)])
    <3>1. i \in 1 .. Len(s)
      BY <2>1, LenProperties
    <3>2. Step(s, i) \in 0 .. 4
      BY <3>1, StepStays
    <3>3. \A n \in 1 .. 4 : Character(s, i, n) <=> Step(s, i) = n
      BY <3>1, CharacterIs
    <3>4. Step(s, i) # 0 <=> Step(s, i) \in 1 .. 4
      BY <3>2
    <3> QED BY <3>3, <3>4
  <2> QED BY <2>1 DEF Scan
<1>3. v = Scan(s, v)
  <2>1. \E g : g = Formed(g)
    BY <1>2, ScanExists
  <2> HIDE DEF Formed
  <2>2. v = Formed(v)
    BY <2>1
  <2> QED BY <1>2, <2>2
<1> HIDE DEF v
<1>4. v[1] <=> Reaches(s, 1)
  BY <1>3, ScanIs
<1> QED BY <1>1, <1>4, ScalarIs

(* r is s without its first k bytes. *)
IsEnd(s, r, k) ==
    /\ Len(s) \in Nat /\ Len(r) \in Nat /\ k \in Nat
    /\ Len(s) = k + Len(r)
    /\ \A j \in 1 .. Len(r) : r[j] = s[k + j]

LEMMA FollowsEnd ==
    ASSUME NEW s \in Seq(Byte), NEW r \in Seq(Byte), NEW k, IsEnd(s, r, k),
           NEW j \in 1 .. Len(r), NEW n \in 1 .. 4
    PROVE  /\ Follows(r, j, n) <=> Follows(s, k + j, n)
           /\ n > 1 /\ Follows(r, j, n) => r[j + 1] = s[k + j + 1]
<1>1. Len(s) \in Nat /\ Len(r) \in Nat /\ k \in Nat /\ Len(s) = k + Len(r) /\ j \in Nat
  BY DEF IsEnd
<1>2. j + n - 1 <= Len(r) <=> k + j + n - 1 <= Len(s)
  BY <1>1
<1>3. ASSUME j + n - 1 <= Len(r), NEW m \in 1 .. n - 1
      PROVE  r[j + m] = s[k + j + m]
  <2>1. j + m \in 1 .. Len(r) /\ k + (j + m) = k + j + m
    BY <1>1, <1>3
  <2>2. r[j + m] = s[k + (j + m)]
    BY <2>1 DEF IsEnd
  <2> QED BY <2>1, <2>2
<1>4. Follows(r, j, n) <=> Follows(s, k + j, n)
  BY <1>2, <1>3 DEF Follows
<1>5. ASSUME n > 1, Follows(r, j, n)
      PROVE  r[j + 1] = s[k + j + 1]
  <2>1. 1 \in 1 .. n - 1
    BY <1>5
  <2>2. j + n - 1 <= Len(r)
    BY <1>5 DEF Follows
  <2> QED BY <1>3, <2>1, <2>2
<1> QED BY <1>4, <1>5

(* The scalar loop does in the rest what it does in the text. *)
LEMMA StepEnd ==
    ASSUME NEW s \in Seq(Byte), NEW r \in Seq(Byte), NEW k, IsEnd(s, r, k),
           NEW j \in 1 .. Len(r)
    PROVE  k + j \in 1 .. Len(s) /\ Step(r, j) = Step(s, k + j)
<1> DEFINE c == r[j]
           i == k + j
           x == r[j + 1]
           y == s[i + 1]
<1>1. i \in 1 .. Len(s) /\ c = s[i]
  BY DEF IsEnd
<1>2. /\ Follows(r, j, 2) <=> Follows(s, i, 2)
      /\ Follows(r, j, 3) <=> Follows(s, i, 3)
      /\ Follows(r, j, 4) <=> Follows(s, i, 4)
      /\ Follows(r, j, 3) => x = y
      /\ Follows(r, j, 4) => x = y
  BY FollowsEnd
<1>3. /\ c \in Byte
      /\ Lead1(c) => Step(r, j) = 1
      /\ Lead2(c) => IF Follows(r, j, 2) /\ Accepted2(c)
                     THEN Step(r, j) = 2 ELSE Step(r, j) = 0
      /\ Lead3(c) => IF Follows(r, j, 3) /\ Accepted3(c, x)
                     THEN Step(r, j) = 3 ELSE Step(r, j) = 0
      /\ Lead4(c) => IF Follows(r, j, 4) /\ Accepted4(c, x)
                     THEN Step(r, j) = 4 ELSE Step(r, j) = 0
      /\ Lead0(c) => Step(r, j) = 0
  BY StepIs
<1>4. /\ Lead1(c) => Step(s, i) = 1
      /\ Lead2(c) => IF Follows(s, i, 2) /\ Accepted2(c)
                     THEN Step(s, i) = 2 ELSE Step(s, i) = 0
      /\ Lead3(c) => IF Follows(s, i, 3) /\ Accepted3(c, y)
                     THEN Step(s, i) = 3 ELSE Step(s, i) = 0
      /\ Lead4(c) => IF Follows(s, i, 4) /\ Accepted4(c, y)
                     THEN Step(s, i) = 4 ELSE Step(s, i) = 0
      /\ Lead0(c) => Step(s, i) = 0
  BY <1>1, StepIs
<1>5. Lead0(c) \/ Lead1(c) \/ Lead2(c) \/ Lead3(c) \/ Lead4(c)
  BY <1>3, LeadKinds
<1> HIDE DEF c, i, x, y
<1>6. Step(r, j) = Step(s, i)
  BY <1>2, <1>3, <1>4, <1>5
<1> QED BY <1>1, <1>6 DEF i

LEMMA ReachesInEnd ==
    ASSUME NEW s \in Seq(Byte), NEW r \in Seq(Byte), NEW k, IsEnd(s, r, k)
    PROVE  Reaches(r, 1) <=> Reaches(s, k + 1)
<1>1. Len(s) \in Nat /\ Len(r) \in Nat /\ k \in Nat /\ Len(s) = k + Len(r)
  BY DEF IsEnd
<1>2. \A j \in 1 .. Len(r) : k + j \in 1 .. Len(s) /\ Step(r, j) = Step(s, k + j)
  BY StepEnd
<1>3. ASSUME Reaches(r, 1)
      PROVE  Reaches(s, k + 1)
  <2>1. PICK P \in SUBSET (1 .. Len(r) + 1) : 1 \in P /\ Passes(r, P)
    BY <1>3 DEF Reaches
  <2> DEFINE Q == {k + p : p \in P}
  <2>2. Q \in SUBSET (1 .. Len(s) + 1) /\ k + 1 \in Q
    BY <1>1, <2>1
  <2>3. ASSUME NEW q \in Q, q <= Len(s)
        PROVE  Step(s, q) # 0 /\ q + Step(s, q) \in Q
    <3>1. PICK p \in P : q = k + p
      OBVIOUS
    <3>2. p \in 1 .. Len(r) /\ p <= Len(r)
      BY <1>1, <2>3, <3>1
    <3>3. Step(r, p) # 0 /\ p + Step(r, p) \in P
      BY <2>1, <3>2 DEF Passes
    <3>4. Step(s, q) = Step(r, p) /\ Step(r, p) \in 0 .. 4
      BY <1>2, <3>1, <3>2, StepStays
    <3>5. q + Step(s, q) = k + (p + Step(r, p))
      <4> DEFINE n == Step(r, p)
      <4>1. n \in Nat /\ Step(s, q) = n
        BY <3>4
      <4> HIDE DEF n
      <4>2. q + n = k + (p + n)
        BY <1>1, <3>1, <3>2, <4>1
      <4> QED BY <4>1, <4>2 DEF n
    <3> QED BY <3>3, <3>4, <3>5
  <2>4. Passes(s, Q)
    BY <2>3 DEF Passes
  <2> QED BY <2>2, <2>4 DEF Reaches
<1>4. ASSUME Reaches(s, k + 1)
      PROVE  Reaches(r, 1)
  <2>1. PICK P \in SUBSET (1 .. Len(s) + 1) : k + 1 \in P /\ Passes(s, P)
    BY <1>4 DEF Reaches
  <2> DEFINE Q == {q \in 1 .. Len(r) + 1 : k + q \in P}
  <2>2. Q \in SUBSET (1 .. Len(r) + 1) /\ 1 \in Q
    BY <1>1, <2>1
  <2>3. ASSUME NEW q \in Q, q <= Len(r)
        PROVE  Step(r, q) # 0 /\ q + Step(r, q) \in Q
    <3>1. q \in 1 .. Len(r) /\ k + q \in P /\ k + q <= Len(s)
      BY <1>1, <2>3
    <3>2. Step(s, k + q) # 0 /\ k + q + Step(s, k + q) \in P
      BY <2>1, <3>1 DEF Passes
    <3>3. Step(s, k + q) = Step(r, q)
      BY <1>2, <3>1
    <3>4. Step(r, q) \in 0 .. 4 /\ q + Step(r, q) \in q .. Len(r) + 1
      BY <3>1, StepStays
    <3> DEFINE n == Step(r, q)
    <3>5. n \in 0 .. 4 /\ q + n \in q .. Len(r) + 1 /\ k + q + n \in P /\ n # 0
      BY <3>2, <3>3, <3>4
    <3> HIDE DEF n
    <3>6. k + (q + n) = k + q + n /\ q + n \in 1 .. Len(r) + 1
      BY <1>1, <3>1, <3>5
    <3>7. n # 0 /\ q + n \in Q
      BY <3>5, <3>6
    <3> QED BY <3>7 DEF n
  <2>4. Passes(r, Q)
    BY <2>3 DEF Passes
  <2> QED BY <2>2, <2>4 DEF Reaches
<1> QED BY <1>3, <1>4

(* Leading ASCII changes nothing. *)
LEMMA ReachesOverAscii ==
    ASSUME NEW s \in Seq(Byte), NEW k \in 0 .. Len(s), \A j \in 1 .. k : ~High(s[j])
    PROVE  Reaches(s, 1) <=> Reaches(s, k + 1)
<1>1. Len(s) \in Nat /\ k \in Nat /\ k <= Len(s)
  BY LenProperties
<1>2. ASSUME NEW j \in 1 .. k
      PROVE  Reaches(s, j) <=> Reaches(s, j + 1)
  <2>1. j \in 1 .. Len(s)
    BY <1>1
  <2>2. s[j] \in Byte
    BY <2>1, ElementOfSeq
  <2>3. Lead1(s[j])
    <3> DEFINE c == s[j]
    <3>1. c \in Byte /\ ~High(c)
      BY <2>2
    <3> HIDE DEF c
    <3>2. Lead1(c)
      BY <3>1, ByteIs DEF High, Lead1
    <3> QED BY <3>2 DEF c
  <2>4. Step(s, j) = 1
    BY <2>1, <2>3, StepIs
  <2>5. Reaches(s, j) <=> Step(s, j) # 0 /\ Reaches(s, j + Step(s, j))
    BY <2>1, ReachesStep
  <2> QED BY <2>4, <2>5
<1> SUFFICES ASSUME ~(Reaches(s, 1) <=> Reaches(s, k + 1))
             PROVE  FALSE
  OBVIOUS
<1> DEFINE D == {j \in 0 .. k : ~(Reaches(s, 1) <=> Reaches(s, j + 1))}
<1>3. k \in D /\ D \subseteq Nat
  BY <1>1
<1>4. PICK m \in D : \A x \in D : m <= x
  <2> HIDE DEF D
  <2> QED BY <1>3, LeastIs
<1>5. m # 0
  OBVIOUS
<1>6. m \in 1 .. k /\ m - 1 \in 0 .. k /\ ~(m <= m - 1) /\ (m - 1) + 1 = m
  BY <1>1, <1>5
<1>7. Reaches(s, 1) <=> Reaches(s, m)
  <2>1. m - 1 \notin D
    BY <1>4, <1>6
  <2> QED BY <1>6, <2>1
<1> QED BY <1>2, <1>6, <1>7

(* The vector variants, which skip the leading blocks of ASCII. *)
LEMMA SkippedBlocks ==
    ASSUME NEW s \in Seq(Byte), NEW w \in Nat \ {0}, NEW k,
           k = FirstBlock(s, w, High) * w
    PROVE  utf8_scalar_validate(From(s, k)) <=> utf8_scalar_validate(s)
<1> DEFINE T == {c \in Byte : High(c)}
           n == FirstBlock(s, w, High)
           c == BlockCount(s, w)
           r == From(s, k)
<1>1. Len(s) \in Nat /\ c = Len(s) \div w
  BY LenProperties DEF BlockCount
<1>2. /\ c \in Nat /\ \A m \in 0 .. c : m * w \in 0 .. Len(s)
      /\ \A m \in 0 .. c - 1 : (m + 1) * w \in m * w .. Len(s)
                                /\ (m + 1) * w = m * w + w
  BY <1>1, BlockBound
<1>3. n = FirstWith(s, w, T)
  <2>1. ASSUME NEW m \in 0 .. c - 1, NEW j \in 1 .. w
        PROVE  High(s[m * w + j]) <=> s[m * w + j] \in T
    <3> DEFINE x == m * w
               y == (m + 1) * w
    <3>1. x \in 0 .. Len(s) /\ y \in x .. Len(s) /\ y = x + w
      <4>1. m \in 0 .. c
        BY <1>2
      <4> QED BY <1>2, <4>1
    <3> HIDE DEF x, y
    <3>2. x + j \in 1 .. Len(s)
      BY <1>1, <3>1
    <3>3. s[x + j] \in Byte
      BY <3>2, ElementOfSeq
    <3> QED BY <3>3 DEF x
  <2>2. {m \in 0 .. c - 1 : \E j \in 1 .. w : High(s[m * w + j])}
          = {m \in 0 .. c - 1 : \E j \in 1 .. w : s[m * w + j] \in T}
    BY <2>1
  <2> QED BY <2>2 DEF FirstBlock, FirstWith
<1>4. n \in 0 .. c /\ \A j \in 1 .. n * w : s[j] \notin T
  <2> HIDE DEF n, c, T
  <2>1. Stopped(s, w, T, c, n)
    BY <1>3, BlockFirst DEF c
  <2> QED BY <2>1 DEF Stopped
<1>5. k \in 0 .. Len(s)
  BY <1>2, <1>4
<1>6. \A j \in 1 .. k : ~High(s[j])
  <2>1. ASSUME NEW j \in 1 .. k
        PROVE  s[j] \in Byte /\ s[j] \notin T
    <3>1. j \in 1 .. Len(s)
      BY <1>1, <1>5
    <3> QED BY <1>4, <3>1, ElementOfSeq
  <2> QED BY <2>1
<1>7. /\ r \in Seq(Byte) /\ Len(r) = Len(s) - k
      /\ \A j \in 1 .. Len(s) - k : r[j] = s[k + j]
  <2>1. 0 \in 0 .. Len(s) - k
    BY <1>1, <1>5
  <2> QED BY <1>5, <2>1, EndOfEnd DEF From
<1>8. IsEnd(s, r, k)
  <2> HIDE DEF r
  <2>1. Len(r) \in Nat /\ k \in Nat /\ Len(s) = k + Len(r)
    <3>1. Len(r) = Len(s) - k
      BY <1>7
    <3>2. \A x \in Nat : \A y \in 0 .. x : x - y \in Nat /\ y \in Nat /\ x = y + (x - y)
      OBVIOUS
    <3> QED BY <1>1, <1>5, <3>1, <3>2
  <2> QED BY <1>1, <1>7, <2>1 DEF IsEnd
<1>9. Reaches(r, 1) <=> Reaches(s, k + 1)
  BY <1>7, <1>8, ReachesInEnd
<1>10. Reaches(s, 1) <=> Reaches(s, k + 1)
  BY <1>5, <1>6, ReachesOverAscii
<1> QED BY <1>7, <1>9, <1>10, ScalarIs

(* On every processor, whatever the lengths of the text and of the blocks, *)
(* ij_utf8_is_valid_dispatch accepts exactly well-formed UTF-8.            *)
THEOREM Utf8ValidExact ==
    ASSUME NEW s \in Seq(Byte), NEW cpu
    PROVE  utf8_is_valid_dispatch(cpu, s) <=> WellFormed(s)
<1>1. utf8_scalar_validate(s) <=> WellFormed(s)
  BY ScalarExact
<1>2. Avx2Block \in Nat \ {0} /\ NeonBlock \in Nat \ {0}
  BY SimdConstants
<1>3. utf8_x86_avx2_validate(s) <=> WellFormed(s)
  BY <1>1, <1>2, SkippedBlocks DEF utf8_x86_avx2_validate
<1>4. utf8_arm_neon_validate(s) <=> WellFormed(s)
  BY <1>1, <1>2, SkippedBlocks DEF utf8_arm_neon_validate
<1>5. utf8_kind(cpu) = "AVX2" \/ utf8_kind(cpu) = "NEON" \/ utf8_kind(cpu) = "SCALAR"
  BY DEF utf8_kind
<1>6. CASE Len(s) < Utf8MinLen
  BY <1>1, <1>6 DEF utf8_is_valid_dispatch
<1>7. CASE ~(Len(s) < Utf8MinLen)
  <2>1. CASE utf8_kind(cpu) = "AVX2"
    BY <1>3, <1>7, <2>1 DEF utf8_is_valid_dispatch
  <2>2. CASE utf8_kind(cpu) = "NEON"
    BY <1>4, <1>7, <2>2 DEF utf8_is_valid_dispatch
  <2>3. CASE utf8_kind(cpu) = "SCALAR"
    BY <1>1, <1>7, <2>3 DEF utf8_is_valid_dispatch
  <2> QED BY <1>5, <2>1, <2>2, <2>3
<1> QED BY <1>6, <1>7

(* A text of ASCII is valid on every processor: the scans of ij_event.c that *)
(* see no other byte need not ask.                                           *)
LEMMA AsciiIsValid ==
    ASSUME NEW s \in Seq(Byte), NEW cpu, \A k \in DOMAIN s : ~High(s[k])
    PROVE  utf8_is_valid_dispatch(cpu, s)
<1>1. Len(s) \in 0 .. Len(s) /\ DOMAIN s = 1 .. Len(s)
  BY LenProperties
<1>2. Reaches(s, 1)
  BY <1>1, ReachesOverAscii, ReachesEnd
<1> QED BY <1>2, ScalarIs, ScalarExact, Utf8ValidExact

----------------------------------------------------------------------------
(* Sums: what a fold with + over the positions of a sequence computes *)

\* f gives the sum of v over each set of positions up to n.
IsSum(f, v, n) ==
    /\ f \in [SUBSET (1 .. n) -> Nat] /\ f[{}] = 0
    /\ \A s \in SUBSET (1 .. n) : \A x \in s : f[s] = f[s \ {x}] + v[x]

(* One position more. *)
LEMMA SumExtends ==
    ASSUME NEW n \in Nat, NEW m \in Nat, n = m + 1, NEW v, \A x \in 1 .. n : v[x] \in Nat,
           NEW f, IsSum(f, v, m)
    PROVE  \E g : IsSum(g, v, n)
<1> DEFINE g == [s \in SUBSET (1 .. n) |->
                    IF n \in s THEN f[s \ {n}] + v[n] ELSE f[s]]
<1>1. \A s \in SUBSET (1 .. n) : s \ {n} \in SUBSET (1 .. m) /\ (n \notin s => s \in SUBSET (1 .. m))
  <2>1. \A x \in 1 .. n : x # n => x \in 1 .. m
    OBVIOUS
  <2> QED BY <2>1
<1>2. f \in [SUBSET (1 .. m) -> Nat] /\ f[{}] = 0
  BY DEF IsSum
<1>3. ASSUME NEW s \in SUBSET (1 .. n)
      PROVE  g[s] \in Nat
  <2>1. n \in 1 .. n
    OBVIOUS
  <2> QED BY <1>1, <1>2, <2>1
<1>4. g \in [SUBSET (1 .. n) -> Nat] /\ g[{}] = 0
  BY <1>2, <1>3
<1>5. ASSUME NEW s \in SUBSET (1 .. n), NEW x \in s
      PROVE  g[s] = g[s \ {x}] + v[x]
  <2>0. s \ {x} \in SUBSET (1 .. n)
    OBVIOUS
  <2>1. CASE x = n
    <3>1. n \notin s \ {x}
      BY <2>1
    <3> QED BY <2>0, <2>1, <3>1
  <2>2. CASE x # n /\ n \in s
    <3> DEFINE r == s \ {n}
    <3>1. r \in SUBSET (1 .. m) /\ x \in r /\ r \ {x} = (s \ {x}) \ {n}
      BY <1>1, <2>2
    <3>2. f[r] = f[r \ {x}] + v[x]
      BY <3>1 DEF IsSum
    <3>3. g[s] = f[r] + v[n] /\ g[s \ {x}] = f[r \ {x}] + v[n]
      BY <2>0, <2>2, <3>1
    <3>4. v[x] \in Nat /\ v[n] \in Nat
      OBVIOUS
    <3> HIDE DEF g, r
    <3>5. f[r] \in Nat /\ f[r \ {x}] \in Nat
      BY <1>2, <3>1
    <3> QED BY <3>2, <3>3, <3>4, <3>5
  <2>3. CASE n \notin s
    <3>1. s \in SUBSET (1 .. m) /\ n \notin s \ {x}
      BY <1>1, <2>3
    <3>2. f[s] = f[s \ {x}] + v[x]
      BY <3>1 DEF IsSum
    <3> QED BY <2>0, <2>3, <3>1, <3>2
  <2> QED BY <2>1, <2>2, <2>3
<1>6. IsSum(g, v, n)
  BY <1>4, <1>5 DEF IsSum
<1> QED BY <1>6

(* There are such sums. *)
LEMMA SumExists ==
    ASSUME NEW n \in Nat, NEW v, \A x \in 1 .. n : v[x] \in Nat
    PROVE  \E f : IsSum(f, v, n)
<1> DEFINE D == {k \in 0 .. n : ~\E f : IsSum(f, v, k)}
<1> SUFFICES ASSUME n \in D
             PROVE  FALSE
  OBVIOUS
<1>1. PICK k \in D : \A x \in D : k <= x
  <2>1. D \subseteq Nat
    OBVIOUS
  <2> HIDE DEF D
  <2> QED BY <2>1, LeastIs
<1>2. CASE k = 0
  <2> DEFINE f == [s \in SUBSET (1 .. 0) |-> 0]
  <2>1. SUBSET (1 .. 0) = {{}}
    OBVIOUS
  <2>2. IsSum(f, v, 0)
    BY <2>1 DEF IsSum
  <2> QED BY <1>2, <2>2
<1>3. CASE k # 0
  <2>1. k - 1 \in 0 .. n /\ k - 1 \in Nat /\ k = (k - 1) + 1 /\ ~(k <= k - 1) /\ k \in Nat
    BY <1>3
  <2>2. k - 1 \notin D
    BY <1>1, <2>1
  <2>3. PICK f : IsSum(f, v, k - 1)
    BY <2>1, <2>2
  <2>4. \A x \in 1 .. k : v[x] \in Nat
    OBVIOUS
  <2>5. \E g : IsSum(g, v, k)
    BY <2>1, <2>3, <2>4, SumExtends
  <2> QED BY <2>5
<1> QED BY <1>2, <1>3

\* The function MapThenFoldSet defines, for a fold with + that starts from 0.
FoldOf(it, v, n) ==
    [s \in SUBSET (1 .. n) |-> IF s = {} THEN 0
                               ELSE LET x == CHOOSE x \in s : TRUE
                                    IN  it[s \ {x}] + v[x]]

(* It takes the elements in an order of its own and still gives the sum. *)
LEMMA SumIsFold ==
    ASSUME NEW n \in Nat, NEW v, NEW f, IsSum(f, v, n)
    PROVE  /\ f = FoldOf(f, v, n)
           /\ \A it : it = FoldOf(it, v, n) => it[1 .. n] = f[1 .. n]
<1>1. f \in [SUBSET (1 .. n) -> Nat] /\ f[{}] = 0
  BY DEF IsSum
<1>2. ASSUME NEW s \in SUBSET (1 .. n), s # {}
      PROVE  LET x == CHOOSE x \in s : TRUE IN f[s] = f[s \ {x}] + v[x]
  <2> DEFINE x == CHOOSE x \in s : TRUE
  <2>1. x \in s
    BY <1>2
  <2> QED BY <2>1 DEF IsSum
<1>3. f = FoldOf(f, v, n)
  BY <1>1, <1>2 DEF FoldOf
<1>4. ASSUME NEW it, it = FoldOf(it, v, n), it[1 .. n] # f[1 .. n]
      PROVE  FALSE
  <2>1. \A s \in SUBSET (1 .. n) : IsFiniteSet(s) /\ Cardinality(s) \in Nat
    <3>1. IsFiniteSet(1 .. n)
      BY FS_Interval
    <3> QED BY <3>1, FS_Subset, FS_CardinalityType
  <2> DEFINE Bad == {s \in SUBSET (1 .. n) : it[s] # f[s]}
             D == {Cardinality(s) : s \in Bad}
  <2>2. D \subseteq Nat /\ Cardinality(1 .. n) \in D
    BY <1>4, <2>1
  <2>3. PICK c \in D : \A d \in D : c <= d
    <3> HIDE DEF D
    <3> QED BY <2>2, LeastIs
  <2>4. PICK s \in Bad : c = Cardinality(s)
    OBVIOUS
  <2>5. s # {}
    BY <1>1, <1>4 DEF FoldOf
  <2> DEFINE x == CHOOSE x \in s : TRUE
             r == s \ {x}
  <2>6. x \in s
    BY <2>5
  <2>7. r \in SUBSET (1 .. n) /\ Cardinality(r) = c - 1 /\ c \in Nat
    BY <2>1, <2>4, <2>6, FS_RemoveElement
  <2>8. it[r] = f[r]
    <3>1. c - 1 \notin D
      <4>1. ~(c <= c - 1)
        BY <2>7
      <4> QED BY <2>3, <4>1
    <3> QED BY <2>7, <3>1
  <2>9. it[s] = it[r] + v[x] /\ f[s] = f[r] + v[x]
    BY <1>2, <1>4, <2>5 DEF FoldOf
  <2> QED BY <2>8, <2>9
<1> QED BY <1>3, <1>4

(* The sums over the first positions. *)
LEMMA PrefixSums ==
    ASSUME NEW n \in Nat, NEW v, \A x \in 1 .. n : v[x] \in Nat, NEW f, IsSum(f, v, n)
    PROVE  /\ f[1 .. 0] = 0
           /\ \A k \in 1 .. n : f[1 .. k] = f[1 .. k - 1] + v[k]
           /\ \A k \in 0 .. n : f[1 .. k] \in Nat /\ f[1 .. k] <= f[1 .. n]
<1>1. 1 .. 0 = {} /\ \A k \in 0 .. n : 1 .. k \in SUBSET (1 .. n)
  OBVIOUS
<1>2. f[1 .. 0] = 0
  BY <1>1 DEF IsSum
<1>3. ASSUME NEW k \in 1 .. n
      PROVE  f[1 .. k] = f[1 .. k - 1] + v[k]
  <2>1. k \in 1 .. k /\ (1 .. k) \ {k} = 1 .. k - 1 /\ k \in 0 .. n
    OBVIOUS
  <2> DEFINE s == 1 .. k
  <2>2. s \in SUBSET (1 .. n) /\ k \in s /\ s \ {k} = 1 .. k - 1
    BY <1>1, <2>1
  <2> HIDE DEF s
  <2>3. f[s] = f[s \ {k}] + v[k]
    BY <2>2 DEF IsSum
  <2> QED BY <2>2, <2>3 DEF s
<1>4. \A k \in 0 .. n : f[1 .. k] \in Nat
  BY <1>1 DEF IsSum
<1>5. ASSUME NEW k \in 0 .. n, ~(f[1 .. k] <= f[1 .. n])
      PROVE  FALSE
  <2> DEFINE D == {d \in 0 .. n : ~(f[1 .. n - d] <= f[1 .. n])}
  <2>1. n - k \in D /\ D \subseteq Nat
    <3>1. n - k \in 0 .. n /\ n - (n - k) = k
      OBVIOUS
    <3> QED BY <1>5, <3>1
  <2>2. PICK d \in D : \A x \in D : d <= x
    <3> HIDE DEF D
    <3> QED BY <2>1, LeastIs
  <2>3. d # 0
    BY <1>4
  <2>4. d - 1 \in 0 .. n /\ ~(d <= d - 1)
    BY <2>3
  <2>5. d - 1 \notin D
    BY <2>2, <2>4
  <2> DEFINE j == n - (d - 1)
  <2>6. j \in 1 .. n /\ j - 1 = n - d /\ j - 1 \in 0 .. n /\ j \in 0 .. n /\ n \in 0 .. n
    BY <2>3
  <2>7. f[1 .. j] <= f[1 .. n]
    BY <2>4, <2>5
  <2> HIDE DEF j
  <2>8. f[1 .. j] = f[1 .. j - 1] + v[j] /\ v[j] \in Nat
    BY <1>3, <2>6
  <2>9. f[1 .. j - 1] \in Nat /\ f[1 .. j] \in Nat /\ f[1 .. n] \in Nat
    BY <1>4, <2>6
  <2>10. f[1 .. j - 1] <= f[1 .. n]
    BY <2>7, <2>8, <2>9
  <2> QED BY <2>6, <2>10
<1> QED BY <1>2, <1>3, <1>4, <1>5

----------------------------------------------------------------------------
(* The builder of the encoders *)

\* What is handed to the builder: a string, or Null for an error.
Piece == {Null} \cup Seq(Byte)

\* f gives the first k strings of q, one behind the other.
Flat(f, q, n, S) ==
    /\ f \in [0 .. n -> Seq(S)] /\ f[0] = << >>
    /\ \A k \in 1 .. n : f[k] = f[k - 1] \o q[k]

LEMMA FlatExists ==
    ASSUME NEW S, NEW n \in Nat, NEW q, \A k \in 1 .. n : q[k] \in Seq(S)
    PROVE  \E f : Flat(f, q, n, S)
<1> DEFINE D == {k \in 0 .. n : ~\E f : Flat(f, q, k, S)}
<1> SUFFICES ASSUME n \in D
             PROVE  FALSE
  OBVIOUS
<1>1. PICK k \in D : \A x \in D : k <= x
  <2>1. D \subseteq Nat
    OBVIOUS
  <2> HIDE DEF D
  <2> QED BY <2>1, LeastIs
<1>2. CASE k = 0
  <2> DEFINE f == [x \in 0 .. 0 |-> << >>]
  <2>1. << >> \in Seq(S) /\ 0 \in 0 .. 0 /\ 1 .. 0 = {}
    OBVIOUS
  <2>2. Flat(f, q, 0, S)
    BY <2>1 DEF Flat
  <2> QED BY <1>2, <2>2
<1>3. CASE k # 0
  <2>1. k - 1 \in 0 .. n /\ ~(k <= k - 1) /\ k \in 1 .. n /\ k \in Nat
    BY <1>3
  <2>2. k - 1 \notin D
    BY <1>1, <2>1
  <2>3. PICK f : Flat(f, q, k - 1, S)
    BY <2>1, <2>2
  <2>4. f \in [0 .. k - 1 -> Seq(S)] /\ f[0] = << >>
        /\ \A x \in 1 .. k - 1 : f[x] = f[x - 1] \o q[x]
    BY <2>3 DEF Flat
  <2> DEFINE g == [x \in 0 .. k |-> IF x = k THEN f[k - 1] \o q[k] ELSE f[x]]
  <2>5. \A x \in 0 .. k : x = k \/ x \in 0 .. k - 1
    BY <2>1
  <2>6. f[k - 1] \in Seq(S) /\ q[k] \in Seq(S)
    BY <2>1, <2>4
  <2>7. f[k - 1] \o q[k] \in Seq(S)
    BY <2>6, ConcatProperties
  <2>8. g \in [0 .. k -> Seq(S)] /\ g[0] = << >>
    BY <2>1, <2>4, <2>5, <2>7
  <2>9. ASSUME NEW x \in 1 .. k
        PROVE  g[x] = g[x - 1] \o q[x]
    <3>1. x \in 0 .. k /\ x - 1 \in 0 .. k /\ x - 1 # k /\ (x # k => x \in 1 .. k - 1)
      BY <2>1
    <3> QED BY <2>4, <3>1
  <2>10. Flat(g, q, k, S)
    BY <2>8, <2>9 DEF Flat
  <2> QED BY <2>10
<1> QED BY <1>2, <1>3

(* What FlattenSeq computes. *)
LEMMA FlattenIs ==
    ASSUME NEW S, NEW q \in Seq(Seq(S))
    PROVE  \E f : Flat(f, q, Len(q), S) /\ FlattenSeq(q) = f[Len(q)]
<1> DEFINE n == Len(q)
           F(g) == [i \in 1 .. n |-> IF i = 1 THEN q[i] ELSE g[i - 1] \o q[i]]
           flatten == CHOOSE g : g = F(g)
<1>1. n \in Nat /\ \A k \in 1 .. n : q[k] \in Seq(S)
  BY LenProperties, ElementOfSeq
<1>2. PICK f : Flat(f, q, n, S)
  <2> HIDE DEF n
  <2> QED BY <1>1, FlatExists
<1>3. f \in [0 .. n -> Seq(S)] /\ f[0] = << >> /\ \A k \in 1 .. n : f[k] = f[k - 1] \o q[k]
  BY <1>2 DEF Flat
<1>4. FlattenSeq(q) = IF n = 0 THEN q ELSE flatten[n]
  BY DEF FlattenSeq
<1>5. CASE n = 0
  <2>1. q = << >>
    BY <1>5
  <2> QED BY <1>2, <1>3, <1>4, <1>5, <2>1
<1>6. CASE n # 0
  <2> DEFINE g == [i \in 1 .. n |-> f[i]]
  <2> HIDE DEF n
  <2>1. n \in 1 .. n /\ 1 \in 1 .. n
    BY <1>1, <1>6
  <2>2. f[1] = q[1]
    <3>1. f[1] = f[0] \o q[1]
      <4>1. f[1] = f[1 - 1] \o q[1]
        BY <1>3, <2>1
      <4> QED BY <4>1
    <3>2. q[1] \in Seq(S)
      BY <1>1, <2>1
    <3> QED BY <1>3, <3>1, <3>2, ConcatEmptySeq
  <2>3. ASSUME NEW i \in 1 .. n
        PROVE  g[i] = IF i = 1 THEN q[i] ELSE g[i - 1] \o q[i]
    <3>1. CASE i = 1
      BY <2>2, <3>1
    <3>2. CASE i # 1
      <4>1. i - 1 \in 1 .. n
        BY <1>1, <3>2
      <4> QED BY <1>3, <3>2, <4>1
    <3> QED BY <3>1, <3>2
  <2>4. g = F(g)
    BY <2>3
  <2>5. flatten = F(flatten)
    <3> HIDE DEF F, g
    <3> QED BY <2>4
  <2> HIDE DEF flatten, g
  <2>6. \A i \in 1 .. n : flatten[i] = IF i = 1 THEN q[i] ELSE flatten[i - 1] \o q[i]
    BY <2>5
  <2> DEFINE D == {i \in 1 .. n : flatten[i] # f[i]}
  <2>7. ASSUME n \in D
        PROVE  FALSE
    <3>1. PICK i \in D : \A x \in D : i <= x
      <4>1. D \subseteq Nat
        BY <1>1
      <4> HIDE DEF D
      <4> QED BY <2>7, <4>1, LeastIs
    <3>2. i # 1
      BY <2>1, <2>2, <2>6
    <3>3. i - 1 \in 1 .. n /\ ~(i <= i - 1)
      BY <1>1, <3>2
    <3>4. flatten[i - 1] = f[i - 1]
      BY <3>1, <3>3
    <3> QED BY <1>3, <2>6, <3>2, <3>4
  <2>8. flatten[n] = f[n]
    BY <2>1, <2>7
  <2> QED BY <1>2, <1>4, <1>6, <2>8 DEF n
<1> QED BY <1>5, <1>6

\* The function that FoldLeft defines, for the builder.
Building(it, b, p, n) ==
    [s \in SUBSET (1 .. n) |-> IF s = {} THEN b
                               ELSE append_raw_n(it[s \ {Max(s)}], p[Max(s)])]

LEMMA MaxIs ==
    ASSUME NEW s \in SUBSET Nat, NEW m \in s, \A x \in s : x <= m
    PROVE  Max(s) = m
<1> DEFINE M == Max(s)
<1>1. M = CHOOSE x \in s : \A y \in s : x >= y
  BY DEF Max
<1>2. \A y \in s : m >= y
  OBVIOUS
<1> HIDE DEF M
<1>3. M \in s /\ \A y \in s : M >= y
  BY <1>1, <1>2
<1>4. M \in Nat /\ m \in Nat /\ M >= m /\ M <= m
  BY <1>3
<1> QED BY <1>4 DEF M

LEMMA BuildingExists ==
    ASSUME NEW n \in Nat, NEW p, NEW b
    PROVE  \E f : f = Building(f, b, p, n)
<1> DEFINE D == {k \in 0 .. n : ~\E f : f = Building(f, b, p, k)}
<1> SUFFICES ASSUME n \in D
             PROVE  FALSE
  OBVIOUS
<1>1. PICK k \in D : \A x \in D : k <= x
  <2>1. D \subseteq Nat
    OBVIOUS
  <2> HIDE DEF D
  <2> QED BY <2>1, LeastIs
<1>2. CASE k = 0
  <2> DEFINE f == [s \in SUBSET (1 .. 0) |-> b]
  <2>1. SUBSET (1 .. 0) = {{}}
    OBVIOUS
  <2>2. f = Building(f, b, p, 0)
    BY <2>1 DEF Building
  <2> QED BY <1>2, <2>2
<1>3. CASE k # 0
  <2>1. k - 1 \in 0 .. n /\ ~(k <= k - 1) /\ k \in 1 .. n /\ k \in Nat /\ k \in 1 .. k
    BY <1>3
  <2>2. k - 1 \notin D
    BY <1>1, <2>1
  <2>3. PICK f : f = Building(f, b, p, k - 1)
    BY <2>1, <2>2
  <2> DEFINE g == [s \in SUBSET (1 .. k) |->
                     IF k \in s THEN append_raw_n(f[s \ {k}], p[k]) ELSE f[s]]
  <2>4. \A s \in SUBSET (1 .. k) : k \notin s => s \in SUBSET (1 .. k - 1)
    <3>1. \A x \in 1 .. k : x # k => x \in 1 .. k - 1
      BY <2>1
    <3> QED BY <3>1
  <2>5. ASSUME NEW s \in SUBSET (1 .. k)
        PROVE  g[s] = IF s = {} THEN b ELSE append_raw_n(g[s \ {Max(s)}], p[Max(s)])
    <3>1. CASE k \in s
      <4>1. Max(s) = k
        <5>1. s \in SUBSET Nat /\ \A x \in s : x <= k
          BY <2>1
        <5> QED BY <3>1, <5>1, MaxIs
      <4>2. s \ {k} \in SUBSET (1 .. k) /\ k \notin s \ {k} /\ s # {}
        BY <3>1
      <4>3. g[s \ {k}] = f[s \ {k}]
        BY <4>2
      <4> QED BY <3>1, <4>1, <4>2, <4>3
    <3>2. CASE k \notin s
      <4>1. s \in SUBSET (1 .. k - 1) /\ g[s] = f[s]
        BY <2>4, <3>2
      <4> DEFINE x == Max(s)
      <4> HIDE DEF x
      <4>2. f[s] = IF s = {} THEN b ELSE append_raw_n(f[s \ {x}], p[x])
        BY <2>3, <4>1 DEF Building, x
      <4>3. s \ {x} \in SUBSET (1 .. k) /\ k \notin s \ {x}
        BY <3>2
      <4>4. g[s \ {x}] = f[s \ {x}]
        BY <4>3
      <4> HIDE DEF g
      <4>5. g[s] = IF s = {} THEN b ELSE append_raw_n(g[s \ {x}], p[x])
        BY <4>1, <4>2, <4>4
      <4> QED BY <4>5 DEF x
    <3> QED BY <3>1, <3>2
  <2>6. g = Building(g, b, p, k)
    BY <2>5 DEF Building
  <2> QED BY <2>6
<1> QED BY <1>2, <1>3

(* The builder after each piece. *)
Built(f, p, n, capacity) ==
    /\ f[0] = NewBuilder(capacity)
    /\ \A k \in 1 .. n : f[k] = append_raw_n(f[k - 1], p[k])
LEMMA BuildIs ==
    ASSUME NEW p, NEW n \in Nat, DOMAIN p = 1 .. n, NEW capacity
    PROVE  \E f : Built(f, p, n, capacity) /\ Build(capacity, p) = f[n]
<1> DEFINE b == NewBuilder(capacity)
           it == CHOOSE f : f = Building(f, b, p, n)
           f == [k \in 0 .. n |-> it[1 .. k]]
<1>1. Build(capacity, p) = it[1 .. n]
  BY DEF Build, FoldLeft, MapThenFoldSet, Building
<1>2. it = Building(it, b, p, n)
  BY BuildingExists
<1> HIDE DEF it, b
<1>3. \A k \in 0 .. n : 1 .. k \in SUBSET (1 .. n) /\ f[k] = it[1 .. k]
  OBVIOUS
<1>4. f[0] = b
  <2>1. 1 .. 0 = {} /\ 0 \in 0 .. n
    OBVIOUS
  <2> QED BY <1>2, <1>3, <2>1 DEF Building
<1>5. ASSUME NEW k \in 1 .. n
      PROVE  f[k] = append_raw_n(f[k - 1], p[k])
  <2>0. k \in 0 .. n /\ k - 1 \in 0 .. n /\ k \in 1 .. k
    OBVIOUS
  <2>1. (1 .. k) \ {k} = 1 .. k - 1 /\ 1 .. k # {}
    <3> HIDE DEF f
    <3>1. \A x : x \in (1 .. k) \ {k} <=> x \in 1 .. k - 1
      OBVIOUS
    <3> QED BY <2>0, <3>1
  <2> DEFINE s == 1 .. k
  <2>2. Max(s) = k
    <3>1. s \in SUBSET Nat /\ \A x \in s : x <= k
      OBVIOUS
    <3> HIDE DEF s
    <3> QED BY <2>0, <3>1, MaxIs DEF s
  <2>3. s \in SUBSET (1 .. n) /\ s # {} /\ s \ {k} = 1 .. k - 1
    BY <1>3, <2>0, <2>1
  <2> HIDE DEF s
  <2>4. it[s] = append_raw_n(it[s \ {k}], p[k])
    BY <1>2, <2>2, <2>3 DEF Building
  <2> QED BY <1>3, <2>0, <2>3, <2>4 DEF s
<1>6. Build(capacity, p) = f[n]
  BY <1>1, <1>3
<1> QED BY <1>4, <1>5, <1>6 DEF Built, b

\* One text comes first in another.
Begins(s, t) == \E r \in Seq(Byte) : t = s \o r
LEMMA BeginsIs ==
    ASSUME NEW s \in Seq(Byte), NEW t \in Seq(Byte), Begins(s, t)
    PROVE  /\ IsPrefix(s, t)
           /\ \A r \in Seq(Byte) : Begins(s, t \o r)
<1>1. PICK r \in Seq(Byte) : t = s \o r
  BY DEF Begins
<1>2. Len(t) = Len(s) + Len(r) /\ Len(s) \in Nat /\ Len(r) \in Nat
  BY <1>1, ConcatProperties, LenProperties
<1>3. SubSeq(t, 1, Len(s)) = s /\ SubSeq(s, 1, Len(s)) = s
  BY <1>1, PrefixOfConcat, SubSeqFull
<1>4. IsPrefix(s, t)
  BY <1>2, <1>3 DEF IsPrefix
<1>5. ASSUME NEW u \in Seq(Byte)
      PROVE  Begins(s, t \o u)
  <2>1. t \o u = s \o (r \o u)
    BY <1>1, ConcatAssociative
  <2>2. r \o u \in Seq(Byte)
    BY ConcatProperties
  <2> QED BY <2>1, <2>2 DEF Begins
<1> QED BY <1>4, <1>5

LEMMA BeginsItself ==
    ASSUME NEW s \in Seq(Byte)
    PROVE  Begins(s, s) /\ Begins(<< >>, s)
<1>1. s = s \o << >> /\ s = << >> \o s /\ << >> \in Seq(Byte)
  BY ConcatEmptySeq
<1> QED BY <1>1 DEF Begins

\* Of the builder b after k pieces, which make the text t if none is an error:
\* what it has is a beginning of t, and it gave up only for a reason.
BuiltSoFar(b, p, k, t, capacity) ==
    /\ b = [text |-> b.text, ok |-> b.ok, capacity |-> capacity]
    /\ b.ok \in BOOLEAN /\ b.text \in Seq(Byte) /\ Len(b.text) + 1 <= capacity
    /\ Begins(b.text, t)
    /\ IF b.ok THEN b.text = t /\ \A j \in 1 .. k : p[j] # Null
               ELSE (\E j \in 1 .. k : p[j] = Null) \/ Len(t) + 1 > capacity

(* One piece more, whether it is an error, fits or does not fit. *)
LEMMA BuiltNext ==
    ASSUME NEW p, NEW k \in Nat \ {0}, p[k] \in Piece, NEW t \in Seq(Byte),
           NEW capacity \in Nat \ {0}, NEW b, BuiltSoFar(b, p, k - 1, t, capacity),
           NEW x, x = IF p[k] = Null THEN << >> ELSE p[k]
    PROVE  BuiltSoFar(append_raw_n(b, p[k]), p, k, t \o x, capacity)
<1> DEFINE c == append_raw_n(b, p[k])
           u == t \o x
<1>1. x \in Seq(Byte) /\ u \in Seq(Byte) /\ Len(u) = Len(t) + Len(x)
      /\ Len(t) \in Nat /\ Len(x) \in Nat
  <2>1. x \in Seq(Byte)
    BY DEF Piece
  <2> QED BY <2>1, ConcatProperties, LenProperties
<1>2. /\ b = [text |-> b.text, ok |-> b.ok, capacity |-> capacity]
      /\ b.ok \in BOOLEAN /\ b.text \in Seq(Byte) /\ Len(b.text) + 1 <= capacity
      /\ Begins(b.text, t) /\ Len(b.text) \in Nat /\ b.capacity = capacity
  BY LenProperties DEF BuiltSoFar
<1>3. \A j \in 1 .. k : j \in 1 .. k - 1 \/ j = k
  OBVIOUS
<1>4. \A j \in 1 .. k - 1 : j \in 1 .. k
  OBVIOUS
<1>5. k \in 1 .. k
  OBVIOUS
<1>6. Begins(b.text, u)
  BY <1>1, <1>2, BeginsIs
<1> DEFINE fits == b.ok /\ p[k] # Null /\ Len(b.text) + Len(p[k]) + 1 <= capacity
<1>7. CASE fits
  <2>1. c = [text |-> b.text \o p[k], ok |-> b.ok, capacity |-> capacity]
    <3>1. c = [b EXCEPT !.text = @ \o p[k]]
      BY <1>2, <1>7 DEF append_raw_n, CanAppend
    <3> QED BY <1>2, <3>1
  <2>2. b.text = t /\ x = p[k] /\ \A j \in 1 .. k - 1 : p[j] # Null
    BY <1>7 DEF BuiltSoFar
  <2>3. c.text = u /\ c.ok = b.ok /\ c = [text |-> c.text, ok |-> c.ok, capacity |-> capacity]
    <3> HIDE DEF c
    <3>1. c.text = b.text \o p[k] /\ c.ok = b.ok /\ c.capacity = capacity
      BY <2>1
    <3> QED BY <2>1, <2>2, <3>1
  <2>4. \A j \in 1 .. k : p[j] # Null
    BY <1>3, <1>7, <2>2
  <2>5. Len(u) + 1 <= capacity
    BY <1>1, <1>7, <2>2
  <2> HIDE DEF c, u
  <2>6. Begins(c.text, u)
    BY <1>1, <2>3, BeginsItself
  <2> QED BY <1>1, <1>2, <1>7, <2>3, <2>4, <2>5, <2>6 DEF BuiltSoFar, c, u
<1>8. CASE ~fits
  <2>1. c = [text |-> b.text, ok |-> FALSE, capacity |-> capacity]
    <3>1. c = [b EXCEPT !.ok = FALSE]
      BY <1>2, <1>8 DEF append_raw_n, CanAppend
    <3> QED BY <1>2, <3>1
  <2>2. (\E j \in 1 .. k : p[j] = Null) \/ Len(u) + 1 > capacity
    <3>1. CASE ~b.ok
      <4>1. (\E j \in 1 .. k - 1 : p[j] = Null) \/ Len(t) + 1 > capacity
        BY <3>1 DEF BuiltSoFar
      <4>2. Len(t) + 1 > capacity => Len(u) + 1 > capacity
        BY <1>1
      <4> QED BY <1>4, <4>1, <4>2
    <3>2. CASE b.ok /\ p[k] # Null
      <4>1. b.text = t /\ x = p[k]
        BY <3>2 DEF BuiltSoFar
      <4>2. ~(Len(t) + Len(x) + 1 <= capacity)
        BY <1>8, <3>2, <4>1
      <4> QED BY <1>1, <4>2
    <3>3. CASE p[k] = Null
      BY <1>5, <3>3
    <3> QED BY <3>1, <3>2, <3>3
  <2>3. c.text = b.text /\ c.ok = FALSE /\ c = [text |-> c.text, ok |-> c.ok, capacity |-> capacity]
    BY <2>1
  <2> HIDE DEF c, u
  <2> QED BY <1>2, <1>6, <2>2, <2>3 DEF BuiltSoFar, c, u
<1> QED BY <1>7, <1>8

LEMMA JoinedIs ==
    ASSUME NEW p \in Seq(Piece)
    PROVE  /\ Joined(p) \in Seq(Byte)
           /\ \A capacity \in Nat \ {0} :
                 BuiltSoFar(Build(capacity, p), p, Len(p), Joined(p), capacity)
           /\ Len(p) = 1 => Joined(p) = IF p[1] = Null THEN << >> ELSE p[1]
<1> DEFINE n == Len(p)
           q == [k \in DOMAIN p |-> IF p[k] = Null THEN << >> ELSE p[k]]
<1>1. n \in Nat /\ DOMAIN p = 1 .. n /\ \A k \in 1 .. n : p[k] \in Piece
  BY LenProperties, ElementOfSeq
<1>2. q \in Seq(Seq(Byte)) /\ Len(q) = n /\ DOMAIN q = 1 .. n
  <2>1. \A k \in 1 .. n : (IF p[k] = Null THEN << >> ELSE p[k]) \in Seq(Byte)
    BY <1>1 DEF Piece
  <2>2. q \in [1 .. n -> Seq(Byte)]
    BY <1>1, <2>1
  <2> HIDE DEF q, n
  <2>3. q \in Seq(Seq(Byte))
    BY <1>1, <2>2, SeqDef
  <2> QED BY <1>1, <2>2, <2>3, LenProperties
<1>3. PICK f : Flat(f, q, n, Byte) /\ Joined(p) = f[n]
  <2>1. Joined(p) = FlattenSeq(q)
    BY DEF Joined
  <2> HIDE DEF q, n
  <2> QED BY <1>2, <2>1, FlattenIs
<1>4. /\ f \in [0 .. n -> Seq(Byte)] /\ f[0] = << >>
      /\ \A k \in 1 .. n : f[k] = f[k - 1] \o (IF p[k] = Null THEN << >> ELSE p[k])
  BY <1>1, <1>3 DEF Flat
<1>5. Joined(p) \in Seq(Byte)
  BY <1>1, <1>3, <1>4
<1>6. ASSUME NEW capacity \in Nat \ {0}
      PROVE  BuiltSoFar(Build(capacity, p), p, n, Joined(p), capacity)
  <2> HIDE DEF n, q
  <2>1. PICK g : Built(g, p, n, capacity) /\ Build(capacity, p) = g[n]
    BY <1>1, BuildIs
  <2>2. /\ g[0] = NewBuilder(capacity)
        /\ \A k \in 1 .. n : g[k] = append_raw_n(g[k - 1], p[k])
    BY <2>1 DEF Built
  <2> DEFINE D == {k \in 0 .. n : ~BuiltSoFar(g[k], p, k, f[k], capacity)}
  <2>3. ASSUME n \in D
        PROVE  FALSE
    <3>1. PICK k \in D : \A x \in D : k <= x
      <4>1. D \subseteq Nat
        BY <1>1
      <4> HIDE DEF D
      <4> QED BY <2>3, <4>1, LeastIs
    <3>2. k # 0
      <4>1. BuiltSoFar(NewBuilder(capacity), p, 0, << >>, capacity)
        <5> DEFINE b == NewBuilder(capacity)
        <5>1. b.text = << >> /\ b.ok = TRUE /\ b = [text |-> << >>, ok |-> TRUE, capacity |-> capacity]
          BY DEF NewBuilder
        <5>2. << >> \in Seq(Byte) /\ Len(<< >>) + 1 <= capacity /\ 1 .. 0 = {}
          OBVIOUS
        <5> HIDE DEF b
        <5> QED BY <5>1, <5>2, BeginsItself DEF BuiltSoFar, b
      <4> QED BY <1>4, <2>2, <4>1
    <3>3. k - 1 \in 0 .. n /\ ~(k <= k - 1) /\ k \in 1 .. n /\ k \in Nat \ {0}
      BY <1>1, <3>2
    <3>4. BuiltSoFar(g[k - 1], p, k - 1, f[k - 1], capacity)
      BY <3>1, <3>3
    <3>5. p[k] \in Piece /\ f[k - 1] \in Seq(Byte)
      BY <1>1, <1>4, <3>3
    <3>6. BuiltSoFar(append_raw_n(g[k - 1], p[k]), p, k,
                     f[k - 1] \o (IF p[k] = Null THEN << >> ELSE p[k]), capacity)
      BY <3>3, <3>4, <3>5, BuiltNext
    <3>7. BuiltSoFar(g[k], p, k, f[k], capacity)
      BY <1>4, <2>2, <3>3, <3>6
    <3> QED BY <3>7
  <2>4. n \in 0 .. n
    BY <1>1
  <2>5. BuiltSoFar(g[n], p, n, f[n], capacity)
    BY <2>3, <2>4
  <2> QED BY <1>3, <2>1, <2>5
<1>7. ASSUME n = 1
      PROVE  Joined(p) = IF p[1] = Null THEN << >> ELSE p[1]
  <2> DEFINE x == IF p[1] = Null THEN << >> ELSE p[1]
  <2>1. x \in Seq(Byte)
    <3>1. p[1] \in Piece
      BY <1>1, <1>7
    <3> QED BY <3>1 DEF Piece
  <2>2. f[1] = f[1 - 1] \o x
    BY <1>4, <1>7
  <2> HIDE DEF x
  <2>3. f[1] = << >> \o x
    <3>1. 1 - 1 = 0
      OBVIOUS
    <3> QED BY <1>4, <2>2, <3>1
  <2>4. f[1] = x
    BY <2>1, <2>3, ConcatEmptySeq
  <2> QED BY <1>3, <1>7, <2>4 DEF x
<1> QED BY <1>5, <1>6, <1>7

\* The payload b of the pieces p, which make the text t: it stays inside the
\* buffer, is accepted exactly if it is complete, and begins as it should.
Exactly(b, p, t, capacity) ==
    /\ b.capacity = capacity /\ b.ok \in BOOLEAN
    /\ b.text \in Seq(Byte) /\ Len(b.text) + 1 <= capacity
    /\ b.ok <=> (\A j \in 1 .. Len(p) : p[j] # Null) /\ Len(t) + 1 <= capacity
    /\ b.ok => b.text = t
    /\ IsPrefix(b.text, t)

LEMMA BuiltIsExact ==
    ASSUME NEW p \in Seq(Piece), NEW t \in Seq(Byte), NEW capacity \in Nat \ {0}, NEW b,
           BuiltSoFar(b, p, Len(p), t, capacity)
    PROVE  Exactly(b, p, t, capacity) /\ b.capacity = capacity
<1>1. /\ b.capacity = capacity /\ b.ok \in BOOLEAN /\ b.text \in Seq(Byte)
      /\ Len(b.text) + 1 <= capacity /\ Begins(b.text, t)
      /\ IF b.ok THEN b.text = t /\ \A j \in 1 .. Len(p) : p[j] # Null
                 ELSE (\E j \in 1 .. Len(p) : p[j] = Null) \/ Len(t) + 1 > capacity
  BY DEF BuiltSoFar
<1>2. IsPrefix(b.text, t)
  BY <1>1, BeginsIs
<1>3. Len(t) \in Nat /\ Len(p) \in Nat
  BY LenProperties
<1>4. Len(t) + 1 > capacity => ~(Len(t) + 1 <= capacity)
  BY <1>3
<1> QED BY <1>1, <1>2, <1>4 DEF Exactly

(* The builder and the two JSON encoders. *)
LEMMA ConsoleExact ==
    ASSUME NEW p \in Seq(Piece), NEW capacity \in Nat \ {0}
    PROVE  Exactly(json_console_encode(p, capacity), p, Joined(p), capacity)
BY JoinedIs, BuiltIsExact DEF json_console_encode

LEMMA NdjsonExact ==
    ASSUME NEW p \in Seq(Piece), NEW capacity \in Nat \ {0}, NEW t,
           t = Joined(p) \o (IF \A j \in 1 .. Len(p) : p[j] # Null THEN <<Lf>> ELSE << >>)
    PROVE  Exactly(ndjson_encode(p, capacity), p, t, capacity)
<1> DEFINE b == Build(capacity, p)
           w == Joined(p)
           whole == \A j \in 1 .. Len(p) : p[j] # Null
           c == ndjson_encode(p, capacity)
<1>1. w \in Seq(Byte) /\ BuiltSoFar(b, p, Len(p), w, capacity)
  BY JoinedIs
<1>2. c = IF b.ok /\ Len(b.text) + 2 <= b.capacity THEN [b EXCEPT !.text = Append(@, Lf)]
                                                   ELSE [b EXCEPT !.ok = FALSE]
  BY DEF ndjson_encode, json_console_encode, RoomForLf
<1>3. <<Lf>> \in Seq(Byte) /\ << >> \in Seq(Byte) /\ Len(<<Lf>>) = 1 /\ Lf \in Byte
  BY DEF Lf, Byte
<1>4. t = w \o (IF whole THEN <<Lf>> ELSE << >>)
  OBVIOUS
<1> HIDE DEF b, w, c
<1>5. /\ b = [text |-> b.text, ok |-> b.ok, capacity |-> capacity]
      /\ b.ok \in BOOLEAN /\ b.text \in Seq(Byte) /\ Len(b.text) + 1 <= capacity
      /\ Begins(b.text, w) /\ b.capacity = capacity /\ Len(b.text) \in Nat
      /\ b.ok => b.text = w /\ whole
      /\ ~b.ok => ~whole \/ Len(w) + 1 > capacity
  BY <1>1, LenProperties DEF BuiltSoFar
<1> HIDE DEF whole
<1>6. Begins(b.text, t) /\ t \in Seq(Byte) /\ Len(w) \in Nat
      /\ (whole => t = w \o <<Lf>> /\ Len(t) = Len(w) + 1)
  <2> DEFINE r == IF whole THEN <<Lf>> ELSE << >>
  <2>1. r \in Seq(Byte) /\ t = w \o r
    BY <1>3, <1>4
  <2>2. whole => r = <<Lf>> /\ Len(r) = 1
    BY <1>3
  <2> HIDE DEF r
  <2>3. t \in Seq(Byte) /\ Len(t) = Len(w) + Len(r) /\ Len(w) \in Nat
    BY <1>1, <2>1, ConcatProperties, LenProperties
  <2>4. Begins(b.text, t)
    BY <1>1, <1>5, <2>1, BeginsIs
  <2> QED BY <2>1, <2>2, <2>3, <2>4
<1>7. CASE b.ok /\ Len(b.text) + 2 <= capacity
  <2>1. c = [text |-> Append(b.text, Lf), ok |-> b.ok, capacity |-> capacity]
    BY <1>2, <1>5, <1>7
  <2>2. Append(b.text, Lf) = b.text \o <<Lf>>
    BY <1>3, <1>5, AppendIsConcat
  <2>3. c.text = t /\ c.ok = b.ok /\ c.capacity = capacity
    BY <1>5, <1>6, <1>7, <2>1, <2>2
  <2>4. Len(t) + 1 <= capacity /\ whole
    <3>1. whole /\ b.text = w
      BY <1>5, <1>7
    <3>2. Len(t) = Len(w) + 1 /\ Len(w) + 2 <= capacity
      BY <1>6, <1>7, <3>1
    <3> QED BY <1>6, <3>1, <3>2
  <2>5. IsPrefix(t, t)
    BY <1>6, BeginsIs, BeginsItself
  <2> QED BY <1>6, <1>7, <2>3, <2>4, <2>5 DEF Exactly, c, whole
<1>8. CASE ~(b.ok /\ Len(b.text) + 2 <= capacity)
  <2>1. c = [text |-> b.text, ok |-> FALSE, capacity |-> capacity]
    BY <1>2, <1>5, <1>8
  <2>2. c.text = b.text /\ c.ok = FALSE /\ c.capacity = capacity
    BY <2>1
  <2>3. ~(whole /\ Len(t) + 1 <= capacity)
    <3>1. CASE b.ok
      <4>1. ~(Len(w) + 2 <= capacity) /\ whole
        BY <1>5, <1>8, <3>1
      <4>2. Len(t) = Len(w) + 1
        BY <1>6, <4>1
      <4> QED BY <1>6, <4>1, <4>2
    <3>2. CASE ~b.ok /\ whole
      <4>1. Len(w) + 1 > capacity /\ Len(t) = Len(w) + 1
        BY <1>5, <1>6, <3>2
      <4> QED BY <1>6, <4>1
    <3>3. CASE ~whole
      BY <3>3
    <3> QED BY <3>1, <3>2, <3>3
  <2>4. IsPrefix(b.text, t)
    BY <1>5, <1>6, BeginsIs
  <2> QED BY <1>5, <2>2, <2>3, <2>4 DEF Exactly, c, whole
<1> QED BY <1>7, <1>8

(* The one piece of the syslog encoder, cut where the buffer ends. *)
LEMMA SyslogExact ==
    ASSUME NEW p \in Seq(Piece), NEW capacity \in Nat \ {0}, Len(p) = 1
    PROVE  Exactly(rfc5424_encode(p, capacity), p, Joined(p), capacity)
<1> DEFINE t == Joined(p)
           c == rfc5424_encode(p, capacity)
<1>1. t = (IF p[1] = Null THEN << >> ELSE p[1]) /\ t \in Seq(Byte)
  BY JoinedIs
<1>2. (\A j \in 1 .. Len(p) : p[j] # Null) <=> p[1] # Null
  OBVIOUS
<1>3. Len(t) \in Nat
  BY <1>1, LenProperties
<1> HIDE DEF t
<1>4. CASE p[1] = Null
  <2>1. c = [text |-> << >>, ok |-> FALSE, capacity |-> capacity]
    BY <1>4 DEF rfc5424_encode, NewBuilder
  <2>2. c.text = << >> /\ c.ok = FALSE /\ c.capacity = capacity
    BY <2>1
  <2>3. << >> \in Seq(Byte) /\ Len(<< >>) + 1 <= capacity
    OBVIOUS
  <2>4. IsPrefix(<< >>, t)
    BY <1>1, <2>3, BeginsIs, BeginsItself
  <2> HIDE DEF c
  <2> QED BY <1>2, <1>4, <2>2, <2>3, <2>4 DEF Exactly, c, t
<1>5. CASE p[1] # Null /\ Len(t) >= capacity
  <2> DEFINE m == capacity - 1
             s == SubSeq(t, 1, m)
  <2>1. c = [text |-> s, ok |-> FALSE, capacity |-> capacity]
    BY <1>1, <1>5 DEF rfc5424_encode, Snprintf
  <2>2. c.text = s /\ c.ok = FALSE /\ c.capacity = capacity
    BY <2>1
  <2>3. m \in 0 .. Len(t) /\ m + 1 <= capacity /\ ~(Len(t) + 1 <= capacity)
    BY <1>3, <1>5
  <2> HIDE DEF c, m
  <2>4. /\ s \in Seq(Byte) /\ Len(s) = m
        /\ SubSeq(t, m + 1, Len(t)) \in Seq(Byte)
        /\ t = s \o SubSeq(t, m + 1, Len(t))
    BY <1>1, <2>3, Split, Zenon
  <2> HIDE DEF s
  <2>5. IsPrefix(s, t)
    <3>1. Begins(s, t)
      BY <2>4 DEF Begins
    <3> QED BY <1>1, <2>4, <3>1, BeginsIs
  <2> QED BY <1>2, <1>5, <2>2, <2>3, <2>4, <2>5 DEF Exactly, c, t
<1>6. CASE p[1] # Null /\ ~(Len(t) >= capacity)
  <2>1. c = [text |-> t, ok |-> TRUE, capacity |-> capacity]
    BY <1>1, <1>6 DEF rfc5424_encode, Snprintf
  <2>2. c.text = t /\ c.ok = TRUE /\ c.capacity = capacity
    BY <2>1
  <2>3. Len(t) + 1 <= capacity
    BY <1>3, <1>6
  <2>4. IsPrefix(t, t)
    BY <1>1, BeginsIs, BeginsItself
  <2> HIDE DEF c
  <2> QED BY <1>1, <1>2, <1>6, <2>2, <2>3, <2>4 DEF Exactly, c, t
<1> QED BY <1>4, <1>5, <1>6

----------------------------------------------------------------------------
(* The pieces of the encoders are strings of bytes *)

LEMMA Joins ==
    ASSUME NEW S
    PROVE  /\ << >> \in Seq(S)
           /\ \A x \in S : <<x>> \in Seq(S)
           /\ \A s, t \in Seq(S) : s \o t \in Seq(S)
OBVIOUS

\* The recursion of ij_builder_append_uint64_decimal.
Digits(g, n) ==
    [v \in 0 .. n |-> IF v < 10 THEN <<Digit(v)>> ELSE Append(g[v \div 10], Digit(v % 10))]

LEMMA Tenth ==
    ASSUME NEW v \in Nat, ~(v < 10)
    PROVE  v \div 10 \in 0 .. v - 1 /\ Digit(v % 10) \in Byte
<1>1. v \div 10 \in Nat /\ v % 10 \in 0 .. 9 /\ v = 10 * (v \div 10) + (v % 10)
  OBVIOUS
<1>2. \A d \in 0 .. 9 : 48 + d \in 0 .. 255
  OBVIOUS
<1> QED BY <1>1, <1>2 DEF Digit, Byte

LEMMA DigitsExist ==
    ASSUME NEW n \in Nat
    PROVE  \E g : g = Digits(g, n)
<1> DEFINE D == {k \in 0 .. n : ~\E g : g = Digits(g, k)}
<1> SUFFICES ASSUME n \in D
             PROVE  FALSE
  OBVIOUS
<1>1. PICK k \in D : \A x \in D : k <= x
  <2>1. D \subseteq Nat
    OBVIOUS
  <2> HIDE DEF D
  <2> QED BY <2>1, LeastIs
<1>2. CASE k = 0
  <2> DEFINE g == [v \in 0 .. 0 |-> <<Digit(v)>>]
  <2>1. \A v \in 0 .. 0 : v < 10
    OBVIOUS
  <2>2. g = Digits(g, 0)
    BY <2>1 DEF Digits
  <2> QED BY <1>2, <2>2
<1>3. CASE k # 0
  <2>1. k - 1 \in 0 .. n /\ ~(k <= k - 1) /\ k \in Nat
    BY <1>3
  <2>2. k - 1 \notin D
    BY <1>1, <2>1
  <2>3. PICK f : f = Digits(f, k - 1)
    BY <2>1, <2>2
  <2> DEFINE last == IF k < 10 THEN <<Digit(k)>> ELSE Append(f[k \div 10], Digit(k % 10))
             g == [v \in 0 .. k |-> IF v = k THEN last ELSE f[v]]
  <2>4. \A v \in 0 .. k : v = k \/ v \in 0 .. k - 1
    BY <2>1
  <2>5. \A v \in 0 .. k : ~(v < 10) => v \div 10 \in 0 .. k /\ v \div 10 # k
    <3>1. ASSUME NEW v \in 0 .. k, ~(v < 10)
          PROVE  v \div 10 \in 0 .. k /\ v \div 10 # k
      <4>1. v \div 10 \in 0 .. v - 1
        BY <3>1, Tenth
      <4> QED BY <2>1, <4>1
    <3> QED BY <3>1
  <2>6. ASSUME NEW v \in 0 .. k
        PROVE  g[v] = IF v < 10 THEN <<Digit(v)>> ELSE Append(g[v \div 10], Digit(v % 10))
    <3>1. ~(v < 10) => g[v \div 10] = f[v \div 10]
      BY <2>5
    <3>2. CASE v = k
      BY <3>1, <3>2
    <3>3. CASE v # k
      <4>1. f[v] = IF v < 10 THEN <<Digit(v)>> ELSE Append(f[v \div 10], Digit(v % 10))
        BY <2>3, <2>4, <3>3 DEF Digits
      <4> QED BY <3>1, <3>3, <4>1
    <3> QED BY <3>2, <3>3
  <2>7. g = Digits(g, k)
    BY <2>6 DEF Digits
  <2> QED BY <2>7
<1> QED BY <1>2, <1>3

LEMMA DecimalIs ==
    ASSUME NEW value \in Nat
    PROVE  Decimal(value) \in Seq(Byte)
<1> DEFINE g == CHOOSE f : f = Digits(f, value)
<1>1. Decimal(value) = g[value]
  BY DEF Decimal, Digits
<1>2. g = Digits(g, value)
  BY DigitsExist
<1> HIDE DEF g
<1>3. \A v \in 0 .. value :
         g[v] = IF v < 10 THEN <<Digit(v)>> ELSE Append(g[v \div 10], Digit(v % 10))
  BY <1>2 DEF Digits
<1> DEFINE D == {v \in 0 .. value : g[v] \notin Seq(Byte)}
<1>4. ASSUME value \in D
      PROVE  FALSE
  <2>1. PICK v \in D : \A x \in D : v <= x
    <3>1. D \subseteq Nat
      OBVIOUS
    <3> HIDE DEF D
    <3> QED BY <1>4, <3>1, LeastIs
  <2>2. CASE v < 10
    <3>1. Digit(v) \in Byte
      BY <2>2 DEF Digit, Byte
    <3>2. <<Digit(v)>> \in Seq(Byte)
      BY <3>1, Joins
    <3> QED BY <1>3, <2>2, <3>2
  <2>3. CASE ~(v < 10)
    <3> DEFINE q == v \div 10
               d == Digit(v % 10)
    <3>1. q \in 0 .. v - 1 /\ d \in Byte
      BY <2>3, Tenth
    <3>2. g[v] = Append(g[q], d)
      BY <1>3, <2>3
    <3> HIDE DEF q, d
    <3>3. q \in 0 .. value /\ ~(v <= q)
      BY <3>1
    <3>4. g[q] \in Seq(Byte)
      BY <2>1, <3>3
    <3>5. g[v] \in Seq(Byte)
      BY <3>1, <3>2, <3>4, AppendProperties
    <3> QED BY <3>5
  <2> QED BY <2>2, <2>3
<1> QED BY <1>1, <1>4

(* The literals, in groups. *)
LEMMA EscapeBytes ==
    /\ B("\\n") \in Seq(Byte) /\ B("\\r") \in Seq(Byte) /\ B("\\t") \in Seq(Byte)
    /\ B("\\u00") \in Seq(Byte)
BY JsonLiterals, ZenonT(60)
LEMMA TimeBytes ==
    /\ B("-") \in Seq(Byte) /\ B("T") \in Seq(Byte) /\ B(":") \in Seq(Byte)
    /\ B(".") \in Seq(Byte) /\ B("Z") \in Seq(Byte)
BY JsonLiterals, ZenonT(60)
LEMMA LevelBytes ==
    /\ B("\"trace\"") \in Seq(Byte) /\ B("\"debug\"") \in Seq(Byte)
    /\ B("\"info\"") \in Seq(Byte) /\ B("\"warn\"") \in Seq(Byte)
    /\ B("\"error\"") \in Seq(Byte) /\ B("\"fatal\"") \in Seq(Byte)
    /\ B("\"unknown\"") \in Seq(Byte)
BY JsonLiterals, ZenonT(60)
LEMMA ValueBytes ==
    /\ B(",") \in Seq(Byte) /\ B("true") \in Seq(Byte) /\ B("false") \in Seq(Byte)
    /\ B(",\"attributes\":{") \in Seq(Byte) /\ B("}") \in Seq(Byte)
BY JsonLiterals, ZenonT(60)
LEMMA MemberBytes ==
    /\ B("{\"timestamp\":\"") \in Seq(Byte) /\ B("\",\"level\":") \in Seq(Byte)
    /\ B(",\"event_name\":") \in Seq(Byte) /\ B(",\"message\":") \in Seq(Byte)
    /\ B(",\"logger\":") \in Seq(Byte)
BY JsonLiterals, ZenonT(60)
LEMMA HeaderBytes ==
    /\ B("<") \in Seq(Byte) /\ B(">1 ") \in Seq(Byte) /\ B(" - ") \in Seq(Byte)
    /\ B(" - - -") \in Seq(Byte) /\ B("-") \in Seq(Byte)
<1>1. /\ <<60>> \in Seq(Byte) /\ <<62, 49, 32>> \in Seq(Byte) /\ <<45>> \in Seq(Byte)
      /\ <<32, 45, 32>> \in Seq(Byte) /\ <<32, 45, 32, 45, 32, 45>> \in Seq(Byte)
  BY DEF Byte
<1> QED BY <1>1, Rfc5424Literals, Zenon

LEMMA EscapedIs ==
    ASSUME NEW c \in Byte
    PROVE  Escaped(c) \in Seq(Byte)
<1>0. c \in 0 .. 255
  BY DEF Byte
<1>1. \A x, y \in Byte : <<x, y>> \in Seq(Byte) /\ <<x>> \in Seq(Byte)
  OBVIOUS
<1>2. Backslash \in Byte /\ Quote \in Byte
  BY DEF Byte, Backslash, Quote
<1>3. B("\\n") \in Seq(Byte) /\ B("\\r") \in Seq(Byte) /\ B("\\t") \in Seq(Byte)
      /\ B("\\u00") \in Seq(Byte)
  BY EscapeBytes
<1>4. c < 32 => HexDigit(c \div 16) \in Byte /\ HexDigit(c % 16) \in Byte
  <2>1. \A v \in 0 .. 15 : HexDigit(v) \in Byte
    BY DEF HexDigit, Digit, Byte
  <2>2. c < 32 => c \div 16 \in 0 .. 15 /\ c % 16 \in 0 .. 15
    BY <1>0
  <2> QED BY <2>1, <2>2
<1>5. c < 32 => B("\\u00") \o <<HexDigit(c \div 16), HexDigit(c % 16)>> \in Seq(Byte)
  BY <1>1, <1>3, <1>4, Joins
<1> QED BY <1>1, <1>2, <1>3, <1>5 DEF Escaped

\* The recursion of ij_builder_append_escaped_string_n.
NextSpecial(cpu, s, from) == from + json_escape_find_first_special(cpu, From(s, from))
Run(cpu, s, from) ==
    IF json_escape_find_first_special(cpu, From(s, from)) > 0
    THEN <<SubSeq(s, from + 1, NextSpecial(cpu, s, from))>> ELSE << >>
EscapedFrom(cpu, s, g, from) ==
    IF from = Len(s) THEN << >>
    ELSE IF NextSpecial(cpu, s, from) = Len(s) THEN Run(cpu, s, from)
    ELSE Run(cpu, s, from) \o <<Escaped(s[NextSpecial(cpu, s, from) + 1])>>
           \o g[NextSpecial(cpu, s, from) + 1]

LEMMA RunIs ==
    ASSUME NEW cpu, NEW s \in Seq(Byte), NEW from \in 0 .. Len(s)
    PROVE  /\ NextSpecial(cpu, s, from) \in from .. Len(s)
           /\ Run(cpu, s, from) \in Seq(Piece)
<1> DEFINE r == From(s, from)
           next == json_escape_find_first_special(cpu, r)
           at == from + next
<1>1. Len(s) \in Nat
  BY LenProperties
<1>2. r \in Seq(Byte) /\ Len(r) = Len(s) - from
  <2>1. r = SubSeq(s, from + 1, Len(s)) /\ 0 \in 0 .. Len(s) - from
    BY <1>1 DEF From
  <2> HIDE DEF r
  <2> QED BY <2>1, EndOfEnd
<1> HIDE DEF r
<1>3. next \in 0 .. Len(r)
  BY <1>2, EscapeScanExact DEF IsFirst
<1> HIDE DEF next
<1>4. at \in from .. Len(s)
  BY <1>1, <1>2, <1>3
<1> HIDE DEF at
<1>5. SubSeq(s, from + 1, at) \in Seq(Byte)
  BY <1>4, PartIs
<1>6. NextSpecial(cpu, s, from) = at
  BY DEF NextSpecial, at, next, r
<1>7. Run(cpu, s, from) \in Seq(Piece)
  BY <1>5, <1>6, Joins DEF Run, Piece
<1> QED BY <1>4, <1>6, <1>7

LEMMA EscapeStep ==
    ASSUME NEW cpu, NEW s \in Seq(Byte), NEW from \in 0 .. Len(s), NEW g,
           \A x \in from + 1 .. Len(s) : g[x] \in Seq(Piece)
    PROVE  /\ EscapedFrom(cpu, s, g, from) \in Seq(Piece)
           /\ \A h : (\A x \in from + 1 .. Len(s) : h[x] = g[x])
                        => EscapedFrom(cpu, s, h, from) = EscapedFrom(cpu, s, g, from)
<1> DEFINE at == NextSpecial(cpu, s, from)
           run == Run(cpu, s, from)
<1>1. Len(s) \in Nat /\ at \in from .. Len(s) /\ run \in Seq(Piece)
  BY RunIs, LenProperties
<1> HIDE DEF at, run
<1>2. CASE at = Len(s) \/ from = Len(s)
  BY <1>1, <1>2, Joins DEF EscapedFrom, at, run
<1>3. CASE at # Len(s) /\ from # Len(s)
  <2>1. at + 1 \in from + 1 .. Len(s) /\ at + 1 \in 1 .. Len(s)
    BY <1>1, <1>3
  <2>2. s[at + 1] \in Byte
    BY <2>1, ElementOfSeq
  <2>3. <<Escaped(s[at + 1])>> \in Seq(Piece)
    BY <2>2, EscapedIs, Joins DEF Piece
  <2>4. \A h : EscapedFrom(cpu, s, h, from) = run \o <<Escaped(s[at + 1])>> \o h[at + 1]
    BY <1>3 DEF EscapedFrom, at, run
  <2>5. run \o <<Escaped(s[at + 1])>> \o g[at + 1] \in Seq(Piece)
    BY <1>1, <2>1, <2>3, Joins
  <2> QED BY <2>1, <2>4, <2>5
<1> QED BY <1>2, <1>3

LEMMA EscapesExist ==
    ASSUME NEW cpu, NEW s \in Seq(Byte)
    PROVE  \E g : g = [from \in 0 .. Len(s) |-> EscapedFrom(cpu, s, g, from)]
<1> DEFINE L == Len(s)
           Good(g, d) == /\ g \in [L - d .. L -> Seq(Piece)]
                         /\ \A x \in L - d .. L : g[x] = EscapedFrom(cpu, s, g, x)
           D == {d \in 0 .. L : ~\E g : Good(g, d)}
<1>1. L \in Nat
  BY LenProperties
<1>2. ASSUME L \in D
      PROVE  FALSE
  <2>1. PICK d \in D : \A x \in D : d <= x
    <3>1. D \subseteq Nat
      BY <1>1
    <3> HIDE DEF D
    <3> QED BY <1>2, <3>1, LeastIs
  <2> HIDE DEF L
  <2>2. PICK f : /\ \A x \in L - d + 1 .. L : f[x] \in Seq(Piece)
                 /\ \A x \in L - d + 1 .. L : f[x] = EscapedFrom(cpu, s, f, x)
    <3>1. CASE d = 0
      <4>1. L - d + 1 .. L = {}
        BY <1>1, <3>1
      <4> QED BY <4>1
    <3>2. CASE d # 0
      <4>1. d - 1 \in 0 .. L /\ ~(d <= d - 1) /\ L - (d - 1) = L - d + 1
        BY <1>1, <3>2
      <4>2. PICK f : Good(f, d - 1)
        BY <2>1, <4>1
      <4> QED BY <4>1, <4>2
    <3> QED BY <3>1, <3>2
  <2> DEFINE b == L - d
             g == [x \in b .. L |-> IF x = b THEN EscapedFrom(cpu, s, f, b) ELSE f[x]]
  <2>3. b \in 0 .. L /\ \A x \in b .. L : x = b \/ x \in b + 1 .. L
    BY <1>1
  <2> HIDE DEF b
  <2>4. /\ \A x \in b + 1 .. L : f[x] \in Seq(Piece)
        /\ \A x \in b + 1 .. L : f[x] = EscapedFrom(cpu, s, f, x)
    BY <2>2 DEF b
  <2>5. \A x \in b + 1 .. L : g[x] = f[x]
    BY <1>1, <2>3
  <2>6. g[b] = EscapedFrom(cpu, s, f, b)
    BY <1>1, <2>3
  <2>7. ASSUME NEW x \in b .. L
        PROVE  g[x] \in Seq(Piece) /\ g[x] = EscapedFrom(cpu, s, g, x)
    <3>1. x \in 0 .. Len(s) /\ \A y \in x + 1 .. Len(s) : y \in b + 1 .. L
      BY <1>1, <2>3 DEF L
    <3>2. \A y \in x + 1 .. Len(s) : f[y] \in Seq(Piece) /\ g[y] = f[y]
      BY <2>4, <2>5, <3>1
    <3> HIDE DEF g
    <3>3. /\ EscapedFrom(cpu, s, f, x) \in Seq(Piece)
          /\ EscapedFrom(cpu, s, g, x) = EscapedFrom(cpu, s, f, x)
      BY <3>1, <3>2, EscapeStep
    <3>4. g[x] = EscapedFrom(cpu, s, f, x)
      BY <2>3, <2>4, <2>5, <2>6
    <3> QED BY <3>3, <3>4
  <2>8. Good(g, d)
    BY <2>7 DEF b
  <2> QED BY <2>8
<1>3. PICK g : Good(g, L)
  BY <1>1, <1>2
<1>4. L - L = 0
  BY <1>1
<1>5. g \in [0 .. L -> Seq(Piece)] /\ \A x \in 0 .. L : g[x] = EscapedFrom(cpu, s, g, x)
  BY <1>3, <1>4
<1>6. g = [x \in 0 .. L |-> EscapedFrom(cpu, s, g, x)]
  BY <1>5
<1> QED BY <1>6

LEMMA EscapedStringIs ==
    ASSUME NEW cpu, NEW s \in Seq(Byte)
    PROVE  append_escaped_string_n(cpu, s) \in Seq(Piece)
<1> DEFINE L == Len(s)
           g == CHOOSE f : f = [from \in 0 .. L |-> EscapedFrom(cpu, s, f, from)]
<1>1. L \in Nat
  BY LenProperties
<1>2. append_escaped_string_n(cpu, s) = g[0]
  BY DEF append_escaped_string_n, EscapedFrom, NextSpecial, Run
<1>3. g = [from \in 0 .. L |-> EscapedFrom(cpu, s, g, from)]
  BY EscapesExist
<1> HIDE DEF g
<1>4. \A from \in 0 .. L : g[from] = EscapedFrom(cpu, s, g, from)
  BY <1>3
<1> DEFINE D == {d \in 0 .. L : g[L - d] \notin Seq(Piece)}
<1>5. ASSUME L \in D
      PROVE  FALSE
  <2>1. PICK d \in D : \A x \in D : d <= x
    <3>1. D \subseteq Nat
      BY <1>1
    <3> HIDE DEF D
    <3> QED BY <1>5, <3>1, LeastIs
  <2> DEFINE b == L - d
  <2>2. b \in 0 .. L
    BY <1>1
  <2>3. ASSUME NEW x \in b + 1 .. L
        PROVE  g[x] \in Seq(Piece)
    <3>1. L - x \in 0 .. L /\ ~(d <= L - x) /\ L - (L - x) = x
      BY <1>1
    <3> QED BY <2>1, <3>1
  <2>4. EscapedFrom(cpu, s, g, b) \in Seq(Piece)
    <3> HIDE DEF b
    <3> QED BY <2>2, <2>3, EscapeStep
  <2> QED BY <1>4, <2>2, <2>4
<1>6. L - L = 0 /\ L \in 0 .. L
  BY <1>1
<1> QED BY <1>2, <1>5, <1>6

LEMMA DigitsOfIs ==
    ASSUME NEW value \in Int, NEW n \in 1 .. 4
    PROVE  DigitsOf(value, n) \in Seq(Byte)
<1>1. ASSUME NEW k \in 1 .. n
      PROVE  Digit((value \div <<1, 10, 100, 1000>>[n - k + 1]) % 10) \in Byte
  <2> DEFINE p == <<1, 10, 100, 1000>>[n - k + 1]
             q == value \div p
  <2>1. n - k + 1 \in 1 .. 4
    OBVIOUS
  <2>2. p \in {1, 10, 100, 1000}
    BY <2>1
  <2>3. p \in Nat \ {0}
    BY <2>2
  <2> HIDE DEF p
  <2>4. q \in Int
    BY <2>3
  <2> HIDE DEF q
  <2>5. q % 10 \in 0 .. 9
    BY <2>4
  <2>6. \A d \in 0 .. 9 : 48 + d \in 0 .. 255
    OBVIOUS
  <2> QED BY <2>5, <2>6 DEF Digit, Byte, p, q
<1>2. DigitsOf(value, n) \in [1 .. n -> Byte]
  BY <1>1 DEF DigitsOf
<1> QED BY <1>2, SeqDef

\* The types of a time stamp, and of a value in the copy.
IsTime(t) ==
    /\ t.nanoseconds \in Nat
    /\ t.tm.year \in Int /\ t.tm.mon \in 0 .. 11 /\ t.tm.mday \in 1 .. 31
    /\ t.tm.hour \in 0 .. 23 /\ t.tm.min \in 0 .. 59 /\ t.tm.sec \in 0 .. 60
IsValue(v) ==
    /\ v.kind = "STRING" => v.data.text \in Seq(Byte)
    /\ v.kind = "SIGNED" => v.num \in Int
    /\ v.kind = "UNSIGNED" => v.num \in Nat
    /\ v.kind = "DOUBLE" => v.data \in Seq(Byte)

LEMMA TimestampIs ==
    ASSUME NEW t, IsTime(t)
    PROVE  format_timestamp_rfc3339(t) \in Seq(Byte)
<1> DEFINE tm == t.tm
           year == DigitsOf(tm.year, 4)
           mon == DigitsOf(tm.mon + 1, 2)
           mday == DigitsOf(tm.mday, 2)
           hour == DigitsOf(tm.hour, 2)
           min == DigitsOf(tm.min, 2)
           sec == DigitsOf(tm.sec, 2)
           milli == Millis(t)
<1>1. /\ t.nanoseconds \in Nat /\ tm.year \in Int /\ tm.mon \in Int /\ tm.mday \in Int
      /\ tm.hour \in Int /\ tm.min \in Int /\ tm.sec \in Int
  BY SMT DEF IsTime
<1>2. /\ \A x \in Int : DigitsOf(x, 2) \in Seq(Byte) /\ DigitsOf(x, 4) \in Seq(Byte)
      /\ \A x \in Int : DigitsOf(x, 3) \in Seq(Byte)
  <2>1. 2 \in 1 .. 4 /\ 3 \in 1 .. 4 /\ 4 \in 1 .. 4
    OBVIOUS
  <2> QED BY <2>1, DigitsOfIs
<1>3. /\ year \in Seq(Byte) /\ mon \in Seq(Byte) /\ mday \in Seq(Byte) /\ hour \in Seq(Byte)
      /\ min \in Seq(Byte) /\ sec \in Seq(Byte) /\ milli \in Seq(Byte)
  <2>1. milli \in Seq(Byte)
    <3>1. t.nanoseconds \div NanosPerMilli \in Int
      BY <1>1, SMT DEF NanosPerMilli
    <3> QED BY <1>2, <3>1, Zenon DEF Millis
  <2>2. tm.mon + 1 \in Int
    BY <1>1, SMT
  <2> HIDE DEF milli
  <2> QED BY <1>1, <1>2, <2>1, <2>2, Zenon
<1> DEFINE whole == year \o B("-") \o mon \o B("-") \o mday \o B("T") \o hour \o B(":")
                      \o min \o B(":") \o sec \o B(".") \o milli \o B("Z")
<1>4. format_timestamp_rfc3339(t) = << >> \/ format_timestamp_rfc3339(t) = whole
  BY Zenon DEF format_timestamp_rfc3339
<1> HIDE DEF year, mon, mday, hour, min, sec, milli
<1>5. whole \in Seq(Byte)
  BY <1>3, TimeBytes, Joins
<1> HIDE DEF whole
<1> QED BY <1>4, <1>5, Joins

LEMMA StringPieces ==
    ASSUME NEW cpu, NEW s, s.text \in Seq(Byte)
    PROVE  /\ append_json_string_known_escape(cpu, s) \in Seq(Piece)
           /\ append_json_key_known_escape(cpu, s) \in Seq(Piece)
<1> DEFINE t == s.text
           e == append_escaped_string_n(cpu, t)
           string == append_json_string_known_escape(cpu, s)
           key == append_json_key_known_escape(cpu, s)
<1>1. e \in Seq(Piece)
  BY EscapedStringIs
<1>2. <<Quote>> \in Seq(Byte)
  BY Joins DEF Quote, Byte
<1>3. \A x \in Seq(Byte) : <<x>> \in Seq(Piece)
  BY Joins DEF Piece
<1>4. <<Quote>> \o t \o <<Quote>> \in Seq(Byte)
  BY <1>2, Joins
<1>5. <<Quote>> \o t \o <<Quote>> \o B(":") \in Seq(Byte)
  BY <1>4, Joins, TimeBytes
<1>6. << <<Quote>> >> \o e \o << <<Quote>> >> \in Seq(Piece)
  BY <1>1, <1>2, <1>3, Joins
<1>7. string = IF s.escape THEN << <<Quote>> >> \o e \o << <<Quote>> >>
               ELSE << <<Quote>> \o t \o <<Quote>> >>
  BY DEF append_json_string_known_escape
<1>8. key = IF s.escape THEN string \o <<B(":")>>
            ELSE << <<Quote>> \o t \o <<Quote>> \o B(":") >>
  BY DEF append_json_key_known_escape
<1> HIDE DEF string, key, e, t
<1>9. string \in Seq(Piece)
  BY <1>3, <1>4, <1>6, <1>7
<1>10. <<B(":")>> \in Seq(Piece)
  BY <1>3, TimeBytes
<1>11. key \in Seq(Piece)
  BY <1>3, <1>5, <1>8, <1>9, <1>10, Joins
<1> QED BY <1>9, <1>11 DEF string, key

LEMMA ValuePieces ==
    ASSUME NEW env, NEW v, IsValue(v)
    PROVE  append_attr_value(env, v) \in Seq(Piece)
<1> DEFINE pieces == append_attr_value(env, v)
<1>1. \A x \in Piece : <<x>> \in Seq(Piece)
  BY Joins
<1>2. \A n \in Nat : append_uint64_decimal(n) \in Seq(Piece)
  BY <1>1, DecimalIs DEF append_uint64_decimal, Piece
<1>3. CASE v.kind = "STRING"
  BY <1>3, StringPieces DEF IsValue, append_attr_value
<1>4. CASE v.kind = "SIGNED"
  <2> DEFINE m == Magnitude(v.num)
             sign == IF v.num < 0 THEN <<B("-")>> ELSE << >>
  <2>1. v.num \in Int /\ Word \in Nat \ {0}
    BY <1>4, JsonEncoderConstants DEF IsValue
  <2>2. m \in Nat
    <3>1. \A x \in Int : x % Word \in 0 .. Word - 1
      BY <2>1, ModRange
    <3>2. Word - (v.num % Word) \in Int
      BY <2>1, <3>1
    <3>3. (Word - (v.num % Word)) % Word \in Nat
      BY <2>1, <3>1, <3>2
    <3>4. ~(v.num < 0) => v.num \in Nat
      BY <2>1
    <3> QED BY <3>3, <3>4 DEF Magnitude
  <2>3. sign \in Seq(Piece)
    BY <1>1, TimeBytes, Joins DEF Piece
  <2>4. pieces = sign \o append_uint64_decimal(m)
    BY <1>4 DEF append_attr_value, append_int64_decimal
  <2> HIDE DEF m, sign, pieces
  <2>5. append_uint64_decimal(m) \in Seq(Piece)
    BY <1>2, <2>2
  <2>6. pieces \in Seq(Piece)
    BY <2>3, <2>4, <2>5, Joins
  <2> QED BY <2>6 DEF pieces
<1>5. CASE v.kind = "UNSIGNED"
  BY <1>2, <1>5 DEF IsValue, append_attr_value
<1>6. CASE v.kind = "BOOL"
  <2> DEFINE t == B("true")
             f == B("false")
  <2>1. t \in Piece /\ f \in Piece
    BY ValueBytes DEF Piece
  <2>2. pieces = <<IF v.num # 0 THEN t ELSE f>>
    BY <1>6, Zenon DEF append_attr_value
  <2> HIDE DEF t, f, pieces
  <2>3. pieces \in Seq(Piece)
    BY <1>1, <2>1, <2>2
  <2> QED BY <2>3 DEF pieces
<1>7. CASE v.kind = "DOUBLE"
  <2> DEFINE d == v.data
             printed == Printed(env.locale, d)
  <2>1. d \in Seq(Byte)
    BY <1>7 DEF IsValue
  <2>2. Len(d) \in Nat /\ DOMAIN d = 1 .. Len(d) /\ \A k \in 1 .. Len(d) : d[k] \in Byte
    BY <2>1, LenProperties, ElementOfSeq
  <2>3. Separator(env.locale) \in Byte
    BY DEF Separator, Byte
  <2>4. printed \in [1 .. Len(d) -> Byte]
    BY <2>2, <2>3 DEF Printed
  <2>5. printed \in Seq(Byte)
    BY <2>2, <2>4, SeqDef
  <2> HIDE DEF printed
  <2>6. printed \in Piece /\ Null \in Piece
    BY <2>5 DEF Piece
  <2>7. pieces = <<IF Len(d) >= NumberBuffer THEN Null ELSE printed>>
    BY <1>7 DEF append_attr_value, printed
  <2> HIDE DEF pieces
  <2>8. pieces \in Seq(Piece)
    BY <1>1, <2>6, <2>7
  <2> QED BY <2>8 DEF pieces
<1>8. CASE v.kind \notin {"STRING", "SIGNED", "UNSIGNED", "BOOL", "DOUBLE"}
  BY <1>1, <1>8 DEF append_attr_value, Piece
<1> QED BY <1>3, <1>4, <1>5, <1>6, <1>7, <1>8

LEMMA LevelPiece == ASSUME NEW level PROVE level_to_json_literal(level) \in Seq(Byte)
<1> DEFINE t == B("\"trace\"")
           d == B("\"debug\"")
           i == B("\"info\"")
           w == B("\"warn\"")
           e == B("\"error\"")
           f == B("\"fatal\"")
           u == B("\"unknown\"")
           x == level_to_json_literal(level)
<1>1. /\ t \in Seq(Byte) /\ d \in Seq(Byte) /\ i \in Seq(Byte) /\ w \in Seq(Byte)
      /\ e \in Seq(Byte) /\ f \in Seq(Byte) /\ u \in Seq(Byte)
  BY LevelBytes, Zenon
<1>2. x = IF level \in 0 .. 5 THEN <<t, d, i, w, e, f>>[level + 1] ELSE u
  BY Zenon DEF level_to_json_literal
<1> HIDE DEF t, d, i, w, e, f, u, x
<1>3. CASE level \in 0 .. 5
  <2>1. level + 1 \in 1 .. 6
    BY <1>3
  <2>2. <<t, d, i, w, e, f>>[level + 1] \in Seq(Byte)
    BY <1>1, <2>1
  <2> QED BY <1>2, <1>3, <2>2 DEF x
<1>4. CASE level \notin 0 .. 5
  BY <1>1, <1>2, <1>4 DEF x
<1> QED BY <1>3, <1>4

\* The owned strings and values of a copy, as far as the encoders read them.
IsCopied(a) == a.key.text \in Seq(Byte) /\ IsValue(a.value)

LEMMA AttributePieces ==
    ASSUME NEW env, NEW attrs, NEW n \in Nat, DOMAIN attrs = 1 .. n,
           \A k \in 1 .. n : IsCopied(attrs[k])
    PROVE  Attributes(env, attrs) \in Seq(Piece)
<1> DEFINE comma == B(",")
           open == B(",\"attributes\":{")
           close == B("}")
           one(k) == (IF k > 1 THEN <<comma>> ELSE << >>)
                       \o append_json_key_known_escape(env.cpu, attrs[k].key)
                       \o append_attr_value(env, attrs[k].value)
           q == [k \in DOMAIN attrs |-> one(k)]
           pieces == Attributes(env, attrs)
<1>1. comma \in Piece /\ open \in Piece /\ close \in Piece
  BY ValueBytes, Zenon DEF Piece
<1>2. pieces = IF attrs = << >> THEN << >> ELSE <<open>> \o FlattenSeq(q) \o <<close>>
  BY Zenon DEF Attributes
<1> HIDE DEF comma, open, close, pieces
<1>3. ASSUME NEW k \in 1 .. n
      PROVE  one(k) \in Seq(Piece)
  <2> DEFINE key == append_json_key_known_escape(env.cpu, attrs[k].key)
             value == append_attr_value(env, attrs[k].value)
             c == IF k > 1 THEN <<comma>> ELSE << >>
  <2>1. key \in Seq(Piece) /\ value \in Seq(Piece)
    BY StringPieces, ValuePieces DEF IsCopied
  <2>2. c \in Seq(Piece)
    BY <1>1, Joins
  <2> HIDE DEF key, value, c
  <2>3. c \o key \o value \in Seq(Piece)
    BY <2>1, <2>2, Joins
  <2> QED BY <2>3 DEF c, key, value
<1> HIDE DEF one
<1>4. q \in [1 .. n -> Seq(Piece)]
  BY <1>3
<1> HIDE DEF q
<1>5. q \in Seq(Seq(Piece))
  BY <1>4, SeqDef
<1>6. FlattenSeq(q) \in Seq(Piece)
  <2>1. PICK f : Flat(f, q, Len(q), Piece) /\ FlattenSeq(q) = f[Len(q)]
    BY <1>5, FlattenIs
  <2>2. Len(q) \in 0 .. Len(q)
    BY <1>5, LenProperties
  <2> QED BY <2>1, <2>2 DEF Flat
<1>7. <<open>> \in Seq(Piece) /\ <<close>> \in Seq(Piece) /\ << >> \in Seq(Piece)
  BY <1>1, Joins
<1>8. pieces \in Seq(Piece)
  BY <1>2, <1>6, <1>7, Joins
<1> QED BY <1>8 DEF pieces

\* The copy of an event, as far as the encoders read it.
IsCopy(c) ==
    /\ c.fields[1].text \in Seq(Byte) /\ c.fields[2].text \in Seq(Byte)
    /\ c.fields[3] # Null => c.fields[3].text \in Seq(Byte)
    /\ \E n \in Nat : DOMAIN c.attributes = 1 .. n /\ \A k \in 1 .. n : IsCopied(c.attributes[k])

LEMMA JsonPiecesAre ==
    ASSUME NEW env, NEW head, IsTime(head.timestamp), NEW copied, IsCopy(copied)
    PROVE  JsonPieces(env, head, copied) \in Seq(Piece)
<1> DEFINE time == format_timestamp_rfc3339(head.timestamp)
           level == level_to_json_literal(head.level)
           b1 == B("{\"timestamp\":\"")
           b2 == B("\",\"level\":")
           b3 == B(",\"event_name\":")
           b4 == B(",\"message\":")
           b5 == B(",\"logger\":")
           b6 == B("}")
           name == Member(env.cpu, b3, copied.fields[1])
           message == Member(env.cpu, b4, copied.fields[2])
           logger == IF copied.fields[3] = Null THEN << >>
                     ELSE Member(env.cpu, b5, copied.fields[3])
           attrs == Attributes(env, copied.attributes)
           pieces == JsonPieces(env, head, copied)
<1>1. /\ b1 \in Piece /\ b2 \in Piece /\ b3 \in Piece /\ b4 \in Piece /\ b5 \in Piece
      /\ b6 \in Piece
  BY MemberBytes, ValueBytes, Zenon DEF Piece
<1>2. time \in Piece /\ level \in Piece
  BY TimestampIs, LevelPiece DEF Piece
<1>3. pieces = IF time = << >> THEN <<Null>>
               ELSE <<b1, time, b2, level>> \o name \o message \o logger \o attrs \o <<b6>>
  BY Zenon DEF JsonPieces
<1>4. attrs \in Seq(Piece)
  BY AttributePieces DEF IsCopy
<1> HIDE DEF time, level, b1, b2, b3, b4, b5, b6, attrs, pieces
<1>5. ASSUME NEW label \in Piece, NEW s, s.text \in Seq(Byte)
      PROVE  Member(env.cpu, label, s) \in Seq(Piece)
  <2> DEFINE string == append_json_string_known_escape(env.cpu, s)
  <2>1. string \in Seq(Piece)
    BY <1>5, StringPieces
  <2> HIDE DEF string
  <2>2. <<label>> \o string \in Seq(Piece)
    BY <2>1, Joins
  <2> QED BY <2>2 DEF Member, string
<1>6. name \in Seq(Piece) /\ message \in Seq(Piece)
  BY <1>1, <1>5 DEF IsCopy
<1>7. logger \in Seq(Piece)
  BY <1>1, <1>5, Joins DEF IsCopy
<1> HIDE DEF name, message, logger
<1>8. <<Null>> \in Seq(Piece) /\ <<b6>> \in Seq(Piece) /\ <<b1, time, b2, level>> \in Seq(Piece)
  <2>1. Null \in Piece
    BY DEF Piece
  <2> QED BY <1>1, <1>2, <2>1
<1>9. pieces \in Seq(Piece)
  BY <1>3, <1>4, <1>6, <1>7, <1>8, Joins
<1> QED BY <1>9 DEF pieces

LEMMA SyslogPiecesAre ==
    ASSUME NEW config, NEW head, NEW copied, IsTime(head.timestamp), IsCopy(copied),
           config.logger_name \in Piece, config.facility \in Nat, head.level \in 0 .. 5
    PROVE  SyslogPieces(config, head, copied) \in Seq(Piece)
             /\ Len(SyslogPieces(config, head, copied)) = 1
<1> DEFINE time == format_timestamp_rfc3339(head.timestamp)
           message == copied.fields[2].text
           logger == IF copied.fields[3] = Null THEN Null ELSE copied.fields[3].text
           raw == syslog_app_name(logger, config.logger_name)
           app == syslog_sanitize_app_name(raw)
           pri == Decimal(Pri(config.facility, head.level))
           b1 == B("<")
           b2 == B(">1 ")
           b3 == B(" - ")
           b4 == B(" - - -")
           tail == IF message = << >> THEN << >> ELSE <<Space>> \o message
           header == b1 \o pri \o b2 \o time \o b3 \o app \o b4
           pieces == SyslogPieces(config, head, copied)
<1>1. /\ b1 \in Seq(Byte) /\ b2 \in Seq(Byte) /\ b3 \in Seq(Byte) /\ b4 \in Seq(Byte)
      /\ B("-") \in Seq(Byte)
  BY HeaderBytes, Zenon
<1>2. pieces = IF time = << >> THEN <<Null>> ELSE <<header \o tail>>
  BY Zenon DEF SyslogPieces
<1>3. time \in Seq(Byte) /\ message \in Seq(Byte) /\ logger \in Piece
  BY TimestampIs DEF IsCopy, Piece
<1>4. pri \in Seq(Byte)
  <2>1. Pri(config.facility, head.level) \in Nat
    <3>1. syslog_severity_from_level(head.level) \in Nat
      <4>1. head.level + 1 \in 1 .. 6
        OBVIOUS
      <4> QED BY <4>1 DEF syslog_severity_from_level
    <3> QED BY <3>1 DEF Pri
  <2> QED BY <2>1, DecimalIs
<1>5. raw \in Seq(Byte)
  <2> HIDE DEF logger
  <2> QED BY <1>1, <1>3, Zenon DEF syslog_app_name, Piece
<1> HIDE DEF b1, b2, b3, b4, pri, raw, time, message, logger
<1>6. app \in Seq(Byte)
  <2> DEFINE m == Min({Len(raw), AppNameMax})
  <2>1. Len(raw) \in Nat /\ AppNameMax \in Nat
    BY <1>5, LenProperties, Rfc5424Constants
  <2>2. m \in 0 .. Len(raw)
    <3> DEFINE S == {Len(raw), AppNameMax}
    <3>1. S \in SUBSET Nat /\ S # {} /\ Len(raw) \in S
      BY <2>1
    <3> HIDE DEF S
    <3>2. Min(S) \in S /\ Min(S) <= Len(raw)
      BY <3>1, LeastIs
    <3>3. m \in Nat /\ m <= Len(raw)
      BY <3>1, <3>2 DEF S
    <3> HIDE DEF m
    <3> QED BY <2>1, <3>3
  <2> HIDE DEF m
  <2>3. \A k \in 1 .. m : raw[k] \in Byte
    BY <1>5, <2>1, <2>2, ElementOfSeq
  <2>4. 95 \in Byte
    BY DEF Byte
  <2>5. app \in [1 .. m -> Byte]
    BY <2>3, <2>4 DEF syslog_sanitize_app_name, m
  <2> HIDE DEF app
  <2> QED BY <2>2, <2>5, SeqDef
<1> HIDE DEF app
<1>7. header \in Seq(Byte)
  BY <1>1, <1>3, <1>4, <1>6, Joins
<1>8. tail \in Seq(Byte)
  <2>1. <<Space>> \in Seq(Byte)
    BY Joins DEF Space, Byte
  <2> QED BY <1>3, <2>1, Joins
<1> HIDE DEF header, tail, pieces
<1>9. header \o tail \in Piece /\ Null \in Piece
  BY <1>7, <1>8, Joins DEF Piece
<1>10. pieces \in Seq(Piece) /\ Len(pieces) = 1
  BY <1>2, <1>9
<1> QED BY <1>10 DEF pieces
====
