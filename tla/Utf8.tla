---- MODULE Utf8 ----
(***************************************************************************)
(* UTF-8 validation: src/src/core/ij_utf8_scalar.c and the AVX2 and NEON   *)
(* variants, which skip leading blocks of ASCII and hand the rest to the   *)
(* scalar one.                                                             *)
(***************************************************************************)
EXTENDS Simd

\* (b & 0xc0) == 0x80
Continuation(b) == b \div 64 = 2

\* Second bytes that make a three or four byte sequence too long for its code
\* point, a surrogate or larger than U+10FFFF.
MutExcludedNoSurrogates(c, second) ==
    (c = 224 /\ second < 160) \/ (c = 240 /\ second < 144) \/ (c = 244 /\ second >= 144)
Excluded(c, second) ==
    \/ c = 224 /\ second < 160
    \/ c = 237 /\ second >= 160
    \/ c = 240 /\ second < 144
    \/ c = 244 /\ second >= 144

\* How far the scalar loop moves on at s[i]; 0 where it returns false.
Step(s, i) ==
    LET c == s[i]
        follow(n) == /\ Len(s) - i + 1 >= n
                     /\ \A k \in 1 .. n - 1 : Continuation(s[i + k])
    IN  CASE c <= 127 -> 1
          [] c \div 32 = 6 -> IF follow(2) /\ c >= 194 THEN 2 ELSE 0
          [] c \div 16 = 14 -> IF follow(3) /\ ~Excluded(c, s[i + 1]) THEN 3 ELSE 0
          [] c \div 8 = 30 ->
                IF follow(4) /\ ~Excluded(c, s[i + 1]) /\ c <= 244 THEN 4 ELSE 0
          [] OTHER -> 0

utf8_scalar_validate(s) ==
    LET valid[i \in 1 .. Len(s) + 1] ==
            IF i > Len(s) THEN TRUE ELSE LET n == Step(s, i) IN n # 0 /\ valid[i + n]
    IN  valid[1]

\* The sign bit of a byte; the loop stops at the first block that has one.
High(b) == b >= 128
utf8_x86_avx2_validate(s) ==
    utf8_scalar_validate(From(s, FirstBlock(s, Avx2Block, High) * Avx2Block))
utf8_arm_neon_validate(s) ==
    utf8_scalar_validate(From(s, FirstBlock(s, NeonBlock, High) * NeonBlock))

utf8_is_valid_dispatch(cpu, s) ==
    IF Len(s) < Utf8MinLen THEN utf8_scalar_validate(s)
    ELSE CASE utf8_kind(cpu) = "AVX2" -> utf8_x86_avx2_validate(s)
           [] utf8_kind(cpu) = "NEON" -> utf8_arm_neon_validate(s)
           [] utf8_kind(cpu) = "SCALAR" -> utf8_scalar_validate(s)

----------------------------------------------------------------------------
(* The reference, RFC 3629: a text is a sequence of characters, each the   *)
(* shortest encoding of a code point that is not a surrogate.              *)

Surrogates == 55296 .. 57343

\* The n bytes at s[i] have the bit pattern of an n byte character.
Pattern(s, i, n) ==
    /\ i + n - 1 <= Len(s)
    /\ s[i] \in <<0 .. 127, 192 .. 223, 224 .. 239, 240 .. 247>>[n]
    /\ \A k \in 1 .. n - 1 : s[i + k] \in 128 .. 191

CodePoint(s, i, n) ==
    LET value[k \in 0 .. n - 1] ==
            IF k = 0 THEN s[i] % <<128, 32, 16, 8>>[n]
                     ELSE 64 * value[k - 1] + (s[i + k] % 64)
    IN  value[n - 1]

Character(s, i, n) ==
    /\ Pattern(s, i, n)
    /\ LET point == CodePoint(s, i, n)
       IN  /\ point >= <<0, 128, 2048, 65536>>[n]
           /\ point <= 1114111
           /\ point \notin Surrogates

WellFormed(s) ==
    LET formed[i \in 1 .. Len(s) + 1] ==
            IF i > Len(s) THEN TRUE
            ELSE \E n \in 1 .. 4 : Character(s, i, n) /\ formed[i + n]
    IN  formed[1]
====
