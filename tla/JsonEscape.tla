---- MODULE JsonEscape ----
(***************************************************************************)
(* ij_json_escape_find_first_special, the scan for the first byte that     *)
(* JSON escapes: src/src/encoders/ij_json_escape_scalar.c and the AVX2 and *)
(* NEON variants.  Each returns how many bytes come before it.             *)
(***************************************************************************)
EXTENDS Simd

\* The comparisons of the scalar loop and of the NEON mask.
Special(c) == c \in {Backslash, Quote, Lf, Cr, Tab} \/ c < 32

\* How many bytes of s come before the first one that passes Test.
Before(s, Test(_)) == Min({k - 1 : k \in {j \in DOMAIN s : Test(s[j])}} \cup {Len(s)})

json_escape_scalar_find_first_special(s) == Before(s, Special)

\* _mm256_subs_epu8 saturates at 0.
MutControlBelowLimit(c) == c < 31
Control(c) == (IF c > 31 THEN c - 31 ELSE 0) = 0
MaskBit(c) == c \in {Quote, Backslash, Lf, Cr, Tab} \/ Control(c)

\* A block with a bit in its mask gives the position at once.
json_escape_x86_avx2_find_first_special(s) ==
    LET n == FirstBlock(s, Avx2Block, MaskBit)
        i == n * Avx2Block
    IN  IF n < BlockCount(s, Avx2Block)
        THEN i + Before(BlockAt(s, Avx2Block, n), MaskBit)
        ELSE i + json_escape_scalar_find_first_special(From(s, i))

\* A block with a special byte is searched again by the scalar loop.
json_escape_arm_neon_find_first_special(s) ==
    LET n == FirstBlock(s, NeonBlock, Special)
        i == n * NeonBlock
    IN  IF n < BlockCount(s, NeonBlock)
        THEN i + json_escape_scalar_find_first_special(BlockAt(s, NeonBlock, n))
        ELSE i + json_escape_scalar_find_first_special(From(s, i))

json_escape_find_first_special(cpu, s) ==
    IF Len(s) < EscapeMinLen THEN json_escape_scalar_find_first_special(s)
    ELSE CASE json_escape_kind(cpu) = "AVX2" -> json_escape_x86_avx2_find_first_special(s)
           [] json_escape_kind(cpu) = "NEON" -> json_escape_arm_neon_find_first_special(s)
           [] json_escape_kind(cpu) = "SCALAR" -> json_escape_scalar_find_first_special(s)

----------------------------------------------------------------------------
(* The reference, RFC 8259: what may not stand in a string as it is. *)

MustEscape == {Quote, Backslash} \cup (0 .. 31)
====
