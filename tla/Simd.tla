---- MODULE Simd ----
(***************************************************************************)
(* src/src/encoders/ij_simd_dispatch.h: which variant of a scanning        *)
(* function runs on which processor, and what the vector variants have in  *)
(* common: they work through a text in whole blocks and leave the rest to  *)
(* the scalar variant.  Block and minimum lengths are constants here; the  *)
(* code has 32 and 16 bytes, and 32 for both minima.                       *)
(*                                                                         *)
(* A definition named Mut... is a deliberately wrong variant of the one    *)
(* below it, used to test that a property can fail.                        *)
(***************************************************************************)
EXTENDS Bytes, FiniteSets, FiniteSetsExt

CONSTANTS Avx2Block,     \* bytes of a __m256i
          NeonBlock,     \* bytes of a uint8x16_t
          EscapeMinLen,  \* IJ_SIMD_JSON_ESCAPE_MIN_LEN
          Utf8MinLen     \* IJ_SIMD_UTF8_MIN_LEN

ASSUME SimdConstants ==
    /\ {Avx2Block, NeonBlock} \subseteq Nat \ {0}
    /\ {EscapeMinLen, Utf8MinLen} \subseteq Nat

\* The processors the dispatch tells apart.
Cpus == {"x86", "x86_avx2", "aarch64"}

\* The answer is cached in an atomic that every thread fills with the same value.
runtime_has_x86_avx2(cpu) == cpu = "x86_avx2"
runtime_has_arm_neon(cpu) == cpu = "aarch64"

json_escape_kind(cpu) == IF runtime_has_x86_avx2(cpu) THEN "AVX2"
                         ELSE IF runtime_has_arm_neon(cpu) THEN "NEON" ELSE "SCALAR"
utf8_kind(cpu) == IF runtime_has_x86_avx2(cpu) THEN "AVX2"
                  ELSE IF runtime_has_arm_neon(cpu) THEN "NEON" ELSE "SCALAR"

\* The text of a block loop's iterations (i + width <= len), and what is left.
BlockCount(s, width) == Len(s) \div width
BlockAt(s, width, n) == SubSeq(s, n * width + 1, (n + 1) * width)
From(s, i) == SubSeq(s, i + 1, Len(s))
Rest(s, width) == From(s, BlockCount(s, width) * width)

\* The first block with a byte that passes Test, or BlockCount when none has.
FirstBlock(s, width, Test(_)) ==
    Min({n \in 0 .. BlockCount(s, width) - 1 :
            \E j \in 1 .. width : Test(s[n * width + j])} \cup {BlockCount(s, width)})
====
