---- MODULE Bytes ----
(***************************************************************************)
(* Text as sequences of byte codes 0 .. 255, and the byte codes of the     *)
(* ASCII literals that occur in the source.                                *)
(***************************************************************************)
EXTENDS Integers, Sequences

CONSTANT Null   \* a NULL pointer

Byte == 0 .. 255

\* It is no string.
ASSUME NullConstant == Null \notin Seq(Byte)

\* The printable characters from code 32 on; code 96, the grave accent, occurs in
\* no literal and has a blank in its place.
Printable ==
    " !\"#$%&'()*+,-./0123456789:;<=>?@ABCDEFGHIJKLMNOPQRSTUVWXYZ[\\]^_ abcdefghijklmnopqrstuvwxyz{|}~"

CharAt(text, k) == SubSeq(text, k, k)

CodeOf ==
    [c \in {CharAt(Printable, k) : k \in 1 .. Len(Printable)} |->
        31 + CHOOSE k \in 1 .. Len(Printable) : CharAt(Printable, k) = c]

\* The bytes of an ASCII literal.
B(text) == [k \in 1 .. Len(text) |-> CodeOf[CharAt(text, k)]]

Quote == 34
Backslash == 92
Tab == 9
Lf == 10
Cr == 13
Space == 32
====
