---- MODULE Redact ----
(***************************************************************************)
(* src/src/filters/ij_redact.c and ij_redact_match_*.c: which attribute    *)
(* keys name a secret.  Known keys are found by length and first letter    *)
(* before any comparison; a key with a dot is also searched for a known    *)
(* key at its end.  tolower is the C library's, in the locale the          *)
(* application has set.                                                    *)
(***************************************************************************)
EXTENDS Simd

Dot == 46

\* External: tolower.  In the Turkish locale the lower case of I is not i.
Locales == {"C", "tr_TR"}
tolower(locale, c) == IF c \in 65 .. 90 /\ ~(locale = "tr_TR" /\ c = 73)
                      THEN c + 32 ELSE c

redact_case_equal_scalar(locale, left, right) ==
    /\ Len(left) = Len(right)
    /\ \A k \in DOMAIN left : tolower(locale, left[k]) = tolower(locale, right[k])

redact_has_dot_scalar(s) == \E k \in DOMAIN s : s[k] = Dot

\* The vector variants, which the dispatch never selects.  They fold the letters
\* of whole blocks without the locale: a byte from 128 on is negative to
\* _mm256_cmpgt_epi8, and no letter.
Signed(b) == IF b >= 128 THEN b - 256 ELSE b
redact_lower_x86_avx2(c) == IF Signed(c) > 64 /\ 91 > Signed(c) THEN c + 32 ELSE c
redact_lower_arm_neon(c) == IF c >= 65 /\ c <= 90 THEN c + 32 ELSE c

CaseEqualBlocks(locale, width, Lower(_), left, right) ==
    LET n == BlockCount(left, width) * width
    IN  /\ Len(left) = Len(right)
        /\ \A k \in 1 .. n : Lower(left[k]) = Lower(right[k])
        /\ redact_case_equal_scalar(locale, From(left, n), From(right, n))

redact_case_equal_x86_avx2(locale, left, right) ==
    CaseEqualBlocks(locale, Avx2Block, redact_lower_x86_avx2, left, right)
redact_case_equal_arm_neon(locale, left, right) ==
    CaseEqualBlocks(locale, NeonBlock, redact_lower_arm_neon, left, right)

HasDotBlocks(width, s) ==
    \/ FirstBlock(s, width, LAMBDA c : c = Dot) < BlockCount(s, width)
    \/ redact_has_dot_scalar(Rest(s, width))
redact_has_dot_x86_avx2(s) == HasDotBlocks(Avx2Block, s)
redact_has_dot_arm_neon(s) == HasDotBlocks(NeonBlock, s)

----------------------------------------------------------------------------

\* The buckets of ij_redact_match_known_key: the length, the first letter (empty
\* where the code does not look at it), and the keys compared with.
Bucket(len, first, keys) == [len |-> len, first |-> B(first), keys |-> {B(k) : k \in keys}]
Buckets ==
    {Bucket(5, "", {"token"}),
     Bucket(6, "a", {"apikey"}), Bucket(6, "c", {"cookie"}),
     Bucket(6, "p", {"passwd"}), Bucket(6, "s", {"secret"}),
     Bucket(7, "a", {"api_key"}), Bucket(7, "s", {"session"}),
     Bucket(8, "i", {"id_token"}), Bucket(8, "p", {"password"}),
     Bucket(10, "p", {"passphrase"}),
     Bucket(10, "s", {"session_id", "set_cookie", "secret_key"}),
     Bucket(11, "p", {"private_key"}), Bucket(11, "s", {"signing_key"}),
     Bucket(12, "", {"access_token"}),
     Bucket(13, "a", {"authorization"}), Bucket(13, "c", {"client_secret"}),
     Bucket(13, "r", {"refresh_token"})}

\* key[0] | 0x20
MutCaseBitNone(c) == c
CaseBit(c) == IF (c \div 32) % 2 = 0 THEN c + 32 ELSE c

redact_match_known_key(locale, key) ==
    \E b \in Buckets :
        /\ b.len = Len(key)
        /\ b.first # << >> => CaseBit(key[1]) = b.first[1]
        /\ \E k \in b.keys : redact_case_equal_scalar(locale, key, k)

redact_match_suffix(locale, key) ==
    \E n \in {13, 12, 11, 10, 8, 7, 6, 5} :
        Len(key) > n /\ redact_match_known_key(locale, From(key, Len(key) - n))

key_should_redact_n(locale, key) ==
    \/ redact_match_known_key(locale, key)
    \/ redact_has_dot_scalar(key) /\ redact_match_suffix(locale, key)

Literal == B("[REDACTED]")

\* The library's other way to redact, for an owned string with room for capacity
\* bytes; ij_event_copy_from_input does not use it.
redact_owned_attr_value_n(locale, key, owned, capacity) ==
    IF capacity < Len(Literal) \/ ~key_should_redact_n(locale, key) THEN owned
    ELSE [owned EXCEPT !.text = Literal]

\* How the literals above are spelled: their length, their first letter, and no
\* letter in upper case.
KeyBytes == (97 .. 122) \cup {95}
Spelling ==
    {<<"token", 5, "t">>, <<"apikey", 6, "a">>, <<"cookie", 6, "c">>,
     <<"passwd", 6, "p">>, <<"secret", 6, "s">>, <<"api_key", 7, "a">>,
     <<"session", 7, "s">>, <<"id_token", 8, "i">>, <<"password", 8, "p">>,
     <<"passphrase", 10, "p">>, <<"session_id", 10, "s">>, <<"set_cookie", 10, "s">>,
     <<"secret_key", 10, "s">>, <<"private_key", 11, "p">>, <<"signing_key", 11, "s">>,
     <<"access_token", 12, "a">>, <<"authorization", 13, "a">>,
     <<"client_secret", 13, "c">>, <<"refresh_token", 13, "r">>}

ASSUME RedactLiterals ==
    /\ B("") = << >>
    /\ \A w \in Spelling : /\ B(w[1]) \in Seq(KeyBytes) /\ Len(B(w[1])) = w[2]
                           /\ B(w[1])[1] = B(w[3])[1] /\ B(w[1])[1] \in 97 .. 122

----------------------------------------------------------------------------
(* The reference: the denylist of docs/rfc/REDACTION_POLICY.md *)

Denylist ==
    {B(k) : k \in {"password", "passwd", "passphrase", "secret", "client_secret",
                   "token", "access_token", "refresh_token", "id_token",
                   "api_key", "apikey", "authorization", "session_id", "session",
                   "cookie", "set_cookie", "private_key", "secret_key",
                   "signing_key"}}

Folded(s) == [k \in DOMAIN s |-> IF s[k] \in 65 .. 90 THEN s[k] + 32 ELSE s[k]]

\* A listed key whatever its case, alone or at the end of a dotted name.
Sensitive(key) ==
    \/ Folded(key) \in Denylist
    \/ /\ \E k \in DOMAIN key : key[k] = Dot
       /\ \E n \in 1 .. Len(key) - 1 : Folded(From(key, n)) \in Denylist
====
