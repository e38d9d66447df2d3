---- MODULE JsonEncoder ----
(***************************************************************************)
(* src/src/encoders/ij_json_console.c and ij_ndjson.c: a copied event as   *)
(* one JSON object in a buffer of fixed size.                              *)
(*                                                                         *)
(* Everything goes through one builder, whose buffer holds the text so far *)
(* and a NUL.  Each append is all or nothing, and the first that fails     *)
(* ends the call.  A function of the source that appends is modelled by    *)
(* the pieces it hands to the builder, in order; a piece is Null where the *)
(* function returns an error of its own.                                   *)
(*                                                                         *)
(* Integers have two's complement words of Word values, 2^64 in the code.  *)
(*                                                                         *)
(* A definition named Mut... is a deliberately wrong variant of the one    *)
(* below it, used to test that a property can fail.                        *)
(***************************************************************************)
EXTENDS JsonEscape, SequencesExt

CONSTANTS Word,         \* the number of values of uint64_t
          NumberBuffer  \* sizeof(number_buffer)

ASSUME JsonEncoderConstants == {Word, NumberBuffer} \subseteq Nat \ {0}

\* The literals of the encoder are strings of bytes.
ASSUME JsonLiterals ==
    \A w \in {"}", "{\"timestamp\":\"", "\",\"level\":", ",\"event_name\":",
              ",\"message\":", ",\"logger\":", ",\"attributes\":{", ",", ":", "-", "T", ".",
              "Z", "true", "false", "\\n", "\\r", "\\t", "\\u00", "\"trace\"", "\"debug\"",
              "\"info\"", "\"warn\"", "\"error\"", "\"fatal\"", "\"unknown\""} :
        B(w) \in Seq(Byte)
ASSUME TimeLiterals ==
    /\ B("-") = <<45>> /\ B("T") = <<84>> /\ B(":") = <<58>> /\ B(".") = <<46>>
    /\ B("Z") = <<90>>

\* How they are spelled: words in quotes, marks, escapes.
InQuotes(s) == <<Quote>> \o s \o <<Quote>>
ASSUME JsonSpelling ==
    /\ \A w \in {"timestamp", "level", "event_name", "message", "logger", "attributes",
                 "trace", "debug", "info", "warn", "error", "fatal"} :
          B(w) \in Seq(Byte) /\ \A k \in DOMAIN B(w) : B(w)[k] \notin MustEscape
    /\ B("{\"timestamp\":\"") = <<123>> \o InQuotes(B("timestamp")) \o <<58>> \o <<Quote>>
    /\ B("\",\"level\":") = <<Quote>> \o (<<44>> \o InQuotes(B("level")) \o <<58>>)
    /\ B(",\"event_name\":") = <<44>> \o InQuotes(B("event_name")) \o <<58>>
    /\ B(",\"message\":") = <<44>> \o InQuotes(B("message")) \o <<58>>
    /\ B(",\"logger\":") = <<44>> \o InQuotes(B("logger")) \o <<58>>
    /\ B(",\"attributes\":{") = <<44>> \o InQuotes(B("attributes")) \o <<58>> \o <<123>>
    /\ B("\"trace\"") = InQuotes(B("trace")) /\ B("\"debug\"") = InQuotes(B("debug"))
    /\ B("\"info\"") = InQuotes(B("info")) /\ B("\"warn\"") = InQuotes(B("warn"))
    /\ B("\"error\"") = InQuotes(B("error")) /\ B("\"fatal\"") = InQuotes(B("fatal"))
    /\ B("{") = <<123>> /\ B("}") = <<125>> /\ B(",") = <<44>>
    /\ B("true") = <<116, 114, 117, 101>> /\ B("false") = <<102, 97, 108, 115, 101>>
    /\ B("\\n") = <<Backslash, 110>> /\ B("\\r") = <<Backslash, 114>>
    /\ B("\\t") = <<Backslash, 116>> /\ B("\\u00") = <<Backslash, 117, 48, 48>>

NewBuilder(capacity) == [text |-> << >>, ok |-> TRUE, capacity |-> capacity]

\* ij_builder_can_append: len bytes and the NUL.
CanAppend(b, len) == Len(b.text) + len + 1 <= b.capacity

append_raw_n(b, piece) ==
    IF b.ok /\ piece # Null /\ CanAppend(b, Len(piece))
    THEN [b EXCEPT !.text = @ \o piece]
    ELSE [b EXCEPT !.ok = FALSE]

Build(capacity, pieces) == FoldLeft(append_raw_n, NewBuilder(capacity), pieces)

\* The reference: the text of all pieces that are no errors.
Joined(pieces) ==
    FlattenSeq([k \in DOMAIN pieces |-> IF pieces[k] = Null THEN << >> ELSE pieces[k]])

----------------------------------------------------------------------------
(* Numbers *)

Digit(d) == 48 + d

\* The last n <= 4 decimal digits of value: ij_write_two_digits and its siblings.
DigitsOf(value, n) ==
    [k \in 1 .. n |-> Digit((value \div <<1, 10, 100, 1000>>[n - k + 1]) % 10)]

\* The do loop of ij_builder_append_uint64_decimal.
Decimal(value) ==
    LET digits[v \in 0 .. value] ==
            IF v < 10 THEN <<Digit(v)>> ELSE Append(digits[v \div 10], Digit(v % 10))
    IN  digits[value]

append_uint64_decimal(value) == <<Decimal(value)>>

\* (uint64_t)value, and 0U - magnitude for a negative one.
Magnitude(value) == IF value < 0 THEN (Word - (value % Word)) % Word ELSE value

append_int64_decimal(value) ==
    (IF value < 0 THEN <<B("-")>> ELSE << >>) \o append_uint64_decimal(Magnitude(value))

----------------------------------------------------------------------------
(* Strings *)

HexDigit(v) == IF v < 10 THEN Digit(v) ELSE 97 + (v - 10)

MutEscapedRawControl(c) == IF c < 32 THEN <<c>> ELSE <<Backslash, c>>
Escaped(c) ==
    CASE c = Backslash -> <<Backslash, Backslash>>
      [] c = Quote -> <<Backslash, Quote>>
      [] c = Lf -> B("\\n")
      [] c = Cr -> B("\\r")
      [] c = Tab -> B("\\t")
      [] c < 32 /\ c \notin {Lf, Cr, Tab} ->
            B("\\u00") \o <<HexDigit(c \div 16), HexDigit(c % 16)>>
      [] OTHER -> <<c>>

\* Runs of plain bytes, and an escape for each special byte between them.
append_escaped_string_n(cpu, s) ==
    LET pieces[from \in 0 .. Len(s)] ==
            IF from = Len(s) THEN << >>
            ELSE LET next == json_escape_find_first_special(cpu, From(s, from))
                     at == from + next
                     run == IF next > 0 THEN <<SubSeq(s, from + 1, at)>> ELSE << >>
                 IN  IF at = Len(s) THEN run
                     ELSE run \o <<Escaped(s[at + 1])>> \o pieces[at + 1]
    IN  pieces[0]

\* A string known to need no escape is appended at once, with its quotes and
\* what follows them.
append_json_string_known_escape(cpu, s) ==
    IF s.escape
    THEN << <<Quote>> >> \o append_escaped_string_n(cpu, s.text) \o << <<Quote>> >>
    ELSE << <<Quote>> \o s.text \o <<Quote>> >>

append_json_key_known_escape(cpu, s) ==
    IF s.escape THEN append_json_string_known_escape(cpu, s) \o <<B(":")>>
                ELSE << <<Quote>> \o s.text \o <<Quote>> \o B(":") >>

level_to_json_literal(level) ==
    IF level \in 0 .. 5
    THEN <<B("\"trace\""), B("\"debug\""), B("\"info\""), B("\"warn\""),
           B("\"error\""), B("\"fatal\"")>>[level + 1]
    ELSE B("\"unknown\"")

----------------------------------------------------------------------------
(* Values and timestamps *)

\* External: snprintf "%.17g", given the text it makes in the C locale.  The
\* decimal separator is the locale's.
Separator(locale) == IF locale = "C" THEN 46 ELSE 44
Printed(locale, text) ==
    [k \in DOMAIN text |-> IF text[k] = 46 THEN Separator(locale) ELSE text[k]]

append_attr_value(env, v) ==
    CASE v.kind = "STRING" -> append_json_string_known_escape(env.cpu, v.data)
      [] v.kind = "SIGNED" -> append_int64_decimal(v.num)
      [] v.kind = "UNSIGNED" -> append_uint64_decimal(v.num)
      [] v.kind = "BOOL" -> <<IF v.num # 0 THEN B("true") ELSE B("false")>>
      [] v.kind = "DOUBLE" ->
            <<IF Len(v.data) >= NumberBuffer THEN Null ELSE Printed(env.locale, v.data)>>
      [] OTHER -> <<Null>>

\* ij_format_timestamp_rfc3339 of the broken-down time gmtime_r gives; the empty
\* text where it returns an error.
NanosPerSecond == 1000000000
NanosPerMilli == 1000000
FourDigits(year) == year >= 0 /\ year <= 9999
Millis(t) == DigitsOf(t.nanoseconds \div NanosPerMilli, 3)
Formats(t) == t.nanoseconds < NanosPerSecond /\ t.tm.converts /\ FourDigits(t.tm.year)
format_timestamp_rfc3339(t) ==
    LET tm == t.tm IN
    IF ~Formats(t) THEN << >>
    ELSE DigitsOf(tm.year, 4) \o B("-") \o DigitsOf(tm.mon + 1, 2) \o B("-")
           \o DigitsOf(tm.mday, 2) \o B("T") \o DigitsOf(tm.hour, 2) \o B(":")
           \o DigitsOf(tm.min, 2) \o B(":") \o DigitsOf(tm.sec, 2) \o B(".")
           \o Millis(t) \o B("Z")

----------------------------------------------------------------------------
(* The encoders: the pieces of an event, and the buffer they leave.  env:  *)
(* cpu and locale; head: level and timestamp of the event; copy: its owned *)
(* strings.                                                                *)

Member(cpu, label, s) == <<label>> \o append_json_string_known_escape(cpu, s)

Attributes(env, attributes) ==
    LET attribute(n) == (IF n > 1 THEN <<B(",")>> ELSE << >>)
                          \o append_json_key_known_escape(env.cpu, attributes[n].key)
                          \o append_attr_value(env, attributes[n].value)
    IN  IF attributes = << >> THEN << >>
        ELSE <<B(",\"attributes\":{")>>
               \o FlattenSeq([n \in DOMAIN attributes |-> attribute(n)]) \o <<B("}")>>

JsonPieces(env, head, copy) ==
    LET timestamp == format_timestamp_rfc3339(head.timestamp)
    IN  IF timestamp = << >> THEN <<Null>>
        ELSE <<B("{\"timestamp\":\""), timestamp, B("\",\"level\":"),
               level_to_json_literal(head.level)>>
               \o Member(env.cpu, B(",\"event_name\":"), copy.fields[1])
               \o Member(env.cpu, B(",\"message\":"), copy.fields[2])
               \o (IF copy.fields[3] = Null THEN << >>
                   ELSE Member(env.cpu, B(",\"logger\":"), copy.fields[3]))
               \o Attributes(env, copy.attributes)
               \o <<B("}")>>

json_console_encode(pieces, capacity) == Build(capacity, pieces)

\* The LF replaces the NUL and takes a byte more.
MutRoomForLfOneMore(b) == Len(b.text) + 3 <= b.capacity
RoomForLf(b) == Len(b.text) + 2 <= b.capacity
ndjson_encode(pieces, capacity) ==
    LET b == json_console_encode(pieces, capacity)
    IN  IF b.ok /\ RoomForLf(b) THEN [b EXCEPT !.text = Append(@, Lf)]
                                ELSE [b EXCEPT !.ok = FALSE]
====
