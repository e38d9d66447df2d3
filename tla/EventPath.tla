---- MODULE EventPath ----
(***************************************************************************)
(* The path of one event through ij_logger_log, src/src/core/ij_logger.c:  *)
(* the caller's event is copied (EventCopy), the copy is encoded for the   *)
(* logger's sink into a buffer on the stack (JsonEncoder, Rfc5424), and    *)
(* disposed of.  What the sinks do with the payload is in ConsoleSink,     *)
(* FileSink and Syslog.                                                    *)
(***************************************************************************)
EXTENDS EventCopy, Rfc5424

CONSTANT Around   \* bound: buffer sizes, relative to what the payload needs

\* The bytes of numbers and of the words true and false.
BareByte(c) == c \in (48 .. 57) \cup (97 .. 122) \cup {43, 45, 46}

\* The C types of what an encoder reads of a call besides the strings, what
\* gmtime_r makes of a time and snprintf of a double.
ASSUME EventPathConstants ==
    /\ Around \subseteq Int
    /\ \A c \in Inputs :
          /\ c.sink \in {"CONSOLE", "FILE", "SYSLOG"}
          /\ c.facility \in Nat /\ c.logger_name \in CString
          /\ c.event.timestamp.nanoseconds \in Nat
          /\ LET tm == c.event.timestamp.tm
             IN  /\ tm.year \in Int /\ tm.mon \in 0 .. 11 /\ tm.mday \in 1 .. 31
                 /\ tm.hour \in 0 .. 23 /\ tm.min \in 0 .. 59 /\ tm.sec \in 0 .. 60
          /\ \A n \in DOMAIN c.event.attributes :
                LET v == c.event.attributes[n].value
                IN  /\ v.kind = "SIGNED" => v.num \in -(Word \div 2) .. (Word \div 2) - 1
                    /\ v.kind = "UNSIGNED" => v.num \in 0 .. Word - 1
                    /\ v.kind = "BOOL" => v.num \in {0, 1}
                    /\ v.kind = "DOUBLE" /\ v.data # Null =>
                          v.data # << >> /\ \A k \in DOMAIN v.data : BareByte(v.data[k])

VARIABLES pieces,   \* what the encoder appends, in order; Null is an error
          payload   \* what the encoder left: [text, ok, capacity]

pathVars == <<vars, pieces, payload>>

NoPayload == [text |-> << >>, ok |-> FALSE, capacity |-> 0]

PathInit == Init /\ pieces = << >> /\ payload = NoPayload

\* The encoder of the sink kind, with the configuration that came with the call,
\* reads the copy.
Compose ==
    /\ pc = "done" /\ status = "OK" /\ pieces = << >>
    /\ pieces' = IF input.sink = "SYSLOG" THEN SyslogPieces(input, event, copy)
                                          ELSE JsonPieces(input, event, copy)
    /\ UNCHANGED <<vars, payload>>

\* Whether there is no error among the pieces, and the text of the others.
Composed == Null \notin Range(pieces)
Whole == Joined(pieces)
           \o (IF Composed /\ input.sink = "FILE" THEN <<Lf>> ELSE << >>)

\* Into a buffer of any size.
Encode ==
    /\ pieces # << >> /\ payload = NoPayload
    /\ \E d \in Around : LET capacity == Len(Whole) + 1 + d IN
         /\ capacity >= 1
         /\ payload' = CASE input.sink = "CONSOLE" -> json_console_encode(pieces, capacity)
                         [] input.sink = "FILE" -> ndjson_encode(pieces, capacity)
                         [] input.sink = "SYSLOG" -> rfc5424_encode(pieces, capacity)
    /\ UNCHANGED <<vars, pieces>>

Copying ==
    /\ \/ CheckHeader \/ ScanField \/ FieldsScanned \/ ScanAttribute
       \/ AllocArena \/ AllocFails \/ CopyField \/ FieldsCopied
       \/ NoArray \/ AllocArray \/ CopyAttribute \/ AttributesCopied
    /\ UNCHANGED <<pieces, payload>>

\* The copy is disposed of whatever the encoder and the sink returned.
Finish ==
    /\ payload # NoPayload
    /\ Dispose
    /\ pieces' = << >> /\ payload' = NoPayload

PathNext == Copying \/ Compose \/ Encode \/ Finish

PathSpec == PathInit /\ [][PathNext]_pathVars

----------------------------------------------------------------------------
(* The reference for JSON payloads: a lexer for RFC 8259 text without      *)
(* insignificant space, and the tokens an event stands for.                *)

Token(kind, v) == [kind |-> kind, v |-> v]
Mark(text) == Token("mark", B(text))
Str(v) == Token("string", v)
Bare(v) == Token("bare", v)
Integer(n) == Token("integer", <<n>>)
Bad == Token("bad", << >>)

\* A number in decimal, and what its digits stand for.
Numeral(d) ==
    /\ d # << >> /\ \A k \in DOMAIN d : d[k] \in 48 .. 57
    /\ d[1] = 48 => Len(d) = 1
Reading(d) ==
    LET value[k \in 0 .. Len(d)] ==
            IF k = 0 THEN 0 ELSE 10 * value[k - 1] + (d[k] - 48)
    IN  value[Len(d)]

\* The token of a bare word: an integer stands for its value.
Scalar(word) ==
    IF Numeral(word) THEN Integer(Reading(word))
    ELSE IF word[1] = 45 /\ Numeral(Tail(word)) THEN Integer(-Reading(Tail(word)))
    ELSE Bare(word)

HexValue(c) == IF c \in 48 .. 57 THEN c - 48 ELSE c - 87

\* The content of the string that starts at text[from], decoded, and where the
\* text goes on after the closing quote; 0 if there is none or a byte is raw
\* that may not be.
StringAt(text, from) ==
    LET body[k \in from .. Len(text) + 6] ==
            LET then(c, next) == LET more == body[next]
                                 IN  [v |-> <<c>> \o more.v, next |-> more.next]
            IN  IF k > Len(text) \/ (k <= Len(text) /\ text[k] < 32)
                THEN [v |-> << >>, next |-> 0]
                ELSE IF text[k] = Quote THEN [v |-> << >>, next |-> k + 1]
                ELSE IF text[k] # Backslash THEN then(text[k], k + 1)
                ELSE LET e == text[k + 1] IN
                     CASE e = 110 -> then(Lf, k + 2)
                       [] e = 114 -> then(Cr, k + 2)
                       [] e = 116 -> then(Tab, k + 2)
                       [] e = 117 -> then(16 * HexValue(text[k + 4]) + HexValue(text[k + 5]),
                                          k + 6)
                       [] OTHER -> then(e, k + 2)
    IN  body[from]

Lex(text) ==
    LET tokens[k \in 1 .. Len(text) + 1] ==
            IF k > Len(text) THEN << >>
            ELSE IF text[k] = Quote
            THEN LET s == StringAt(text, k + 1)
                 IN  IF s.next = 0 THEN <<Bad>> ELSE <<Str(s.v)>> \o tokens[s.next]
            ELSE IF BareByte(text[k])
            THEN LET n == Before(From(text, k - 1), LAMBDA c : ~BareByte(c))
                 IN  <<Scalar(SubSeq(text, k, k + n - 1))>> \o tokens[k + n]
            ELSE IF text[k] \in {44, 58, 123, 125}
            THEN <<Token("mark", <<text[k]>>)>> \o tokens[k + 1]
            ELSE <<Bad>>
    IN  tokens[1]

\* RFC 3339; a number that is too large for its place has no digits.
Two(n) == <<48 + (n \div 10), 48 + (n % 10)>>
Timestamp ==
    LET tm == event.timestamp.tm
        millis == event.timestamp.nanoseconds \div NanosPerMilli
    IN  Two(tm.year \div 100) \o Two(tm.year % 100) \o B("-") \o Two(tm.mon + 1) \o B("-")
          \o Two(tm.mday) \o B("T") \o Two(tm.hour) \o B(":") \o Two(tm.min) \o B(":")
          \o Two(tm.sec) \o B(".") \o <<48 + (millis \div 100)>> \o Two(millis % 100) \o B("Z")

LevelNames == <<"trace", "debug", "info", "warn", "error", "fatal">>

\* An object: members are pairs of a name and the tokens of a value.
Object(members) ==
    <<Mark("{")>>
      \o FlattenSeq([n \in DOMAIN members |->
             (IF n > 1 THEN <<Mark(",")>> ELSE << >>)
                \o <<Str(members[n][1]), Mark(":")>> \o members[n][2]])
      \o <<Mark("}")>>

ValueOf(a) ==
    CASE a.value.kind = "STRING" ->
            Str(IF input.enabled /\ Sensitive(a.key) THEN Literal ELSE a.value.data)
      [] a.value.kind \in {"SIGNED", "UNSIGNED"} -> Integer(a.value.num)
      [] a.value.kind = "BOOL" -> Bare(IF a.value.num = 1 THEN B("true") ELSE B("false"))
      [] a.value.kind = "DOUBLE" -> Scalar(a.value.data)

\* The object an event has in a record: only these members, in this order.
\* source_file, source_line, source_function and the trace context are copied
\* with the event and emitted by no encoder, although docs/en/01-file-sink.md
\* lists them as members of a file record "when present".
EmittedObject ==
    Object(<< <<B("timestamp"), <<Str(Timestamp)>> >>,
              <<B("level"), <<Str(B(LevelNames[event.level + 1]))>> >>,
              <<B("event_name"), <<Str(fields[1])>> >>,
              <<B("message"), <<Str(fields[2])>> >> >>
           \o (IF fields[3] = Null THEN << >> ELSE << <<B("logger"), <<Str(fields[3])>> >> >>)
           \o (IF attributes = << >> THEN << >>
               ELSE << <<B("attributes"),
                         Object([n \in DOMAIN attributes |->
                             <<attributes[n].key, <<ValueOf(attributes[n])>> >>])>> >>))

\* The JSON object of the payload: a file record ends with its LF.
JsonPart == IF input.sink = "FILE" THEN SubSeq(payload.text, 1, Len(payload.text) - 1)
                                   ELSE payload.text

----------------------------------------------------------------------------
(* Properties *)

\* The encoders never write past the buffer, the NUL included, whether they
\* succeed or fail in the middle.  The payload is accepted exactly if all of it
\* and its NUL fit: neither path of the builder refuses one that fits, and what
\* is accepted is complete.
FitsExact ==
    payload # NoPayload =>
        /\ Len(payload.text) + 1 <= payload.capacity
        /\ payload.ok <=> Composed /\ Len(Whole) + 1 <= payload.capacity
        /\ payload.ok => payload.text = Whole
        /\ ~payload.ok => IsPrefix(payload.text, Whole)

\* A JSON payload is one line, and reads back as the members of the event that
\* the encoder emits and as no others: timestamp, level, event_name and message,
\* logger if there is one, and all attributes; a source location is not emitted.
\* The strings of these members are read byte for byte, with quotes, backslashes
\* and control characters, the numbers with their values, and the literal in
\* place of each string under a key of the denylist.
JsonReadsBack ==
    payload.ok /\ input.sink # "SYSLOG" /\ input.locale = "C" =>
        /\ Lex(JsonPart) = EmittedObject
        /\ input.sink = "FILE" => Last(payload.text) = Lf

\* Severities of docs/en/03-syslog-contract.md, for TRACE to FATAL.
Severities == <<7, 7, 6, 4, 3, 2>>

\* A syslog payload has the seven words of an RFC 5424 header, whatever bytes the
\* logger name has, and then the message.
SyslogHeader ==
    payload.ok /\ input.sink = "SYSLOG" =>
        LET space(c) == c = Space
            after[n \in 0 .. 7] ==
                IF n = 0 THEN payload.text
                ELSE From(after[n - 1], Before(after[n - 1], space) + 1)
            word(n) == SubSeq(after[n - 1], 1, Before(after[n - 1], space))
            pri == SubSeq(word(1), 2, Len(word(1)) - 2)
        IN  /\ word(1) = B("<") \o pri \o B(">1") /\ Numeral(pri)
            /\ Reading(pri) = 8 * input.facility + Severities[event.level + 1]
            /\ word(2) = Timestamp
            /\ \A n \in {3, 5, 6, 7} : word(n) = B("-")
            /\ Len(word(4)) \in 1 .. AppNameMax
            /\ \A k \in DOMAIN word(4) : word(4)[k] \in 33 .. 126
            /\ after[7] = fields[2]
            /\ fields[2] = << >> => Last(payload.text) # Space

\* docs/rfc/REDACTION_POLICY.md: "If a structured field key matches the denylist,
\* the emitted value must be replaced with [REDACTED]".
DenylistedReplaced ==
    payload.ok /\ input.sink # "SYSLOG" /\ input.enabled =>
        \A n \in DOMAIN attributes :
            Sensitive(attributes[n].key) =>
                \E k \in 1 .. Len(Lex(JsonPart)) - 2 :
                    SubSeq(Lex(JsonPart), k, k + 2)
                      = <<Str(attributes[n].key), Mark(":"), Str(Literal)>>
====
