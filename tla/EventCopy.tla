---- MODULE EventCopy ----
(***************************************************************************)
(* ij_event_copy_from_input and ij_event_copy_dispose of                   *)
(* src/src/core/ij_event.c: the caller's event is scanned field by field   *)
(* while the size of one text arena is added up, the arena is allocated,   *)
(* and a second pass copies the same fields behind a cursor.  Nothing but  *)
(* the agreement of the two passes keeps the cursor inside the arena.      *)
(*                                                                         *)
(* Strings are byte sequences.  Those of fields and keys end with a NUL in *)
(* the program and so contain none; attribute values carry their length.   *)
(*                                                                         *)
(* A definition named Mut... is a deliberately wrong variant of the one    *)
(* below it, used to test that a property can fail.                        *)
(***************************************************************************)
EXTENDS Utf8, JsonEscape, Redact, SequencesExt

CONSTANTS Inputs,    \* the calls: [event, enabled, cpu, locale]
          NameMax, MessageMax, LoggerMax, TextMax, KeyMax, ValueMax

\* A string or a NULL pointer; an attribute: data is what a string or double has,
\* num what the other kinds have.
CString == {Null} \cup Seq(Byte)
Kinds == {"STRING", "SIGNED", "UNSIGNED", "BOOL", "DOUBLE", "OTHER"}
Attribute == [key : CString, value : [kind : Kinds, data : CString, num : Int]]

\* ij_owned_string_t: a place in the arena, its content, the bytes reserved for
\* it, needs_json_escape.
OwnedString == [at : Nat, text : Seq(Byte), room : Nat, escape : BOOLEAN]

ASSUME EventCopyConstants ==
    /\ {NameMax, MessageMax, LoggerMax, TextMax, KeyMax, ValueMax} \subseteq Nat
    /\ \A c \in Inputs : /\ c.event.fields \in [1 .. 5 -> CString]
                         /\ c.event.attributes \in Seq(Attribute)
    /\ Literal \in Seq(Byte) /\ \A k \in DOMAIN Literal : Literal[k] \notin MustEscape
    /\ Null \notin OwnedString

VARIABLES
    input,    \* event: level, timestamp, header (attribute_count and pointers are
              \* acceptable), five strings, attributes; enabled: redaction_mode;
              \* cpu and locale of the process
    pc, i,    \* the pass, and its position in the fields or attributes
    total,    \* total_text_size
    size,     \* text_arena_size
    cursor,   \* offset of the cursor in the arena
    copy,     \* the owned strings so far: [at, text, room, escape]
    heap,     \* what out_event owns
    status

vars == <<input, pc, i, total, size, cursor, copy, heap, status>>

NoCopy == [fields |-> << >>, attributes |-> << >>]

Init ==
    /\ input \in Inputs
    /\ pc = "header" /\ i = 1
    /\ total = 0 /\ size = 0 /\ cursor = 0
    /\ copy = NoCopy /\ heap = {} /\ status = "none"

event == input.event
fields == event.fields
attributes == event.attributes

\* Limits of event_name, message, logger, source_file, source_function.
Limit(n) == <<NameMax, MessageMax, LoggerMax, TextMax, TextMax>>[n]
AllowEmpty(n) == n = 2

Return(s) == pc' = "done" /\ status' = s

----------------------------------------------------------------------------
(* The first pass: validate and measure *)

level_is_valid(level) == level \in 0 .. 5

\* What ij_validate_event and the copy both ask of the rest of the event.
HeaderOk ==
    /\ level_is_valid(event.level)
    /\ event.timestamp.nanoseconds < 1000000000
    /\ event.header

CheckHeader ==
    /\ pc = "header"
    /\ IF HeaderOk THEN pc' = "scan" /\ UNCHANGED status
                   ELSE Return("INVALID_ARGUMENT")
    /\ UNCHANGED <<input, i, total, size, cursor, copy, heap>>

\* From the first byte beyond ASCII on the scans leave their own loop and use
\* the dispatched functions.
Wide(s) == \E k \in DOMAIN s : High(s[k])

scan_string_field_copy(s, max, allow_empty) ==
    /\ s # Null
    /\ Len(s) <= max
    /\ s = << >> => allow_empty
    /\ Wide(s) => utf8_is_valid_dispatch(input.cpu, s)

validate_attr_string_copy(s) ==
    /\ s # Null
    /\ Len(s) <= ValueMax
    /\ Wide(s) => utf8_is_valid_dispatch(input.cpu, s)

ascii_needs_json_escape(c) == c < 32 \/ c = Quote \/ c = Backslash

\* needs_json_escape, as either scan computes it.
NeedsEscape(s) ==
    IF Wide(s) THEN json_escape_find_first_special(input.cpu, s) # Len(s)
               ELSE \E k \in DOMAIN s : ascii_needs_json_escape(s[k])

\* A double that is not finite has no text.
validate_attr_value(v) ==
    CASE v.kind = "STRING" -> /\ v.data # Null
                              /\ Len(v.data) <= ValueMax
                              /\ utf8_is_valid_dispatch(input.cpu, v.data)
      [] v.kind \in {"SIGNED", "UNSIGNED", "BOOL"} -> TRUE
      [] v.kind = "DOUBLE" -> v.data # Null
      [] OTHER -> FALSE

\* Bytes a string takes in the arena, its NUL included.
Footprint(len) == len + 1

MutTooMuchAtLimit(n) == n >= TextMax
TooMuch(n) == n > TextMax

ScanField ==
    /\ pc = "scan" /\ i \in 1 .. 5
    /\ LET s == fields[i] IN
       \/ /\ s = Null /\ i > 2
          /\ i' = i + 1
          /\ UNCHANGED <<pc, total, size, status>>
       \/ /\ s # Null
          /\ scan_string_field_copy(s, Limit(i), AllowEmpty(i))
          /\ i' = i + 1
          /\ total' = total + Len(s)
          /\ size' = size + Len(s) + 1
          /\ UNCHANGED <<pc, status>>
       \/ /\ s = Null => i <= 2
          /\ ~scan_string_field_copy(s, Limit(i), AllowEmpty(i))
          /\ Return("INVALID_ARGUMENT")
          /\ UNCHANGED <<i, total, size>>
    /\ UNCHANGED <<input, cursor, copy, heap>>

FieldsScanned ==
    /\ pc = "scan" /\ i = 6
    /\ IF TooMuch(total) THEN Return("INVALID_ARGUMENT") /\ UNCHANGED i
                         ELSE pc' = "attrs" /\ i' = 1 /\ UNCHANGED status
    /\ UNCHANGED <<input, total, size, cursor, copy, heap>>

\* Room is left for the literal that may replace a value.
MutMeasuredRoomTight(s) == Len(s)
MeasuredRoom(s) == Max({Len(s), Len(Literal)})

IsString(a) == a.value.kind = "STRING"
TextOf(a) == Len(a.key) + (IF IsString(a) THEN Len(a.value.data) ELSE 0)

ScanAttribute ==
    /\ pc = "attrs" /\ i <= Len(attributes)
    /\ LET a == attributes[i]
       IN  IF /\ scan_string_field_copy(a.key, KeyMax, FALSE)
              /\ IF IsString(a) THEN validate_attr_string_copy(a.value.data)
                                ELSE validate_attr_value(a.value)
              /\ \A j \in 1 .. i - 1 : attributes[j].key # a.key
              /\ ~TooMuch(total + TextOf(a))
           THEN /\ i' = i + 1
                /\ total' = total + TextOf(a)
                /\ size' = size + Len(a.key) + 1 +
                           (IF IsString(a) THEN MeasuredRoom(a.value.data) + 1 ELSE 0)
                /\ UNCHANGED <<pc, status>>
           ELSE Return("INVALID_ARGUMENT") /\ UNCHANGED <<i, total, size>>
    /\ UNCHANGED <<input, cursor, copy, heap>>

----------------------------------------------------------------------------
(* The second pass: allocate and copy *)

AllocArena ==
    /\ pc = "attrs" /\ i > Len(attributes)
    /\ heap' = {"text_arena"}
    /\ pc' = "copy" /\ i' = 1
    /\ UNCHANGED <<input, total, size, cursor, copy, status>>

\* ij_event_copy_dispose: what remains of the heap.
MutDisposedArenaOnly == heap \ {"text_arena"}
Disposed == {}

\* malloc returns NULL, for the arena or for the attribute array.
AllocFails ==
    /\ \/ pc = "attrs" /\ i > Len(attributes)
       \/ pc = "array" /\ attributes # << >>
    /\ heap' = Disposed
    /\ copy' = NoCopy
    /\ Return("INTERNAL_ERROR")
    /\ UNCHANGED <<input, i, total, size, cursor>>

\* ij_copy_owned_string_into_arena: s at the cursor, which moves on by room.
Owned(s, at, room) ==
    [at |-> at, text |-> s, room |-> Footprint(room), escape |-> NeedsEscape(s)]

CopyField ==
    /\ pc = "copy" /\ i \in 1 .. 5
    /\ i' = i + 1
    /\ IF fields[i] = Null
       THEN copy' = [copy EXCEPT !.fields = Append(@, Null)] /\ UNCHANGED cursor
       ELSE LET owned == Owned(fields[i], cursor, Len(fields[i]))
            IN  /\ copy' = [copy EXCEPT !.fields = Append(@, owned)]
                /\ cursor' = cursor + owned.room
    /\ UNCHANGED <<input, pc, total, size, heap, status>>

FieldsCopied ==
    /\ pc = "copy" /\ i = 6
    /\ pc' = "array" /\ i' = 1
    /\ UNCHANGED <<input, total, size, cursor, copy, heap, status>>

NoArray ==
    /\ pc = "array" /\ attributes = << >>
    /\ Return("OK")
    /\ UNCHANGED <<input, i, total, size, cursor, copy, heap>>

AllocArray ==
    /\ pc = "array" /\ attributes # << >>
    /\ heap' = heap \cup {"attributes"}
    /\ pc' = "values"
    /\ UNCHANGED <<input, i, total, size, cursor, copy, status>>

should_redact(a) ==
    input.enabled /\ IsString(a) /\ key_should_redact_n(input.locale, a.key)

\* The literal overwrites the copied value and its NUL; the flag stays.
Redacted(owned) == [owned EXCEPT !.text = Literal]

\* The capacity ij_copy_attr_value_into_arena computes again.
CopiedRoom(s) == Max({Len(s), Len(Literal)})

CopyAttribute ==
    /\ pc = "values" /\ i <= Len(attributes)
    /\ i' = i + 1
    /\ LET a == attributes[i]
           key == Owned(a.key, cursor, Len(a.key))
           text == Owned(a.value.data, cursor + key.room, CopiedRoom(a.value.data))
           value == IF ~IsString(a) THEN a.value
                    ELSE [kind |-> "STRING",
                          data |-> IF should_redact(a) THEN Redacted(text) ELSE text]
       IN  /\ copy' = [copy EXCEPT !.attributes = Append(@, [key |-> key, value |-> value])]
           /\ cursor' = cursor + key.room + (IF IsString(a) THEN text.room ELSE 0)
    /\ UNCHANGED <<input, pc, total, size, heap, status>>

AttributesCopied ==
    /\ pc = "values" /\ i > Len(attributes)
    /\ Return("OK")
    /\ UNCHANGED <<input, i, total, size, cursor, copy, heap>>

\* The caller is done with the copy.
Dispose ==
    /\ pc = "done" /\ status = "OK"
    /\ heap' = Disposed /\ copy' = NoCopy
    /\ pc' = "disposed"
    /\ UNCHANGED <<input, i, total, size, cursor, status>>

Next ==
    \/ CheckHeader \/ ScanField \/ FieldsScanned \/ ScanAttribute
    \/ AllocArena \/ AllocFails \/ CopyField \/ FieldsCopied
    \/ NoArray \/ AllocArray \/ CopyAttribute \/ AttributesCopied \/ Dispose

Spec == Init /\ [][Next]_vars

----------------------------------------------------------------------------
(* ij_validate_event, the validator of the public API, as the reference *)

validate_string_field(s, max, allow_empty) ==
    /\ s # Null
    /\ s = << >> => allow_empty
    /\ Len(s) <= max
    /\ utf8_is_valid_dispatch(input.cpu, s)

\* ij_event_text_size
TextSize ==
    LET text(s) == IF s = Null THEN 0 ELSE Len(s)
    IN  FoldSeq(LAMBDA s, sum : sum + text(s), 0, fields)
          + FoldSeq(LAMBDA a, sum : sum + TextOf(a), 0, attributes)

validate_event ==
    /\ HeaderOk
    /\ \A n \in 1 .. 5 :
          \/ fields[n] = Null /\ n > 2
          \/ validate_string_field(fields[n], Limit(n), AllowEmpty(n))
    /\ \A n \in DOMAIN attributes :
          /\ validate_string_field(attributes[n].key, KeyMax, FALSE)
          /\ validate_attr_value(attributes[n].value)
    /\ \A m, n \in DOMAIN attributes : attributes[m].key = attributes[n].key => m = n
    /\ TextSize <= TextMax

----------------------------------------------------------------------------
(* Properties *)

\* Where the copy has owned strings: fields, keys, string values.
Places ==
    ({"field"} \X {n \in DOMAIN copy.fields : copy.fields[n] # Null})
    \cup ({"key"} \X DOMAIN copy.attributes)
    \cup ({"value"} \X {n \in DOMAIN copy.attributes : IsString(copy.attributes[n])})
OwnedAt(x) ==
    CASE x[1] = "field" -> copy.fields[x[2]]
      [] x[1] = "key" -> copy.attributes[x[2]].key
      [] x[1] = "value" -> copy.attributes[x[2]].value.data

\* The first byte of the arena behind the string and its NUL.
End(x) == OwnedAt(x).at + Len(OwnedAt(x).text) + 1

\* Every byte the second pass writes, the literal of a redacted value and the
\* NULs included, lies in the arena the first pass measured, no string
\* overwrites another, and the two passes agree to the byte.
ArenaSafe ==
    /\ \A x \in Places : OwnedAt(x).at >= 0 /\ End(x) <= size
    /\ \A x, y \in Places : x = y \/ End(x) <= OwnedAt(y).at \/ End(y) <= OwnedAt(x).at
    /\ pc = "done" /\ status = "OK" => cursor = size

\* The copying validator, with its own loops and running total, accepts exactly
\* the events ij_validate_event accepts.
VerdictAgrees ==
    pc = "done" /\ status # "INTERNAL_ERROR" => (status = "OK" <=> validate_event)

\* All texts of the input.
Texts == {fields[n] : n \in 1 .. 5} \cup {attributes[n].key : n \in DOMAIN attributes}
           \cup {attributes[n].value.data : n \in DOMAIN attributes}

\* On every processor, whatever the length of the text and the place of the
\* block boundaries, validation accepts exactly well-formed UTF-8: no overlong
\* form, no surrogate, nothing above U+10FFFF, no truncated character.
Utf8Exact ==
    pc = "done" => \A s \in Texts \ {Null} :
        utf8_is_valid_dispatch(input.cpu, s) <=> WellFormed(s)

\* needs_json_escape is set exactly when JSON does not allow the string as it is:
\* the encoders copy a string without the flag byte by byte.
EscapeFlagExact ==
    \A x \in Places : OwnedAt(x).text # Literal =>
        (OwnedAt(x).escape <=> \E j \in DOMAIN OwnedAt(x).text :
                                  OwnedAt(x).text[j] \in MustEscape)

\* The buckets by length and first letter, and the suffixes of dotted names,
\* find exactly the keys of the denylist; the vector variants of the comparison
\* and of the search for a dot give what the scalar ones give; and the copy holds
\* what ij_redact_owned_attr_value_n makes of the copied value.
RedactExact ==
    pc = "done" /\ input.locale = "C" =>
        /\ \A key \in {attributes[n].key : n \in DOMAIN attributes} \ {Null} :
              /\ key_should_redact_n("C", key) <=> Sensitive(key)
              /\ redact_has_dot_x86_avx2(key) <=> redact_has_dot_scalar(key)
              /\ redact_has_dot_arm_neon(key) <=> redact_has_dot_scalar(key)
              /\ \A k \in Denylist :
                    LET equal == redact_case_equal_scalar("C", key, k)
                    IN  /\ redact_case_equal_x86_avx2("C", key, k) <=> equal
                        /\ redact_case_equal_arm_neon("C", key, k) <=> equal
        /\ input.enabled => \A n \in DOMAIN copy.attributes : IsString(attributes[n]) =>
              LET kept == copy.attributes[n].value.data
                  plain == attributes[n].value.data
              IN  kept = redact_owned_attr_value_n("C", attributes[n].key,
                             [kept EXCEPT !.text = plain], CopiedRoom(plain))

\* A call that fails owns nothing, whichever allocation failed, and a disposed
\* copy neither.
FailureReleases ==
    /\ pc = "done" /\ status # "OK" => heap = {} /\ copy = NoCopy
    /\ pc = "disposed" => heap = {}
====
