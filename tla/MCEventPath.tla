---- MODULE MCEventPath ----
(***************************************************************************)
(* Instances of EventPath for TLC.  Limits are a few bytes, blocks four    *)
(* and two bytes, words eight bits.  The calls are families: each varies   *)
(* one part of the input and keeps the rest small.                         *)
(***************************************************************************)
EXTENDS EventPath

Epoch == [converts |-> TRUE, year |-> 1970, mon |-> 0, mday |-> 1,
          hour |-> 0, min |-> 0, sec |-> 0]

SmallEvent == [header |-> TRUE, level |-> 2,
               timestamp |-> [tm |-> Epoch, nanoseconds |-> 123000000],
               fields |-> <<B("n"), B("m"), Null, Null, Null>>,
               attributes |-> << >>]

Call(event_, cpu, sink) ==
    [event |-> event_, enabled |-> TRUE, cpu |-> cpu, locale |-> "C", sink |-> sink,
     facility |-> 16, logger_name |-> B("cfg")]

WithMessage(s) == [SmallEvent EXCEPT !.fields[2] = s]
WithAttributes(attrs) == [SmallEvent EXCEPT !.attributes = attrs]

Value(kind, data, num) == [kind |-> kind, data |-> data, num |-> num]
Text(data) == Value("STRING", data, 0)
Attr(key, value) == [key |-> key, value |-> value]
As(n) == [k \in 1 .. n |-> 97]
SeqsOf(S, lens) == UNION {[1 .. n -> S] : n \in lens}

\* Fields missing, empty, at and above their limits, and bad headers.
FieldCalls ==
    {Call([SmallEvent EXCEPT !.fields = <<n, m, l, f, g>>], "x86", "CONSOLE") :
        n \in {Null, << >>, As(NameMax), As(NameMax + 1), <<255>>},
        m \in {Null, << >>, As(MessageMax), As(MessageMax + 1)},
        l, f, g \in {Null, << >>, As(2)}}
    \cup {Call(e, "x86", sink) : sink \in {"CONSOLE", "SYSLOG"},
             e \in {[SmallEvent EXCEPT !.header = FALSE], [SmallEvent EXCEPT !.level = 6],
                    [SmallEvent EXCEPT !.timestamp.nanoseconds = 1000000000]}}

\* Up to two attributes, around the limits of keys, values and all text.
SmallValues == {Text(<< >>), Text(As(9)), Text(As(ValueMax)), Text(As(ValueMax + 1)),
                Text(Null), Text(<<97, 10, 0>>), Value("SIGNED", << >>, -128)}
AttributeCalls ==
    {[Call([WithAttributes(attrs) EXCEPT !.fields[2] = m], "x86", "FILE")
          EXCEPT !.enabled = on] :
        attrs \in SeqsOf([key : {B("k"), B("token"), As(KeyMax + 1)}, value : SmallValues],
                         {1, 2}),
        m \in {As(MessageMax - 1), As(MessageMax)}, on \in BOOLEAN}

\* Byte sequences around every boundary of UTF-8, short ones of any form and
\* longer ones with characters across the block boundaries.
Boundary == {65, 127, 128, 143, 144, 159, 160, 191, 193, 194, 224, 225, 237, 240, 244, 245}
Utf8Texts == SeqsOf(Boundary, {1, 2})
    \cup {<<a, b, c>> : a \in {195, 224, 225, 237, 239}, b, c \in Boundary}
    \cup {<<a, b, c, d>> : a \in {240, 241, 244, 245}, b \in Boundary,
                           c, d \in {65, 128, 191}}
Utf8Calls ==
    {Call(WithMessage(s), "x86", "SYSLOG") : s \in Utf8Texts}
    \cup {Call(WithMessage(s), cpu, "SYSLOG") :
             cpu \in Cpus, s \in SeqsOf({97, 195, 169}, {4, 5, 6})}

\* Bytes that JSON escapes, at every place of a block.
EscapeTexts == SeqsOf({97, 34, 31}, {5}) \cup SeqsOf({97, 32, 92}, {3})
                 \cup {<<c>> : c \in 1 .. 127}
                 \cup {<<195, 169>> \o s : s \in SeqsOf({97, 10, 31}, {4})}
EscapeCalls == {Call(WithMessage(s), cpu, "CONSOLE") : cpu \in Cpus, s \in EscapeTexts}

\* Every listed key and its neighbours, alone and in a dotted name.
Upper(s) == [k \in DOMAIN s |-> IF s[k] \in 97 .. 122 THEN s[k] - 32 ELSE s[k]]
KeyTexts ==
    LET listed == Denylist \cup {Upper(k) : k \in Denylist}
    IN  listed \cup {Append(k, 115) : k \in listed} \cup {Tail(k) : k \in listed}
          \cup {B("x.") \o k : k \in listed} \cup {B("x_") \o k : k \in listed}
          \cup {B("a.b_") \o k : k \in Denylist} \cup {k \o B(".x") : k \in Denylist}
          \cup {[k EXCEPT ![1] = (@ + 128) % 256] : k \in Denylist}
          \cup {B("."), B("a.b"), B("public_key")}
KeyCalls ==
    {[Call(WithAttributes(<<Attr(key, Text(B("v")))>>), "x86", "CONSOLE")
          EXCEPT !.locale = locale] : key \in KeyTexts, locale \in Locales}

\* Values of every kind, also under a listed key, and escapes in keys.
Values == {Value("SIGNED", << >>, n) : n \in {-128, -100, -1, 0, 9, 10, 127}}
            \cup {Value("UNSIGNED", << >>, n) : n \in {0, 255}}
            \cup {Value("BOOL", << >>, n) : n \in {0, 1}}
            \cup {Value("DOUBLE", d, 0) : d \in {Null, B("0.5"), B("1e+300"), As(12)}}
            \cup {Value("OTHER", << >>, 0), Text(<<0, 34, 92, 195, 169>>)}
ValueCalls ==
    {[Call([WithAttributes(<<Attr(key, v), Attr(B("z"), Value("BOOL", << >>, 1))>>)
               EXCEPT !.fields[3] = logger], "aarch64", sink) EXCEPT !.locale = locale] :
        key \in {B("k"), <<34, 10, 92>>, B("Token")}, v \in Values,
        logger \in {Null, <<9, 195, 169>>},
        sink \in {"CONSOLE", "FILE"}, locale \in Locales}

\* Times at the limits of the format, levels, facilities and names.
Times == {Epoch, [Epoch EXCEPT !.converts = FALSE], [Epoch EXCEPT !.year = -1],
          [Epoch EXCEPT !.year = 10000], [Epoch EXCEPT !.year = 0],
          [converts |-> TRUE, year |-> 9999, mon |-> 11, mday |-> 31,
           hour |-> 23, min |-> 59, sec |-> 60]}
LoggerNames == {Null, B("a b"), <<195, 169>>, As(4), <<1, 126, 127>>}
HeaderCalls ==
    {[Call([SmallEvent EXCEPT !.timestamp = [tm |-> tm, nanoseconds |-> ns],
                              !.level = level], "x86", sink) EXCEPT !.facility = 23] :
        tm \in Times, ns \in {0, 1999999, 999999999}, level \in 0 .. 5,
        sink \in {"CONSOLE", "SYSLOG"}}
    \cup {[Call([SmallEvent EXCEPT !.fields[2] = m, !.fields[3] = l], "x86", "SYSLOG")
               EXCEPT !.facility = facility, !.logger_name = name] :
             m \in {<< >>, B(" m"), <<10, 97>>}, l \in LoggerNames,
             name \in {Null, << >>, B("x y"), As(6)}, facility \in {0, 23}}

\* File records of an event with and without each part of a source location.
SourceCalls ==
    {Call([SmallEvent EXCEPT !.fields[4] = file, !.fields[5] = function], "x86", "FILE") :
        file \in {Null, B("f")}, function \in {Null, B("g")}}

MCInputs == FieldCalls \cup AttributeCalls \cup Utf8Calls \cup EscapeCalls
              \cup KeyCalls \cup ValueCalls \cup HeaderCalls \cup SourceCalls

\* Numbers and strings under a listed key, with redaction on.
SecretInputs == {c \in ValueCalls : c.locale = "C"}

MCAround == {-60, -30} \cup (-12 .. 1)
====
