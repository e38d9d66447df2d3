---- MODULE Rfc5424 ----
(***************************************************************************)
(* ij_rfc5424_encode, src/src/encoders/ij_rfc5424.c: a copied event as one *)
(* syslog message, printed with snprintf into a buffer of fixed size.      *)
(***************************************************************************)
EXTENDS JsonEncoder

CONSTANT AppNameMax   \* IJ_RFC5424_APP_NAME_MAX

ASSUME Rfc5424Constants == AppNameMax \in Nat \ {0}
\* The literals of the encoder.
ASSUME Rfc5424Literals ==
    /\ B("<") = <<60>> /\ B(">1 ") = <<62, 49, 32>> /\ B("-") = <<45>>
    /\ B(" - ") = <<32, 45, 32>> /\ B(" - - -") = <<32, 45, 32, 45, 32, 45>>
    /\ B(">1") = <<62, 49>>

\* For TRACE to FATAL, the levels a copy can have.
syslog_severity_from_level(level) == <<7, 7, 6, 4, 3, 2>>[level + 1]

\* The name of the event, else of the logger's configuration, else "-".
syslog_app_name(event_logger, config_logger) ==
    IF event_logger \notin {Null, << >>} THEN event_logger
    ELSE IF config_logger \notin {Null, << >>} THEN config_logger ELSE B("-")

MutGraphicOrSpace(c) == c >= 32 /\ c <= 126
Graphic(c) == c >= 33 /\ c <= 126

syslog_sanitize_app_name(raw) ==
    [k \in 1 .. Min({Len(raw), AppNameMax}) |-> IF Graphic(raw[k]) THEN raw[k] ELSE 95]

Pri(facility, level) == facility * 8 + syslog_severity_from_level(level)

\* snprintf cuts what does not fit and returns the length of all of it.
Snprintf(text, capacity) ==
    IF Len(text) >= capacity
    THEN [text |-> SubSeq(text, 1, capacity - 1), ok |-> FALSE, capacity |-> capacity]
    ELSE [text |-> text, ok |-> TRUE, capacity |-> capacity]

\* The arguments of the snprintf call, as the text they make, the one piece of
\* this encoder.
SyslogPieces(config, head, copy) ==
    LET timestamp == format_timestamp_rfc3339(head.timestamp)
        message == copy.fields[2].text
        logger == IF copy.fields[3] = Null THEN Null ELSE copy.fields[3].text
        app == syslog_sanitize_app_name(syslog_app_name(logger, config.logger_name))
        header == B("<") \o Decimal(Pri(config.facility, head.level)) \o B(">1 ") \o timestamp
                    \o B(" - ") \o app \o B(" - - -")
    IN  IF timestamp = << >> THEN <<Null>>
        ELSE <<header \o (IF message = << >> THEN << >> ELSE <<Space>> \o message)>>

rfc5424_encode(pieces, capacity) ==
    IF pieces[1] = Null THEN [NewBuilder(capacity) EXCEPT !.ok = FALSE]
                        ELSE Snprintf(pieces[1], capacity)
====
