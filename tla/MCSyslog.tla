---- MODULE MCSyslog ----
(***************************************************************************)
(* A small instance of Syslog for TLC: two addresses, payloads whose length *)
(* has one and two digits.                                                 *)
(***************************************************************************)
EXTENDS Syslog

CONSTANTS t1, t2

TcpOnly == {"TCP"}
TwoCallers == {t1, t2}
MCLengths == {2, 10}
====
