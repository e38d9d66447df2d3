---- MODULE LogPath ----
(***************************************************************************)
(* The sink side of ij_logger_log, src/src/core/ij_logger.c: the threads   *)
(* of an application log through one logger whose sink_kind is CONSOLE or  *)
(* SYSLOG.  ij_logger_init opens a sink only for syslog; every call that   *)
(* copied and encoded its event hands the payload to the sink of the       *)
(* logger's kind and transport.  Sinks are Syslog, whose variables and     *)
(* actions this module extends, and ConsoleSink.                           *)
(*                                                                         *)
(* The application takes turns on a TCP logger, TurnsOnTcp; what happens   *)
(* without turns is MCSyslog_tcp_concurrent.                               *)
(***************************************************************************)
EXTENDS Syslog

CONSTANTS LineLengths, \* payload lengths on the console
          MaxLines,    \* bound: console writes in all
          TurnsOnTcp   \* TRUE: one thread at a time logs over TCP

ASSUME LogPathConstants ==
    /\ LineLengths \subseteq Nat \ {0} /\ MaxLines \in Nat
    /\ TurnsOnTcp \in BOOLEAN

VARIABLES
    sink_kind,  \* config.sink_kind
    busy, line, offset, remaining, lines, stdout, results, partial

consoleVars == <<busy, line, offset, remaining, lines, stdout, results, partial>>
pathVars == <<vars, consoleVars, sink_kind>>

Console == INSTANCE ConsoleSink WITH Lengths <- LineLengths

PathInit == Init /\ Console!Init /\ sink_kind \in {"CONSOLE", "SYSLOG"}

\* The sink is opened in ij_logger_init and closed in ij_logger_shutdown.
Opening ==
    /\ sink_kind = "SYSLOG"
    /\ \/ StartOpen \/ SocketFails \/ TcpSocket \/ ConnectFails \/ Connected
       \/ UdpSocket \/ OpenFails
       \/ Close
    /\ UNCHANGED <<consoleVars, sink_kind>>

\* The switch over sink_kind and transport.
Log(c) ==
    \/ /\ sink_kind = "CONSOLE"
       /\ \E len \in LineLengths : Console!Write(c, len)
       /\ UNCHANGED vars
    \/ /\ sink_kind = "SYSLOG"
       /\ TurnsOnTcp /\ transport = "TCP" => \A d \in Callers : pc[d] = "idle"
       /\ \E len \in Lengths : TcpWrite(c, len) \/ UdpWrite(c, len)
       /\ UNCHANGED consoleVars

\* A call inside its sink goes on.
Writing(c) ==
    \/ (Send(c) \/ SendFails(c)) /\ UNCHANGED consoleVars
    \/ (Console!Writev(c) \/ Console!WritevFails(c)) /\ UNCHANGED vars

PathNext ==
    \/ Opening
    \/ \E c \in Callers : (Log(c) \/ Writing(c)) /\ UNCHANGED sink_kind

PathSpec == PathInit /\ [][PathNext]_pathVars

----------------------------------------------------------------------------
(* Properties of the console sink, in the composition *)

\* Whatever writev takes at a time, the bytes of each line reach standard output
\* in order and once, and all of them when the write returned OK.
LineExact == Console!LineExact

\* As long as every writev takes all it is given or fails, lines of concurrent
\* callers do not mix.
LinesApart == Console!LinesApart
====
