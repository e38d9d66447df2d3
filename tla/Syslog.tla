---- MODULE Syslog ----
(***************************************************************************)
(* The syslog sink: src/src/sinks/ij_syslog_tcp.c (RFC 6587 octet counting *)
(* over one TCP connection) and ij_syslog_udp.c (one datagram per          *)
(* message), called by the threads that call ij_logger_log.  Nothing in    *)
(* the sink or in ij_logger_log serializes the callers.                    *)
(*                                                                         *)
(* Every send() is a step: it may take any part of what it is given, or    *)
(* fail.  The two send_all loops of one write (frame prefix, payload) are  *)
(* two buffers sent one after the other.                                   *)
(*                                                                         *)
(* A definition named Mut... is a deliberately wrong variant of the one    *)
(* below it, used to test that a property can fail.                        *)
(***************************************************************************)
EXTENDS Integers, Sequences, FiniteSets

CONSTANTS Callers,      \* threads that write
          Transports,   \* the transports callers configure
          Addresses,    \* how many entries getaddrinfo returns
          Lengths,      \* payload lengths callers use
          UdpMax,       \* IJ_SYSLOG_UDP_TARGET_MAX
          SendFaults,   \* TRUE: send, sendto may fail
          MaxMessages,  \* bound: writes in all
          MaxOpens      \* bound: how often the sink is opened

ASSUME SyslogConstants ==
    /\ Transports \subseteq {"TCP", "UDP"}
    /\ Addresses \in Nat
    /\ Lengths \subseteq Nat \ {0}
    /\ \A n \in Lengths : n < 1000000000   \* n < 8192 in ij_logger_log
    /\ UdpMax \in Nat /\ MaxMessages \in Nat /\ MaxOpens \in Nat
    /\ SendFaults \in BOOLEAN

VARIABLES
    transport,  \* config.syslog_transport of the logger that has the sink
    fd,         \* sink->fd: 0 for none, else the number of a socket
    sockets,    \* the sockets the process has open
    entry,      \* the address being tried, 0 outside the open call
    socket_fd,  \* the socket being connected, 0 for none
    opens,      \* counter for the bound
    pc,         \* where each caller is
    msg,        \* the message each caller is writing
    sent,       \* total_sent of its current send_all
    wire,       \* TCP: bytes accepted by the connection, UDP: datagrams
    messages,   \* how many messages there have been
    acked,      \* history: messages of this connection whose write
                \* returned OK
    failures    \* history: sends on this connection that failed

open == <<transport, fd, sockets, entry, socket_fd, opens>>
callers == <<pc, msg, sent, messages>>
history == <<acked, failures>>
vars == <<open, callers, wire, history>>

NoMsg == [id |-> 0, len |-> 0]

Init ==
    /\ transport \in Transports
    /\ fd = 0 /\ sockets = {} /\ entry = 0 /\ socket_fd = 0 /\ opens = 0
    /\ pc = [c \in Callers |-> "idle"]
    /\ msg = [c \in Callers |-> NoMsg]
    /\ sent = [c \in Callers |-> 0]
    /\ wire = << >>
    /\ messages = 0 /\ acked = {} /\ failures = 0

----------------------------------------------------------------------------
(* ij_syslog_tcp_open / ij_syslog_udp_open: the loop over the addresses *)

StartOpen ==
    /\ fd = 0 /\ entry = 0
    /\ opens < MaxOpens
    /\ opens' = opens + 1
    /\ entry' = 1
    /\ transport' \in Transports
    /\ wire' = << >> /\ acked' = {} /\ failures' = 0   \* a new connection
    /\ UNCHANGED <<fd, sockets, socket_fd, callers>>

\* A number no open socket has; the lowest, as the kernel hands them out.
NewSocket == CHOOSE s \in 1 .. Cardinality(sockets) + 1 :
                 s \notin sockets /\ \A r \in 1 .. s - 1 : r \in sockets

\* close(s).
MutWithoutForgets(s) == sockets
Without(s) == sockets \ {s}

\* This entry gives no socket: the next one.
SocketFails ==
    /\ entry \in 1 .. Addresses /\ socket_fd = 0
    /\ entry' = entry + 1
    /\ UNCHANGED <<transport, fd, sockets, socket_fd, opens, callers, wire, history>>

TcpSocket ==
    /\ transport = "TCP"
    /\ entry \in 1 .. Addresses /\ socket_fd = 0
    /\ socket_fd' = NewSocket
    /\ sockets' = sockets \cup {NewSocket}
    /\ UNCHANGED <<transport, fd, entry, opens, callers, wire, history>>

\* A socket that cannot be connected is closed before the next entry.
ConnectFails ==
    /\ socket_fd # 0
    /\ sockets' = Without(socket_fd)
    /\ socket_fd' = 0
    /\ entry' = entry + 1
    /\ UNCHANGED <<transport, fd, opens, callers, wire, history>>

Connected ==
    /\ socket_fd # 0
    /\ fd' = socket_fd
    /\ socket_fd' = 0
    /\ entry' = 0
    /\ UNCHANGED <<transport, sockets, opens, callers, wire, history>>

\* The first UDP socket is taken; nothing is connected.
UdpSocket ==
    /\ transport = "UDP"
    /\ entry \in 1 .. Addresses
    /\ sockets' = sockets \cup {NewSocket}
    /\ fd' = NewSocket
    /\ entry' = 0
    /\ UNCHANGED <<transport, socket_fd, opens, callers, wire, history>>

\* No entry worked: SINK_ERROR, ij_logger_init frees the logger.
OpenFails ==
    /\ entry = Addresses + 1
    /\ entry' = 0
    /\ UNCHANGED <<transport, fd, sockets, socket_fd, opens, callers, wire, history>>

----------------------------------------------------------------------------
(* ij_syslog_tcp_write *)

\* Decimal digits of a payload length.
Digits(n) == Cardinality({d \in 0 .. 8 : d = 0 \/ n >= 10 ^ d})

\* The frame of a message is its prefix "<len> " and its payload.
PrefixLen(m) == Digits(m.len) + 1
FrameLen(m) == PrefixLen(m) + m.len
Frame(m) == [k \in 1 .. FrameLen(m) |-> [msg |-> m.id, at |-> k, of |-> FrameLen(m)]]

\* What send_all has to send, and where that starts in the frame.
BufferLen(c) == IF pc[c] = "prefix" THEN PrefixLen(msg[c]) ELSE msg[c].len
BufferAt(c) == IF pc[c] = "prefix" THEN 0 ELSE PrefixLen(msg[c])

\* data + total_sent, and the end of the loop.
MutSentUpToNot(c) == BufferAt(c)
SentUpTo(c) == BufferAt(c) + sent[c]
Done(c, n) == sent[c] + n = BufferLen(c)

TcpWrite(c, len) ==
    /\ transport = "TCP"
    /\ fd # 0
    /\ pc[c] = "idle"
    /\ messages < MaxMessages
    /\ messages' = messages + 1
    /\ msg' = [msg EXCEPT ![c] = [id |-> messages + 1, len |-> len]]
    /\ sent' = [sent EXCEPT ![c] = 0]
    /\ pc' = [pc EXCEPT ![c] = "prefix"]
    /\ UNCHANGED <<open, wire, history>>

\* One send() takes n > 0 bytes; a complete buffer ends its send_all.
Send(c) ==
    /\ pc[c] \in {"prefix", "payload"}
    /\ \E n \in 1 .. BufferLen(c) - sent[c] :
         LET from == SentUpTo(c)
             done == Done(c, n)
         IN  /\ wire' = wire \o SubSeq(Frame(msg[c]), from + 1, from + n)
             /\ sent' = [sent EXCEPT ![c] = IF done THEN 0 ELSE @ + n]
             /\ pc' = [pc EXCEPT ![c] = IF ~done THEN @
                                        ELSE IF @ = "prefix" THEN "payload" ELSE "idle"]
             /\ acked' = IF done /\ pc[c] = "payload"
                         THEN acked \cup {msg[c]} ELSE acked
    /\ UNCHANGED <<open, msg, messages, failures>>

\* send() fails: SINK_ERROR.  The connection stays open.
SendFails(c) ==
    /\ SendFaults
    /\ pc[c] \in {"prefix", "payload"}
    /\ pc' = [pc EXCEPT ![c] = "idle"]
    /\ failures' = failures + 1
    /\ UNCHANGED <<open, msg, sent, wire, messages, acked>>

----------------------------------------------------------------------------
(* ij_syslog_udp_write: one sendto, all of it or nothing *)

MutTooLongByMore(len) == len > UdpMax + 1
TooLong(len) == len > UdpMax

UdpWrite(c, len) ==
    /\ transport = "UDP"
    /\ fd # 0
    /\ pc[c] = "idle"
    /\ messages < MaxMessages
    /\ messages' = messages + 1
    /\ msg' = [msg EXCEPT ![c] = [id |-> messages + 1, len |-> len]]
    /\ \/ /\ TooLong(len)              \* rejected before anything is sent
          /\ UNCHANGED <<wire, acked, failures>>
       \/ /\ ~TooLong(len) /\ SendFaults
          /\ failures' = failures + 1
          /\ UNCHANGED <<wire, acked>>
       \/ /\ ~TooLong(len)
          /\ wire' = Append(wire, msg'[c])
          /\ acked' = acked \cup {msg'[c]}
          /\ UNCHANGED failures
    /\ UNCHANGED <<open, pc, sent>>

----------------------------------------------------------------------------
(* ij_syslog_sink_close, when the owner has stopped its callers *)

Close ==
    /\ fd # 0
    /\ \A c \in Callers : pc[c] = "idle"
    /\ sockets' = Without(fd)
    /\ fd' = 0
    /\ UNCHANGED <<transport, entry, socket_fd, opens, callers, wire, history>>

Next ==
    \/ StartOpen \/ SocketFails \/ TcpSocket \/ ConnectFails \/ Connected
    \/ UdpSocket \/ OpenFails
    \/ \E c \in Callers :
         \/ \E len \in Lengths : TcpWrite(c, len) \/ UdpWrite(c, len)
         \/ Send(c) \/ SendFails(c)
    \/ Close

Spec == Init /\ [][Next]_vars

----------------------------------------------------------------------------
(* Properties *)

\* Outside an open call the only socket of the sink is its fd: the address
\* loop closes every socket it does not keep, and close leaves none.
NoSocketLeak == entry = 0 => sockets = (IF fd = 0 THEN {} ELSE {fd})

\* Octet counting: the byte stream is a sequence of frames, the last perhaps
\* not yet complete.  A receiver that meets anything else takes payload for a
\* length and loses the stream.
Framed ==
    transport = "TCP" =>
        /\ wire # << >> => wire[1].at = 1
        /\ \A i \in 1 .. Len(wire) - 1 :
              \/ wire[i].msg = wire[i + 1].msg /\ wire[i + 1].at = wire[i].at + 1
              \/ wire[i].at = wire[i].of /\ wire[i + 1].at = 1

\* With one caller, whatever the partial sends, the stream is framed until a
\* send fails.
FramedUntilFailure == failures = 0 => Framed

\* With one caller, a write that returned OK put its whole frame, prefix and
\* payload, on the connection without a gap, whatever failed before or after.
AckedWhole ==
    transport = "TCP" =>
        \A m \in acked : \E i \in 0 .. Len(wire) - FrameLen(m) :
            SubSeq(wire, i + 1, i + FrameLen(m)) = Frame(m)

\* UDP: the datagrams are exactly the acknowledged messages, each sent once and
\* none above the target size.
DatagramPerMessage ==
    transport = "UDP" =>
        /\ {wire[i] : i \in 1 .. Len(wire)} = acked
        /\ Len(wire) = Cardinality(acked)
        /\ \A m \in acked : m.len <= UdpMax
====
