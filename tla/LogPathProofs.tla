---- MODULE LogPathProofs ----
(***************************************************************************)
(* Proofs about the syslog and console sinks under ij_logger_log: for any  *)
(* number of threads, addresses and messages, any payload lengths, and     *)
(* whatever part of its argument each send and writev takes.               *)
(*                                                                         *)
(* What the sinks promise is not inductive, because a call in progress has *)
(* put a part of its message on the wire.  SocketInv says which sockets    *)
(* the address loop holds; CallerInv which part of its frame a caller has  *)
(* still to send; Sending that the end of the wire is exactly the part of  *)
(* the frame that was sent; ConsoleInv the same of lines on standard       *)
(* output.                                                                 *)
(***************************************************************************)
EXTENDS LogPath, ArithmeticAndSequences, SequenceTheorems, FiniteSetTheorems, TLAPS

Msgs == [id : Nat, len : Nat]
Octets == [msg : Nat, at : Nat, of : Nat]

\* The sockets of the process are the sink's and the one being connected.
SocketInv ==
    /\ transport \in {"TCP", "UDP"}
    /\ fd \in Nat /\ socket_fd \in Nat /\ entry \in Nat
    /\ sockets = {fd, socket_fd} \ {0}
    /\ socket_fd # 0 => entry \in 1 .. Addresses
    /\ entry # 0 => fd = 0
    /\ transport = "UDP" => socket_fd = 0

\* A caller inside the sink writes a message that has a number, over TCP, and
\* has a part of its buffer still to send.
CallerInv ==
    /\ pc \in [Callers -> {"idle", "prefix", "payload"}]
    /\ msg \in [Callers -> Msgs] /\ sent \in [Callers -> Nat]
    /\ messages \in Nat /\ failures \in Nat
    /\ wire \in Seq(Octets \cup Msgs)
    /\ acked \subseteq Msgs /\ \A m \in acked : m.id <= messages
    /\ \A c \in Callers : pc[c] # "idle" =>
          /\ fd # 0 /\ transport = "TCP" /\ msg[c].id <= messages
          /\ msg[c].len # 0 /\ sent[c] < BufferLen(c)

\* Each datagram is an acknowledged message.
DatagramInv == transport = "UDP" => IsFiniteSet(acked) /\ DatagramPerMessage

SyslogInv == SocketInv /\ CallerInv /\ DatagramInv

----------------------------------------------------------------------------
(* The sink as the threads of the application use it *)

\* A thread begins a message on a TCP sink only while no other is writing.
Turn == messages' # messages /\ transport = "TCP" => \A c \in Callers : pc[c] = "idle"

(* A step of the logger is a step of one of its sinks. *)
LEMMA PathStep ==
    ASSUME [PathNext]_pathVars
    PROVE  [Next]_vars /\ [Console!Next]_consoleVars
<1>1. CASE UNCHANGED pathVars
  BY <1>1 DEF pathVars
<1>2. CASE Opening
  BY <1>2 DEF Opening, Next
<1>3. ASSUME NEW c \in Callers, Log(c) PROVE [Next]_vars /\ [Console!Next]_consoleVars
  <2>1. CASE UNCHANGED vars /\ \E len \in LineLengths : Console!Write(c, len)
    BY <2>1 DEF Console!Next
  <2>2. CASE UNCHANGED consoleVars /\ \E len \in Lengths : TcpWrite(c, len) \/ UdpWrite(c, len)
    BY <2>2 DEF Next
  <2> QED BY <1>3, <2>1, <2>2 DEF Log
<1>4. ASSUME NEW c \in Callers, Writing(c) PROVE [Next]_vars /\ [Console!Next]_consoleVars
  <2>1. CASE UNCHANGED consoleVars /\ (Send(c) \/ SendFails(c))
    BY <2>1 DEF Next
  <2>2. CASE UNCHANGED vars /\ (Console!Writev(c) \/ Console!WritevFails(c))
    BY <2>2 DEF Console!Next
  <2> QED BY <1>4, <2>1, <2>2 DEF Writing
<1> QED BY <1>1, <1>2, <1>3, <1>4 DEF PathNext

----------------------------------------------------------------------------
(* Frames *)

(* The octet count has at least one digit. *)
LEMMA DigitsAre == ASSUME NEW n \in Nat PROVE Digits(n) \in Nat /\ Digits(n) # 0
<1> DEFINE D == {d \in 0 .. 8 : d = 0 \/ n >= 10 ^ d}
<1>1. IsFiniteSet(0 .. 8)
  <2>1. 0 \in Int /\ 8 \in Int
    OBVIOUS
  <2> QED BY <2>1, FS_Interval, Zenon
<1>2. D \in SUBSET (0 .. 8) /\ 0 \in D
  OBVIOUS
<1> HIDE DEF D
<1>3. IsFiniteSet(D)
  BY <1>1, <1>2, FS_Subset
<1>4. Cardinality(D) \in Nat /\ Cardinality(D) # 0
  BY <1>2, <1>3, FS_CardinalityType, FS_EmptySet
<1> QED BY <1>4 DEF D, Digits

(* A frame is its prefix and its payload, cell after cell. *)
LEMMA FrameIs ==
    ASSUME NEW m \in Msgs
    PROVE  /\ PrefixLen(m) \in Nat /\ PrefixLen(m) > 0
           /\ FrameLen(m) \in Nat /\ FrameLen(m) = PrefixLen(m) + m.len
           /\ Frame(m) \in Seq(Octets) /\ Len(Frame(m)) = FrameLen(m)
           /\ \A k \in 1 .. FrameLen(m) :
                 Frame(m)[k] = [msg |-> m.id, at |-> k, of |-> FrameLen(m)]
<1>1. m.len \in Nat /\ m.id \in Nat
  BY DEF Msgs
<1>2. PrefixLen(m) \in Nat /\ PrefixLen(m) > 0
  BY <1>1, DigitsAre DEF PrefixLen
<1>3. FrameLen(m) \in Nat /\ FrameLen(m) = PrefixLen(m) + m.len
  BY <1>1, <1>2 DEF FrameLen
<1>4. \A k \in 1 .. FrameLen(m) : [msg |-> m.id, at |-> k, of |-> FrameLen(m)] \in Octets
  BY <1>1, <1>3 DEF Octets
<1>5. Frame(m) \in [1 .. FrameLen(m) -> Octets]
  BY <1>4 DEF Frame
<1>6. Frame(m) \in Seq(Octets) /\ Len(Frame(m)) = FrameLen(m)
  BY <1>3, <1>5, LenProperties
<1>7. \A k \in 1 .. FrameLen(m) :
         Frame(m)[k] = [msg |-> m.id, at |-> k, of |-> FrameLen(m)]
  BY DEF Frame
<1> QED BY <1>2, <1>3, <1>6, <1>7

----------------------------------------------------------------------------
(* Sockets *)

(* With no socket open, the next one has the lowest number. *)
LEMMA NewSocketIs == ASSUME sockets = {} PROVE NewSocket = 1
<1>1. Cardinality({}) + 1 = 1
  BY FS_EmptySet
<1>2. NewSocket = CHOOSE s \in 1 .. 1 : s \notin {} /\ \A r \in 1 .. s - 1 : r \in {}
  BY <1>1 DEF NewSocket
<1>3. \E s \in 1 .. 1 : s \notin {} /\ \A r \in 1 .. s - 1 : r \in {}
  OBVIOUS
<1> QED BY <1>2, <1>3

\* What a step does to the sink besides its socket.
Waits == /\ UNCHANGED <<transport, callers, wire, history>>
         /\ fd # 0 /\ fd' = 0 => \A c \in Callers : pc[c] = "idle"
Starts == /\ fd = 0 /\ UNCHANGED <<fd, callers>>
          /\ wire' = << >> /\ acked' = {} /\ failures' = 0

\* The steps of callers.
Calls == /\ UNCHANGED open
         /\ \E c \in Callers : \/ \E len \in Lengths : TcpWrite(c, len) \/ UdpWrite(c, len)
                               \/ Send(c) \/ SendFails(c)

(* The address loop holds at most one socket and closes what it gives up. *)
LEMMA SocketStep ==
    ASSUME SocketInv, [Next]_vars
    PROVE  SocketInv' /\ (Waits \/ Starts \/ Calls)
<1>t. /\ transport \in {"TCP", "UDP"} /\ fd \in Nat /\ socket_fd \in Nat /\ entry \in Nat
      /\ sockets = {fd, socket_fd} \ {0} /\ (socket_fd # 0 => entry \in 1 .. Addresses)
      /\ (entry # 0 => fd = 0) /\ (transport = "UDP" => socket_fd = 0)
  BY DEF SocketInv
<1>1. CASE StartOpen
  <2>1. transport' \in Transports
    BY <1>1 DEF StartOpen
  <2>2. transport' \in {"TCP", "UDP"}
    <3>1. Transports \subseteq {"TCP", "UDP"}
      BY SyslogConstants
    <3> QED BY <2>1, <3>1
  <2> QED BY <1>t, <1>1, <2>2 DEF StartOpen, SocketInv, Starts
<1>2. CASE SocketFails
  BY <1>t, <1>2 DEF SocketFails, SocketInv, Waits
<1>3. CASE TcpSocket
  <2>1. sockets = {}
    BY <1>t, <1>3 DEF TcpSocket
  <2>2. NewSocket = 1
    BY <2>1, NewSocketIs
  <2> QED BY <1>t, <1>3, <2>1, <2>2 DEF TcpSocket, SocketInv, Waits
<1>4. CASE ConnectFails
  BY <1>t, <1>4 DEF ConnectFails, SocketInv, Waits, Without
<1>5. CASE Connected
  BY <1>t, <1>5 DEF Connected, SocketInv, Waits
<1>6. CASE UdpSocket
  <2>1. sockets = {}
    BY <1>t, <1>6 DEF UdpSocket
  <2>2. NewSocket = 1
    BY <2>1, NewSocketIs
  <2> QED BY <1>t, <1>6, <2>1, <2>2 DEF UdpSocket, SocketInv, Waits
<1>7. CASE OpenFails
  <2>1. entry # 0 /\ entry \notin 1 .. Addresses
    BY <1>7, SyslogConstants DEF OpenFails
  <2> QED BY <1>t, <1>7, <2>1 DEF OpenFails, SocketInv, Waits
<1>8. CASE Close
  BY <1>t, <1>8 DEF Close, SocketInv, Waits, Without
<1>9. CASE \E c \in Callers : \/ \E len \in Lengths : TcpWrite(c, len) \/ UdpWrite(c, len)
                              \/ Send(c) \/ SendFails(c)
  <2>1. UNCHANGED open
    BY <1>9 DEF TcpWrite, UdpWrite, Send, SendFails
  <2>2. SocketInv'
    BY <1>t, <2>1 DEF open, SocketInv
  <2> QED BY <1>9, <2>1, <2>2 DEF Calls
<1>10. CASE UNCHANGED vars
  BY <1>t, <1>10 DEF vars, open, SocketInv, Waits
<1> QED BY <1>1, <1>2, <1>3, <1>4, <1>5, <1>6, <1>7, <1>8, <1>9, <1>10 DEF Next

----------------------------------------------------------------------------
(* Callers *)

\* One send of c takes n bytes of its frame, behind what it sent before.
Sends(c, n) ==
    /\ pc[c] # "idle"
    /\ SentUpTo(c) \in Nat /\ SentUpTo(c) + n <= FrameLen(msg[c])
    /\ wire' = wire \o SubSeq(Frame(msg[c]), SentUpTo(c) + 1, SentUpTo(c) + n)
    /\ UNCHANGED <<open, msg, messages, failures>>
    /\ pc' \in [Callers -> {"idle", "prefix", "payload"}] /\ sent' \in [Callers -> Nat]
    /\ \A d \in Callers : d # c => pc'[d] = pc[d] /\ sent'[d] = sent[d]
    /\ \/ /\ SentUpTo(c) + n = FrameLen(msg[c])
          /\ pc'[c] = "idle" /\ acked' = acked \cup {msg[c]}
       \/ /\ pc'[c] # "idle" /\ acked' = acked
          /\ SentUpTo(c)' = SentUpTo(c) + n /\ sent'[c] < BufferLen(c)'

(* That is what the two send_all loops do. *)
LEMMA SendEffect ==
    ASSUME CallerInv, NEW c \in Callers, Send(c)
    PROVE  \E n \in Nat \ {0} : Sends(c, n)
<1>t. /\ pc \in [Callers -> {"idle", "prefix", "payload"}] /\ msg[c] \in Msgs
      /\ sent \in [Callers -> Nat] /\ pc[c] \in {"prefix", "payload"} /\ sent[c] \in Nat
      /\ msg[c].len \in Nat /\ msg[c].len # 0 /\ sent[c] < BufferLen(c)
  BY DEF CallerInv, Send, Msgs
<1>f. /\ PrefixLen(msg[c]) \in Nat /\ PrefixLen(msg[c]) > 0
      /\ FrameLen(msg[c]) = PrefixLen(msg[c]) + msg[c].len
  BY <1>t, FrameIs
<1>1. PICK n \in 1 .. BufferLen(c) - sent[c] :
         /\ wire' = wire \o SubSeq(Frame(msg[c]), SentUpTo(c) + 1, SentUpTo(c) + n)
         /\ sent' = [sent EXCEPT ![c] = IF Done(c, n) THEN 0 ELSE @ + n]
         /\ pc' = [pc EXCEPT ![c] = IF ~Done(c, n) THEN @
                                    ELSE IF @ = "prefix" THEN "payload" ELSE "idle"]
         /\ acked' = IF Done(c, n) /\ pc[c] = "payload" THEN acked \cup {msg[c]} ELSE acked
  BY DEF Send
<1>u. UNCHANGED <<open, msg, messages, failures>>
  BY DEF Send
<1>b. BufferLen(c) \in Nat
  BY <1>t, <1>f DEF BufferLen
<1>2. n \in Nat \ {0} /\ sent[c] + n <= BufferLen(c)
  BY <1>b, <1>t
<1>3. \A d \in Callers : d # c => pc'[d] = pc[d] /\ sent'[d] = sent[d]
  BY <1>1
<1>4. /\ sent'[c] = (IF Done(c, n) THEN 0 ELSE sent[c] + n)
      /\ pc'[c] = (IF ~Done(c, n) THEN pc[c]
                   ELSE IF pc[c] = "prefix" THEN "payload" ELSE "idle")
  BY <1>1, <1>t
<1>5. sent' \in [Callers -> Nat] /\ pc' \in [Callers -> {"idle", "prefix", "payload"}]
  BY <1>1, <1>t, <1>2
<1>6. CASE pc[c] = "prefix"
  <2>1. BufferLen(c) = PrefixLen(msg[c]) /\ BufferAt(c) = 0 /\ SentUpTo(c) = sent[c]
    BY <1>t, <1>6 DEF BufferLen, BufferAt, SentUpTo
  <2>2. SentUpTo(c) \in Nat /\ SentUpTo(c) + n <= FrameLen(msg[c])
    BY <1>t, <1>f, <1>2, <2>1
  <2>3. acked' = acked
    BY <1>1, <1>6
  <2>4. CASE Done(c, n)
    <3>1. sent'[c] = 0 /\ pc'[c] = "payload" /\ sent[c] + n = PrefixLen(msg[c])
      BY <1>4, <1>6, <2>1, <2>4 DEF Done
    <3>2. BufferLen(c)' = msg[c].len /\ SentUpTo(c)' = PrefixLen(msg[c])
      BY <1>u, <1>f, <3>1 DEF BufferLen, BufferAt, SentUpTo
    <3>3. sent'[c] < BufferLen(c)' /\ SentUpTo(c)' = SentUpTo(c) + n
      BY <1>t, <2>1, <3>1, <3>2
    <3> QED BY <1>t, <1>1, <1>u, <1>2, <1>3, <1>5, <1>6, <2>2, <2>3, <3>1, <3>3 DEF Sends
  <2>5. CASE ~Done(c, n)
    <3>1. sent'[c] = sent[c] + n /\ pc'[c] = "prefix" /\ sent[c] + n # BufferLen(c)
      BY <1>4, <1>6, <2>5 DEF Done
    <3>2. BufferLen(c)' = PrefixLen(msg[c]) /\ SentUpTo(c)' = sent[c] + n
      BY <1>t, <1>u, <1>2, <3>1 DEF BufferLen, BufferAt, SentUpTo
    <3>3. sent'[c] < BufferLen(c)' /\ SentUpTo(c)' = SentUpTo(c) + n
      BY <1>t, <1>f, <1>2, <2>1, <3>1, <3>2
    <3> QED BY <1>t, <1>1, <1>u, <1>2, <1>3, <1>5, <1>6, <2>2, <2>3, <3>1, <3>3 DEF Sends
  <2> QED BY <2>4, <2>5
<1>7. CASE pc[c] = "payload"
  <2>1. /\ BufferLen(c) = msg[c].len /\ BufferAt(c) = PrefixLen(msg[c])
        /\ SentUpTo(c) = PrefixLen(msg[c]) + sent[c]
    BY <1>t, <1>7 DEF BufferLen, BufferAt, SentUpTo
  <2>2. SentUpTo(c) \in Nat /\ SentUpTo(c) + n <= FrameLen(msg[c])
    BY <1>t, <1>f, <1>2, <2>1
  <2>4. CASE Done(c, n)
    <3>1. pc'[c] = "idle" /\ sent[c] + n = msg[c].len /\ acked' = acked \cup {msg[c]}
      BY <1>1, <1>4, <1>7, <2>1, <2>4 DEF Done
    <3>2. SentUpTo(c) + n = FrameLen(msg[c])
      BY <1>t, <1>f, <1>2, <2>1, <3>1
    <3> QED BY <1>t, <1>1, <1>u, <1>2, <1>3, <1>5, <1>7, <2>2, <3>1, <3>2 DEF Sends
  <2>5. CASE ~Done(c, n)
    <3>1. /\ sent'[c] = sent[c] + n /\ pc'[c] = "payload" /\ sent[c] + n # BufferLen(c)
          /\ acked' = acked
      BY <1>1, <1>4, <1>7, <2>5 DEF Done
    <3>2. BufferLen(c)' = msg[c].len /\ SentUpTo(c)' = PrefixLen(msg[c]) + (sent[c] + n)
      BY <1>t, <1>u, <1>2, <3>1 DEF BufferLen, BufferAt, SentUpTo
    <3>3. sent'[c] < BufferLen(c)' /\ SentUpTo(c)' = SentUpTo(c) + n
      BY <1>t, <1>f, <1>2, <2>1, <3>1, <3>2
    <3> QED BY <1>t, <1>1, <1>u, <1>2, <1>3, <1>5, <1>7, <2>2, <3>1, <3>3 DEF Sends
  <2> QED BY <2>4, <2>5
<1> QED BY <1>t, <1>6, <1>7

(* The counted part of CallerInv. *)
LEMMA CallerTypes ==
    ASSUME CallerInv
    PROVE  /\ pc \in [Callers -> {"idle", "prefix", "payload"}]
           /\ msg \in [Callers -> Msgs] /\ sent \in [Callers -> Nat]
           /\ messages \in Nat /\ failures \in Nat
           /\ wire \in Seq(Octets \cup Msgs) /\ acked \subseteq Msgs
           /\ \A m \in acked : m.id <= messages /\ m.id \in Nat /\ m.len \in Nat
BY DEF CallerInv, Msgs

(* A caller always has a part of its frame left. *)
LEMMA CallerStep ==
    ASSUME SocketInv, CallerInv, Waits \/ Starts \/ Calls PROVE CallerInv'
<1>t. /\ pc \in [Callers -> {"idle", "prefix", "payload"}]
      /\ msg \in [Callers -> Msgs] /\ sent \in [Callers -> Nat]
      /\ messages \in Nat /\ failures \in Nat
      /\ wire \in Seq(Octets \cup Msgs)
      /\ acked \subseteq Msgs /\ \A m \in acked : m.id <= messages /\ m.id \in Nat
  BY CallerTypes
<1>a. \A c \in Callers : pc[c] # "idle" =>
          /\ fd # 0 /\ transport = "TCP" /\ msg[c].id <= messages
          /\ msg[c].len # 0 /\ sent[c] < BufferLen(c)
  BY DEF CallerInv
<1>b. ASSUME NEW c \in Callers, pc'[c] = pc[c], msg'[c] = msg[c], sent'[c] = sent[c]
      PROVE  BufferLen(c)' = BufferLen(c)
  BY <1>b DEF BufferLen
<1>1. CASE Waits
  <2>1. /\ UNCHANGED <<transport, pc, msg, sent, messages, wire, acked, failures>>
        /\ fd # 0 /\ fd' = 0 => \A c \in Callers : pc[c] = "idle"
    BY <1>1 DEF Waits, callers, history
  <2>2. \A c \in Callers : pc'[c] # "idle" =>
          /\ fd' # 0 /\ transport' = "TCP" /\ msg'[c].id <= messages'
          /\ msg'[c].len # 0 /\ sent'[c] < BufferLen(c)'
    BY <1>a, <1>b, <2>1
  <2> QED BY <1>t, <2>1, <2>2 DEF CallerInv
<1>2. CASE Starts
  <2>1. /\ fd = 0 /\ UNCHANGED <<pc, msg, sent, messages>>
        /\ wire' = << >> /\ acked' = {} /\ failures' = 0
    BY <1>2 DEF Starts, callers
  <2>2. \A c \in Callers : pc'[c] = "idle"
    BY <1>a, <2>1
  <2> QED BY <1>t, <2>1, <2>2 DEF CallerInv
<1>l. ASSUME NEW len \in Lengths PROVE len \in Nat /\ len # 0 /\ [id |-> messages + 1, len |-> len] \in Msgs
  BY <1>t, SyslogConstants DEF Msgs
<1>3. ASSUME NEW c \in Callers, NEW len \in Lengths, TcpWrite(c, len) PROVE CallerInv'
  <2>1. /\ transport = "TCP" /\ fd # 0 /\ UNCHANGED <<transport, fd, wire, acked, failures>>
        /\ messages' = messages + 1
        /\ msg' = [msg EXCEPT ![c] = [id |-> messages + 1, len |-> len]]
        /\ sent' = [sent EXCEPT ![c] = 0] /\ pc' = [pc EXCEPT ![c] = "prefix"]
    BY <1>3 DEF TcpWrite, open, history
  <2>2. /\ pc' \in [Callers -> {"idle", "prefix", "payload"}]
        /\ msg' \in [Callers -> Msgs] /\ sent' \in [Callers -> Nat] /\ messages' \in Nat
        /\ \A m \in acked : m.id <= messages'
    BY <1>t, <1>l, <2>1
  <2>3. ASSUME NEW d \in Callers, pc'[d] # "idle"
        PROVE  /\ fd' # 0 /\ transport' = "TCP" /\ msg'[d].id <= messages'
               /\ msg'[d].len # 0 /\ sent'[d] < BufferLen(d)'
    <3>1. CASE d = c
      <4>1. /\ pc'[d] = "prefix" /\ sent'[d] = 0 /\ msg'[d] \in Msgs
            /\ msg'[d].len = len /\ msg'[d].id = messages'
        BY <1>t, <1>l, <2>1, <3>1
      <4>2. BufferLen(d)' = PrefixLen(msg'[d])
        BY <4>1 DEF BufferLen
      <4>3. PrefixLen(msg'[d]) \in Nat /\ PrefixLen(msg'[d]) > 0
        BY <4>1, FrameIs
      <4> QED BY <1>l, <2>1, <2>2, <4>1, <4>2, <4>3
    <3>2. CASE d # c
      <4>1. pc'[d] = pc[d] /\ msg'[d] = msg[d] /\ sent'[d] = sent[d] /\ msg[d].id \in Nat
        BY <1>t, <2>1, <3>2 DEF Msgs
      <4>2. msg[d].id <= messages /\ fd # 0 /\ msg[d].len # 0 /\ sent[d] < BufferLen(d)
        BY <1>a, <2>3, <4>1
      <4>3. BufferLen(d)' = BufferLen(d)
        BY <1>b, <4>1
      <4>4. msg'[d].id <= messages'
        BY <1>t, <2>1, <4>1, <4>2
      <4> QED BY <2>1, <4>1, <4>2, <4>3, <4>4
    <3> QED BY <3>1, <3>2
  <2> QED BY <1>t, <2>1, <2>2, <2>3 DEF CallerInv
<1>4. ASSUME NEW c \in Callers, NEW len \in Lengths, UdpWrite(c, len) PROVE CallerInv'
  <2> DEFINE new == [id |-> messages + 1, len |-> len]
  <2>1. /\ transport = "UDP" /\ UNCHANGED <<transport, fd, pc, sent>>
        /\ messages' = messages + 1 /\ msg' = [msg EXCEPT ![c] = new]
    BY <1>4 DEF UdpWrite, open
  <2>2. new \in Msgs /\ new.id = messages + 1 /\ msg'[c] = new
    BY <1>t, <1>l, <2>1
  <2> HIDE DEF new
  <2>3. \/ UNCHANGED <<wire, acked, failures>>
        \/ failures' = failures + 1 /\ UNCHANGED <<wire, acked>>
        \/ wire' = Append(wire, new) /\ acked' = acked \cup {new} /\ failures' = failures
    BY <1>4, <2>2 DEF UdpWrite
  <2>4. msg' \in [Callers -> Msgs] /\ messages' \in Nat
    BY <1>t, <2>1, <2>2
  <2>5. wire' \in Seq(Octets \cup Msgs) /\ failures' \in Nat
    <3>1. new \in Octets \cup Msgs
      BY <2>2
    <3>2. Append(wire, new) \in Seq(Octets \cup Msgs)
      BY <1>t, <3>1, AppendProperties
    <3>3. wire' = wire \/ wire' = Append(wire, new)
      BY <2>3
    <3>4. failures' = failures \/ failures' = failures + 1
      BY <2>3
    <3>5. failures' \in Nat
      BY <1>t, <3>4
    <3>6. wire' \in Seq(Octets \cup Msgs)
      BY <1>t, <3>2, <3>3
    <3> QED BY <3>5, <3>6
  <2>6. acked' \subseteq Msgs /\ \A m \in acked' : m.id <= messages'
    <3>1. acked' \subseteq acked \cup {new}
      BY <2>3
    <3>2. new.id <= messages'
      BY <1>t, <2>1, <2>2
    <3>3. \A m \in acked : m.id <= messages'
      BY <1>t, <2>1
    <3> QED BY <1>t, <2>2, <3>1, <3>2, <3>3
  <2>7. \A d \in Callers : pc'[d] = "idle"
    BY <1>a, <2>1
  <2> QED BY <1>t, <2>1, <2>4, <2>5, <2>6, <2>7 DEF CallerInv
<1>5. ASSUME NEW c \in Callers, SendFails(c) PROVE CallerInv'
  <2>1. /\ UNCHANGED <<transport, fd, msg, sent, wire, messages, acked>>
        /\ pc' = [pc EXCEPT ![c] = "idle"] /\ failures' = failures + 1
    BY <1>5 DEF SendFails, open
  <2>2. pc' \in [Callers -> {"idle", "prefix", "payload"}] /\ failures' \in Nat
    BY <1>t, <2>1
  <2>3. ASSUME NEW d \in Callers, pc'[d] # "idle"
        PROVE  /\ fd' # 0 /\ transport' = "TCP" /\ msg'[d].id <= messages'
               /\ msg'[d].len # 0 /\ sent'[d] < BufferLen(d)'
    <3>1. pc'[d] = pc[d] /\ msg'[d] = msg[d] /\ sent'[d] = sent[d]
      BY <1>t, <2>1, <2>3
    <3> QED BY <1>a, <1>b, <2>1, <2>3, <3>1
  <2> QED BY <1>t, <2>1, <2>2, <2>3 DEF CallerInv
<1>6. ASSUME NEW c \in Callers, Send(c) PROVE CallerInv'
  <2>1. PICK n \in Nat \ {0} : Sends(c, n)
    BY <1>6, SendEffect
  <2>2. /\ pc[c] # "idle" /\ SentUpTo(c) \in Nat /\ SentUpTo(c) + n <= FrameLen(msg[c])
        /\ wire' = wire \o SubSeq(Frame(msg[c]), SentUpTo(c) + 1, SentUpTo(c) + n)
        /\ UNCHANGED <<transport, fd, msg, messages, failures>>
        /\ pc' \in [Callers -> {"idle", "prefix", "payload"}] /\ sent' \in [Callers -> Nat]
        /\ \A d \in Callers : d # c => pc'[d] = pc[d] /\ sent'[d] = sent[d]
        /\ acked' \in {acked, acked \cup {msg[c]}}
        /\ pc'[c] = "idle" \/ sent'[c] < BufferLen(c)'
    BY <2>1 DEF Sends, open
  <2>3. wire' \in Seq(Octets \cup Msgs)
    <3>1. msg[c] \in Msgs
      BY <1>t
    <3>2. Frame(msg[c]) \in Seq(Octets) /\ Len(Frame(msg[c])) = FrameLen(msg[c])
      BY <3>1, FrameIs
    <3>3. SubSeq(Frame(msg[c]), SentUpTo(c) + 1, SentUpTo(c) + n) \in Seq(Octets)
      BY <2>2, <3>2, SubSeqProperties
    <3>4. SubSeq(Frame(msg[c]), SentUpTo(c) + 1, SentUpTo(c) + n) \in Seq(Octets \cup Msgs)
      BY <3>3
    <3> QED BY <1>t, <2>2, <3>4, ConcatProperties
  <2>4. acked' \subseteq Msgs /\ \A m \in acked' : m.id <= messages'
    <3>1. msg[c] \in Msgs /\ msg[c].id <= messages
      BY <1>t, <1>a, <2>2
    <3> QED BY <1>t, <2>2, <3>1
  <2>5. ASSUME NEW d \in Callers, pc'[d] # "idle"
        PROVE  /\ fd' # 0 /\ transport' = "TCP" /\ msg'[d].id <= messages'
               /\ msg'[d].len # 0 /\ sent'[d] < BufferLen(d)'
    <3>1. CASE d = c
      BY <1>a, <2>2, <2>5, <3>1
    <3>2. CASE d # c
      <4>1. pc'[d] = pc[d] /\ msg'[d] = msg[d] /\ sent'[d] = sent[d]
        BY <1>t, <2>2, <3>2
      <4> QED BY <1>a, <1>b, <2>2, <2>5, <4>1
    <3> QED BY <3>1, <3>2
  <2> QED BY <1>t, <2>2, <2>3, <2>4, <2>5 DEF CallerInv
<1> QED BY <1>1, <1>2, <1>3, <1>4, <1>5, <1>6 DEF Calls

(* Over UDP a message is acknowledged when its datagram left, once. *)
LEMMA DatagramStep ==
    ASSUME SocketInv, CallerInv, DatagramInv, Waits \/ Starts \/ Calls
    PROVE  DatagramInv'
<1> SUFFICES ASSUME transport' = "UDP"
             PROVE  /\ IsFiniteSet(acked') /\ {wire'[i] : i \in 1 .. Len(wire')} = acked'
                    /\ Len(wire') = Cardinality(acked') /\ \A m \in acked' : m.len <= UdpMax
  BY DEF DatagramInv, DatagramPerMessage
<1>t. /\ wire \in Seq(Octets \cup Msgs) /\ messages \in Nat
      /\ \A m \in acked : m.id <= messages /\ m.id \in Nat
  BY CallerTypes
<1>d. transport = "UDP" =>
         /\ IsFiniteSet(acked) /\ {wire[i] : i \in 1 .. Len(wire)} = acked
         /\ Len(wire) = Cardinality(acked) /\ \A m \in acked : m.len <= UdpMax
  BY DEF DatagramInv, DatagramPerMessage
<1>1. CASE UNCHANGED <<transport, wire, acked>>
  BY <1>d, <1>1
<1>2. CASE Waits
  BY <1>1, <1>2 DEF Waits, history
<1>3. CASE Starts
  <2>1. wire' = << >> /\ acked' = {}
    BY <1>3 DEF Starts
  <2>2. IsFiniteSet({}) /\ Cardinality({}) = 0
    BY FS_EmptySet
  <2> QED BY <2>1, <2>2
<1>4. ASSUME NEW c \in Callers, NEW len \in Lengths, UdpWrite(c, len)
      PROVE  /\ IsFiniteSet(acked') /\ {wire'[i] : i \in 1 .. Len(wire')} = acked'
             /\ Len(wire') = Cardinality(acked') /\ \A m \in acked' : m.len <= UdpMax
  <2> DEFINE new == [id |-> messages + 1, len |-> len]
  <2>1. UNCHANGED transport /\ msg' = [msg EXCEPT ![c] = new] /\ msg \in [Callers -> Msgs]
    BY <1>4, CallerTypes DEF UdpWrite, open
  <2>2. new.id = messages + 1 /\ new.len = len /\ msg'[c] = new /\ len \in Nat /\ new \in Msgs
    BY <1>t, <2>1, SyslogConstants DEF Msgs
  <2> HIDE DEF new
  <2>3. CASE UNCHANGED <<wire, acked>>
    BY <1>1, <2>1, <2>3
  <2>4. CASE ~TooLong(len) /\ wire' = Append(wire, new) /\ acked' = acked \cup {new}
    <3>1. new \notin acked
      BY <1>t, <2>2
    <3>2. new.len <= UdpMax
      BY <2>2, <2>4, SyslogConstants DEF TooLong
    <3>3. IsFiniteSet(acked') /\ Cardinality(acked') = Cardinality(acked) + 1
      BY <1>d, <2>1, <2>4, <3>1, FS_AddElement
    <3>4. /\ Len(wire') = Len(wire) + 1 /\ wire'[Len(wire) + 1] = new
          /\ \A i \in 1 .. Len(wire) : wire'[i] = wire[i]
      BY <1>t, <2>2, <2>4, AppendProperties
    <3>5. {wire'[i] : i \in 1 .. Len(wire')} = acked'
      <4>1. Len(wire) \in Nat
        BY <1>t, LenProperties
      <4>2. \A i \in 1 .. Len(wire') : i \in 1 .. Len(wire) \/ i = Len(wire) + 1
        BY <3>4, <4>1
      <4>3. \A i \in 1 .. Len(wire) : i \in 1 .. Len(wire')
        BY <3>4, <4>1
      <4>4. Len(wire) + 1 \in 1 .. Len(wire')
        BY <3>4, <4>1
      <4> QED BY <1>d, <2>1, <2>4, <3>4, <4>2, <4>3, <4>4
    <3> QED BY <1>d, <2>1, <2>4, <3>2, <3>3, <3>4, <3>5
  <2> QED BY <1>4, <2>2, <2>3, <2>4 DEF UdpWrite
<1>5. ASSUME NEW c \in Callers, Send(c) \/ SendFails(c) PROVE FALSE
  <2>1. pc[c] # "idle" /\ transport' = transport
    BY <1>5 DEF Send, SendFails, open
  <2> QED BY <2>1 DEF CallerInv
<1>6. ASSUME NEW c \in Callers, NEW len \in Lengths, TcpWrite(c, len) PROVE FALSE
  BY <1>6 DEF TcpWrite, open
<1> QED BY <1>2, <1>3, <1>4, <1>5, <1>6 DEF Calls

----------------------------------------------------------------------------
(* The syslog sink, whatever the threads do *)

(* The inductive invariant of the syslog sink. *)
THEOREM SyslogInvariant == PathSpec => []SyslogInv
<1>1. PathInit => SyslogInv
  <2> SUFFICES ASSUME PathInit PROVE SyslogInv
    OBVIOUS
  <2>1. /\ transport \in Transports /\ fd = 0 /\ sockets = {} /\ entry = 0 /\ socket_fd = 0
        /\ pc = [c \in Callers |-> "idle"] /\ msg = [c \in Callers |-> NoMsg]
        /\ sent = [c \in Callers |-> 0] /\ wire = << >> /\ messages = 0
        /\ acked = {} /\ failures = 0
    BY DEF PathInit, Init
  <2>2. transport \in {"TCP", "UDP"}
    <3>1. Transports \subseteq {"TCP", "UDP"}
      BY SyslogConstants
    <3> QED BY <2>1, <3>1
  <2>3. SocketInv
    BY <2>1, <2>2 DEF SocketInv
  <2>4. CallerInv
    <3>1. NoMsg \in Msgs
      BY DEF NoMsg, Msgs
    <3> QED BY <2>1, <3>1 DEF CallerInv
  <2>5. DatagramInv
    <3>1. IsFiniteSet({}) /\ Cardinality({}) = 0
      BY FS_EmptySet
    <3> QED BY <2>1, <3>1 DEF DatagramInv, DatagramPerMessage
  <2> QED BY <2>3, <2>4, <2>5 DEF SyslogInv
<1>2. SyslogInv /\ [PathNext]_pathVars => SyslogInv'
  <2> SUFFICES ASSUME SyslogInv, [PathNext]_pathVars PROVE SyslogInv'
    OBVIOUS
  <2>1. [Next]_vars
    BY PathStep
  <2>2. SocketInv /\ CallerInv /\ DatagramInv
    BY DEF SyslogInv
  <2>3. SocketInv' /\ (Waits \/ Starts \/ Calls)
    BY <2>1, <2>2, SocketStep
  <2>4. CallerInv' /\ DatagramInv'
    BY <2>2, <2>3, CallerStep, DatagramStep
  <2> QED BY <2>3, <2>4 DEF SyslogInv
<1> QED BY <1>1, <1>2, PTL DEF PathSpec

(* Outside the address loop the only socket of the sink is its fd: every   *)
(* socket that was not kept is closed, and close leaves none.              *)
THEOREM SyslogNoSocketLeak == PathSpec => []NoSocketLeak
<1>1. SyslogInv => NoSocketLeak
  <2> SUFFICES ASSUME SyslogInv, entry = 0 PROVE sockets = IF fd = 0 THEN {} ELSE {fd}
    BY DEF NoSocketLeak
  <2>1. sockets = {fd, socket_fd} \ {0} /\ (socket_fd # 0 => entry \in 1 .. Addresses)
    BY DEF SyslogInv, SocketInv
  <2>2. socket_fd = 0
    BY <2>1
  <2> QED BY <2>1, <2>2
<1> QED BY <1>1, SyslogInvariant, PTL

(* Over UDP the datagrams are exactly the acknowledged messages, each sent *)
(* once and none above the target size, with any number of threads.        *)
THEOREM SyslogDatagramPerMessage == PathSpec => []DatagramPerMessage
<1>1. SyslogInv => DatagramPerMessage
  BY DEF SyslogInv, DatagramInv, DatagramPerMessage
<1> QED BY <1>1, SyslogInvariant, PTL

----------------------------------------------------------------------------
(* The TCP connection, with one writer at a time *)

\* The stream of octets is a sequence of frames, the last perhaps incomplete.
FramedOf(w) ==
    /\ w # << >> => w[1].at = 1
    /\ \A i \in 1 .. Len(w) - 1 :
          \/ w[i].msg = w[i + 1].msg /\ w[i + 1].at = w[i].at + 1
          \/ w[i].at = w[i].of /\ w[i + 1].at = 1

\* The octet at place k of the frame of m.
Octet(m, k) == [msg |-> m.id, at |-> k, of |-> FrameLen(m)]

(* The next part of a frame keeps the stream framed. *)
LEMMA FramedAppend ==
    ASSUME NEW w \in Seq(Octets \cup Msgs), FramedOf(w), NEW m \in Msgs, NEW p \in Nat,
           NEW n \in Nat \ {0}, p + n <= FrameLen(m), p <= Len(w),
           p = 0 /\ w # << >> => w[Len(w)].at = w[Len(w)].of,
           p # 0 => w[Len(w)] = Octet(m, p)
    PROVE  LET v == w \o SubSeq(Frame(m), p + 1, p + n)
           IN  FramedOf(v) /\ Len(v) = Len(w) + n /\ v[Len(v)] = Octet(m, p + n)
<1> DEFINE b == SubSeq(Frame(m), p + 1, p + n)
           v == w \o b
<1>0. Len(w) \in Nat /\ (w # << >> <=> Len(w) # 0)
  BY LenProperties, EmptySeq
<1>1. /\ Frame(m) \in Seq(Octets) /\ Len(Frame(m)) = FrameLen(m) /\ FrameLen(m) \in Nat
      /\ \A k \in 1 .. FrameLen(m) : Frame(m)[k] = Octet(m, k)
  BY FrameIs DEF Octet
<1>2. /\ b \in Seq(Octets) /\ Len(b) = n /\ \A i \in 1 .. n : b[i] = Octet(m, p + i)
  <2> DEFINE F == Frame(m)
  <2>1. p + 1 \in 1 .. Len(F) /\ p + n \in 1 .. Len(F) /\ p + n >= p + 1
    BY <1>1
  <2> HIDE DEF F
  <2>2. /\ SubSeq(F, p + 1, p + n) \in Seq(Octets) /\ Len(SubSeq(F, p + 1, p + n)) = n
        /\ \A i \in 1 .. n : SubSeq(F, p + 1, p + n)[i] = F[p + i]
    <3>1. F \in Seq(Octets)
      BY <1>1 DEF F
    <3>2. /\ SubSeq(F, p + 1, p + n) \in Seq(Octets)
          /\ Len(SubSeq(F, p + 1, p + n)) = (p + n) - (p + 1) + 1
          /\ \A i \in 1 .. (p + n) - (p + 1) + 1 : SubSeq(F, p + 1, p + n)[i] = F[(p + 1) + i - 1]
      BY <2>1, <3>1, SubSeqProperties
    <3>3. (p + n) - (p + 1) + 1 = n /\ \A i \in 1 .. n : (p + 1) + i - 1 = p + i
      OBVIOUS
    <3> QED BY <3>2, <3>3
  <2>3. \A i \in 1 .. n : p + i \in 1 .. FrameLen(m)
    BY <1>1
  <2> QED BY <1>1, <2>2, <2>3 DEF F
<1> HIDE DEF b
<1>3. /\ Len(v) = Len(w) + n
      /\ \A i \in 1 .. Len(w) : v[i] = w[i]
      /\ \A i \in 1 .. n : v[Len(w) + i] = Octet(m, p + i)
  <2>1. b \in Seq(Octets \cup Msgs)
    BY <1>2
  <2>2. /\ Len(v) = Len(w) + Len(b)
        /\ \A i \in 1 .. Len(w) + Len(b) : v[i] = IF i <= Len(w) THEN w[i] ELSE b[i - Len(w)]
    BY <2>1, ConcatProperties
  <2>3. \A i \in 1 .. Len(w) : i \in 1 .. Len(w) + Len(b) /\ i <= Len(w)
    BY <1>0, <1>2
  <2>4. \A i \in 1 .. n : /\ Len(w) + i \in 1 .. Len(w) + Len(b) /\ ~(Len(w) + i <= Len(w))
                          /\ (Len(w) + i) - Len(w) = i
    BY <1>0, <1>2
  <2> HIDE DEF v
  <2> QED BY <1>2, <2>2, <2>3, <2>4
<1> HIDE DEF v
<1>4. \A k : Octet(m, k).msg = m.id /\ Octet(m, k).at = k /\ Octet(m, k).of = FrameLen(m)
  BY DEF Octet
<1>5. v[1].at = 1
  <2>1. CASE Len(w) = 0
    <3>1. 1 \in 1 .. n /\ Len(w) + 1 = 1 /\ p = 0 /\ p + 1 = 1
      BY <1>0, <2>1
    <3>2. v[1] = Octet(m, 1)
      BY <1>3, <3>1
    <3> QED BY <1>4, <3>2
  <2>2. CASE Len(w) # 0
    <3>1. 1 \in 1 .. Len(w) /\ w # << >>
      BY <1>0, <2>2
    <3> QED BY <1>3, <3>1 DEF FramedOf
  <2> QED BY <2>1, <2>2
<1>6. ASSUME NEW i \in 1 .. Len(v) - 1
      PROVE  \/ v[i].msg = v[i + 1].msg /\ v[i + 1].at = v[i].at + 1
             \/ v[i].at = v[i].of /\ v[i + 1].at = 1
  <2>1. CASE i < Len(w)
    <3>1. i \in 1 .. Len(w) - 1 /\ i \in 1 .. Len(w) /\ i + 1 \in 1 .. Len(w)
      BY <1>0, <2>1
    <3> QED BY <1>3, <3>1 DEF FramedOf
  <2>2. CASE i = Len(w)
    <3>1. 1 \in 1 .. n /\ i \in 1 .. Len(w) /\ w # << >>
      BY <1>0, <2>2
    <3>2. v[i] = w[Len(w)] /\ v[i + 1] = Octet(m, p + 1)
      BY <1>3, <2>2, <3>1
    <3>3. CASE p = 0
      BY <1>4, <3>1, <3>2, <3>3
    <3>4. CASE p # 0
      BY <1>4, <3>2, <3>4
    <3> QED BY <3>3, <3>4
  <2>3. CASE i > Len(w)
    <3>1. PICK j \in 1 .. n - 1 : i = Len(w) + j
      <4>1. i - Len(w) \in 1 .. n - 1 /\ i = Len(w) + (i - Len(w))
        BY <1>0, <1>3, <2>3
      <4> QED BY <4>1
    <3>2. j \in 1 .. n /\ j + 1 \in 1 .. n /\ i + 1 = Len(w) + (j + 1)
      BY <1>0, <3>1
    <3>3. v[i] = Octet(m, p + j) /\ v[i + 1] = Octet(m, p + (j + 1))
      BY <1>3, <3>1, <3>2
    <3>4. p + (j + 1) = (p + j) + 1
      OBVIOUS
    <3> QED BY <1>4, <3>3, <3>4
  <2> QED BY <1>0, <2>1, <2>2, <2>3
<1>7. FramedOf(v)
  BY <1>5, <1>6 DEF FramedOf
<1>8. v[Len(v)] = Octet(m, p + n)
  BY <1>3
<1> QED BY <1>3, <1>7, <1>8 DEF v, b

\* The last p cells of w, the first p of f, and the n that follow them.
EndOf(w, p) == SubSeq(w, Len(w) - p + 1, Len(w))
StartOf(f, p) == SubSeq(f, 1, p)
PartOf(f, p, n) == SubSeq(f, p + 1, p + n)

\* v is w with its end, the first p cells of f, grown by n.
Grown(S, w, f, p, n, v) ==
    v \in Seq(S) /\ Len(v) = Len(w) + n /\ EndOf(v, p + n) = StartOf(f, p + n)

(* If the end of w is the beginning of f, it stays so when w grows by the  *)
(* next part of f.                                                         *)
LEMMA EndGrows ==
    ASSUME NEW S, NEW w \in Seq(S), NEW f \in Seq(S),
           NEW p \in 0 .. Len(w), NEW n \in 0 .. Len(f) - p, NEW v,
           EndOf(w, p) = StartOf(f, p), v = w \o PartOf(f, p, n)
    PROVE  Grown(S, w, f, p, n, v)
<1> DEFINE b == SubSeq(f, p + 1, p + n)
           m == Len(w) - p
<1>0. Len(w) \in Nat /\ Len(f) \in Nat /\ m \in 0 .. Len(w)
  BY LenProperties
<1>1. b \in Seq(S) /\ Len(b) = n
  <2>1. p + 1 \in 1 .. Len(f) + 1 /\ p + n \in (p + 1) - 1 .. Len(f)
    BY <1>0
  <2>2. CASE n = 0
    <3>1. b = << >>
      BY <2>2, SubSeqEmpty
    <3> QED BY <2>2, <3>1
  <2>3. CASE n # 0
    <3>1. p + 1 \in 1 .. Len(f) /\ p + n \in p + 1 .. Len(f)
      BY <1>0, <2>3
    <3>2. /\ SubSeq(f, p + 1, p + n) \in Seq(S)
          /\ Len(SubSeq(f, p + 1, p + n)) = (p + n) - (p + 1) + 1
      BY <3>1, SubSeqProperties
    <3> QED BY <3>2
  <2> QED BY <2>2, <2>3
<1>2. SubSeq(f, 1, p) \o b = SubSeq(f, 1, p + n)
  <2>1. 1 \in 1 .. Len(f) + 1 /\ p \in 1 - 1 .. Len(f) /\ p + n \in p .. Len(f)
    BY <1>0
  <2> QED BY <2>1, ConcatAdjacentSubSeq
<1> HIDE DEF b, m
<1>3. w \o b \in Seq(S) /\ Len(w \o b) = Len(w) + n
  BY <1>1, ConcatProperties
<1>4. SubSeq(w \o b, m + 1, Len(w \o b)) = SubSeq(w, m + 1, Len(w)) \o b
  BY <1>0, <1>1, EndOfConcat
<1>5. SubSeq(w, m + 1, Len(w)) = SubSeq(f, 1, p)
  BY DEF m, EndOf, StartOf
<1>6. v = w \o b
  BY DEF b, PartOf
<1>7. Len(v) - (p + n) = m
  BY <1>0, <1>3, <1>6 DEF m
<1>8. SubSeq(v, m + 1, Len(v)) = SubSeq(f, 1, p + n)
  BY <1>2, <1>4, <1>5, <1>6, Zenon
<1> QED BY <1>3, <1>6, <1>7, <1>8 DEF EndOf, StartOf, Grown

\* One thread writes at a time; the end of the stream is what it sent of its
\* frame; between two frames the last octet is the last of its frame.
OneWriter == \A c, d \in Callers : pc[c] # "idle" /\ pc[d] # "idle" => c = d
Sending ==
    \A c \in Callers : pc[c] # "idle" =>
        /\ SentUpTo(c) \in Nat /\ SentUpTo(c) <= Len(wire)
        /\ SubSeq(wire, Len(wire) - SentUpTo(c) + 1, Len(wire))
             = SubSeq(Frame(msg[c]), 1, SentUpTo(c))
Between ==
    transport = "TCP" /\ failures = 0 /\ wire # << >>
      /\ (\A c \in Callers : pc[c] # "idle" => SentUpTo(c) = 0)
        => wire[Len(wire)].at = wire[Len(wire)].of
TurnInv == OneWriter /\ Sending /\ Between /\ AckedWhole /\ FramedUntilFailure

(* A sink that turns are taken on sees one writer at a time. *)
LEMMA TurnStep == ASSUME TurnsOnTcp = TRUE, [PathNext]_pathVars PROVE Turn
<1> SUFFICES ASSUME messages' # messages, transport = "TCP", NEW c \in Callers
             PROVE  pc[c] = "idle"
  BY DEF Turn
<1>1. CASE UNCHANGED pathVars
  BY <1>1 DEF pathVars, vars, callers
<1>2. CASE Opening
  BY <1>2 DEF Opening, StartOpen, SocketFails, TcpSocket, ConnectFails, Connected, UdpSocket,
              OpenFails, Close, callers
<1>3. ASSUME NEW d \in Callers, Log(d) PROVE pc[c] = "idle"
  BY <1>3 DEF Log, vars, callers
<1>4. ASSUME NEW d \in Callers, Writing(d) PROVE FALSE
  BY <1>4 DEF Writing, Send, SendFails, vars, callers
<1> QED BY <1>1, <1>2, <1>3, <1>4 DEF PathNext

\* The stream holds the whole frame of m.
WholeIn(w, m) == \E i \in 0 .. Len(w) - FrameLen(m) :
                    SubSeq(w, i + 1, i + FrameLen(m)) = Frame(m)

(* A frame that is whole on the connection stays whole. *)
LEMMA WholeStays ==
    ASSUME NEW S, NEW w \in Seq(S), NEW b \in Seq(S), NEW m \in Msgs, WholeIn(w, m)
    PROVE  WholeIn(w \o b, m)
<1>0. FrameLen(m) \in Nat /\ Len(w) \in Nat /\ Len(b) \in Nat
  BY FrameIs, LenProperties
<1>1. PICK i \in 0 .. Len(w) - FrameLen(m) : SubSeq(w, i + 1, i + FrameLen(m)) = Frame(m)
  BY DEF WholeIn
<1>2. Len(w \o b) = Len(w) + Len(b)
  BY ConcatProperties
<1>3. i \in Nat /\ i + FrameLen(m) \in 0 .. Len(w) /\ i \in 0 .. Len(w \o b) - FrameLen(m)
  BY <1>0, <1>2
<1>4. SubSeq(w \o b, i + 1, i + FrameLen(m)) = SubSeq(w, i + 1, i + FrameLen(m))
  BY <1>3, SliceOfConcat, Zenon
<1> QED BY <1>1, <1>3, <1>4, Zenon DEF WholeIn

(* A writer that has sent something sent the last octet of the stream. *)
LEMMA LastSent ==
    ASSUME CallerInv, Sending, NEW c \in Callers, pc[c] # "idle", SentUpTo(c) # 0,
           SentUpTo(c) <= FrameLen(msg[c])
    PROVE  wire[Len(wire)] = Octet(msg[c], SentUpTo(c))
<1> DEFINE p == SentUpTo(c)
           F == Frame(msg[c])
           W == wire
<1>1. /\ p \in Nat /\ p # 0 /\ p <= Len(W) /\ p <= FrameLen(msg[c])
      /\ SubSeq(W, Len(W) - p + 1, Len(W)) = SubSeq(F, 1, p)
  BY DEF Sending
<1>2. Len(W) \in Nat
  BY CallerTypes, LenProperties
<1>3. msg[c] \in Msgs
  BY CallerTypes
<1>4. FrameLen(msg[c]) \in Nat /\ \A k \in 1 .. FrameLen(msg[c]) : F[k] = Octet(msg[c], k)
  BY <1>3, FrameIs DEF Octet
<1>5. p \in 1 .. FrameLen(msg[c]) /\ F[p] = Octet(msg[c], p)
  BY <1>1, <1>4
<1> HIDE DEF p, F, W
<1>6. SubSeq(F, 1, p)[p] = F[p]
  <2>1. SubSeq(F, 1, p) = [i \in 1 .. 1 + p - 1 |-> F[1 + i - 1]]
    BY <1>1, SubSeqIs
  <2>2. p \in 1 .. 1 + p - 1 /\ 1 + p - 1 = p
    BY <1>1
  <2> QED BY <2>1, <2>2
<1>7. SubSeq(W, Len(W) - p + 1, Len(W))[p] = W[Len(W)]
  <2>1. Len(W) - p + 1 \in Nat
    BY <1>1, <1>2
  <2>2. SubSeq(W, Len(W) - p + 1, Len(W))
          = [i \in 1 .. 1 + Len(W) - (Len(W) - p + 1) |-> W[(Len(W) - p + 1) + i - 1]]
    BY <1>2, <2>1, SubSeqIs
  <2>3. p \in 1 .. 1 + Len(W) - (Len(W) - p + 1) /\ (Len(W) - p + 1) + p - 1 = Len(W)
    BY <1>1, <1>2
  <2> QED BY <2>2, <2>3
<1> QED BY <1>1, <1>5, <1>6, <1>7 DEF p, F, W

(* Sending the next part of the frame keeps the stream framed and what was *)
(* acknowledged whole.                                                     *)
LEMMA TurnSend ==
    ASSUME SyslogInv, TurnInv, NEW c \in Callers, NEW n \in Nat \ {0}, Sends(c, n)
    PROVE  TurnInv'
<1> DEFINE p == SentUpTo(c)
           m == msg[c]
           T == Octets \cup Msgs
<1>t. /\ CallerInv /\ wire \in Seq(T) /\ m \in Msgs /\ acked \subseteq Msgs
      /\ pc \in [Callers -> {"idle", "prefix", "payload"}]
  BY CallerTypes DEF SyslogInv
<1>i. OneWriter /\ Sending /\ Between /\ AckedWhole /\ FramedUntilFailure
  BY DEF TurnInv
<1>s. /\ pc[c] # "idle" /\ p \in Nat /\ p + n <= FrameLen(m)
      /\ wire' = wire \o SubSeq(Frame(m), p + 1, p + n)
      /\ UNCHANGED <<open, msg, messages, failures>>
      /\ pc' \in [Callers -> {"idle", "prefix", "payload"}] /\ sent' \in [Callers -> Nat]
      /\ \A d \in Callers : d # c => pc'[d] = pc[d] /\ sent'[d] = sent[d]
      /\ \/ /\ p + n = FrameLen(m)
            /\ pc'[c] = "idle" /\ acked' = acked \cup {m}
         \/ /\ pc'[c] # "idle" /\ acked' = acked
            /\ SentUpTo(c)' = p + n /\ sent'[c] < BufferLen(c)'
  BY DEF Sends
<1>u. msg' = msg /\ failures' = failures /\ transport' = transport /\ transport = "TCP"
  BY <1>s, <1>t DEF open, CallerInv
<1>o. \A d \in Callers : d # c => pc[d] = "idle" /\ pc'[d] = "idle"
  BY <1>i, <1>s DEF OneWriter
<1>e. p <= Len(wire) /\ SubSeq(wire, Len(wire) - p + 1, Len(wire)) = SubSeq(Frame(m), 1, p)
  BY <1>i, <1>s DEF Sending
<1>f. /\ FrameLen(m) \in Nat /\ Frame(m) \in Seq(Octets) /\ Len(Frame(m)) = FrameLen(m)
  BY <1>t, FrameIs
<1>T. Octets \subseteq T /\ Frame(m) \in Seq(T)
  BY <1>f
<1>w. Len(wire) \in Nat
  BY <1>t, LenProperties
<1>l. p # 0 => wire[Len(wire)] = Octet(m, p)
  <2>1. p <= FrameLen(m)
    BY <1>s, <1>f
  <2> QED BY <1>t, <1>i, <1>s, <2>1, LastSent
<1> HIDE DEF T, p, m
<1>v. /\ wire' \in Seq(T) /\ Len(wire') = Len(wire) + n
      /\ SubSeq(wire', Len(wire') - (p + n) + 1, Len(wire')) = SubSeq(Frame(m), 1, p + n)
  <2>1. n \in Nat /\ p \in Nat /\ p <= Len(wire) /\ p + n <= Len(Frame(m))
    BY <1>s, <1>e, <1>f
  <2>2. wire' = wire \o PartOf(Frame(m), p, n)
    BY <1>s DEF PartOf
  <2>3. EndOf(wire, p) = StartOf(Frame(m), p)
    BY <1>e DEF EndOf, StartOf
  <2>4. wire' \in Seq(T) /\ Len(wire') = Len(wire) + n
        /\ EndOf(wire', p + n) = StartOf(Frame(m), p + n)
    <3>1. wire \in Seq(T) /\ Frame(m) \in Seq(T)
      BY <1>t, <1>T
    <3>2. p \in 0 .. Len(wire) /\ n \in 0 .. Len(Frame(m)) - p
      BY <1>f, <1>w, <2>1
    <3>3. \A v : v = wire \o PartOf(Frame(m), p, n) => Grown(T, wire, Frame(m), p, n, v)
      BY <3>1, <3>2, <2>3, EndGrows, Zenon
    <3> QED BY <2>2, <3>3 DEF Grown, EndOf
  <2> QED BY <2>4 DEF EndOf, StartOf
<1>1. OneWriter'
  BY <1>o DEF OneWriter
<1>2. Sending'
  <2> SUFFICES ASSUME NEW d \in Callers, pc'[d] # "idle"
               PROVE  (/\ SentUpTo(d) \in Nat /\ SentUpTo(d) <= Len(wire)
                       /\ SubSeq(wire, Len(wire) - SentUpTo(d) + 1, Len(wire))
                            = SubSeq(Frame(msg[d]), 1, SentUpTo(d)))'
    BY DEF Sending
  <2>1. d = c
    BY <1>o
  <2>2. SentUpTo(d)' = p + n /\ msg'[d] = m
    BY <1>s, <1>u, <2>1 DEF m
  <2>3. p + n \in Nat /\ p + n <= Len(wire')
    BY <1>s, <1>e, <1>v, <1>w
  <2>4. Frame(msg[d])' = Frame(m)
    BY <2>2 DEF Frame, FrameLen, PrefixLen
  <2> QED BY <1>v, <2>2, <2>3, <2>4
<1>g. failures = 0 => FramedOf(wire') /\ wire'[Len(wire')] = Octet(m, p + n)
  <2> SUFFICES ASSUME failures = 0
               PROVE  FramedOf(wire') /\ wire'[Len(wire')] = Octet(m, p + n)
    OBVIOUS
  <2>1. FramedOf(wire)
    BY <1>i, <1>u DEF FramedUntilFailure, Framed, FramedOf
  <2>2. p = 0 /\ wire # << >> => wire[Len(wire)].at = wire[Len(wire)].of
    <3>1. p = 0 => \A d \in Callers : pc[d] # "idle" => SentUpTo(d) = 0
      BY <1>o DEF p
    <3> QED BY <1>i, <1>u, <3>1 DEF Between
  <2>3. LET v == wire \o SubSeq(Frame(m), p + 1, p + n)
        IN  FramedOf(v) /\ Len(v) = Len(wire) + n /\ v[Len(v)] = Octet(m, p + n)
    BY <1>t, <1>s, <1>e, <1>l, <2>1, <2>2, FramedAppend DEF T
  <2> QED BY <1>s, <2>3
<1>3. FramedUntilFailure'
  BY <1>g, <1>u DEF FramedUntilFailure, Framed, FramedOf
<1>4. Between'
  <2> SUFFICES ASSUME failures' = 0, \A d \in Callers : pc'[d] # "idle" => SentUpTo(d)' = 0
               PROVE  wire'[Len(wire')].at = wire'[Len(wire')].of
    BY DEF Between
  <2>1. p + n = FrameLen(m)
    BY <1>s
  <2>2. wire'[Len(wire')] = Octet(m, p + n)
    BY <1>g, <1>u
  <2> QED BY <2>1, <2>2 DEF Octet
<1>5. AckedWhole'
  <2>1. \A a \in acked : WholeIn(wire, a)
    BY <1>i, <1>u DEF AckedWhole, WholeIn
  <2>2. SubSeq(Frame(m), p + 1, p + n) \in Seq(T)
    <3> DEFINE F == Frame(m)
    <3>1. F \in Seq(T) /\ p + 1 \in 1 .. Len(F) /\ p + n \in p + 1 .. Len(F)
      BY <1>f, <1>T, <1>s
    <3> HIDE DEF F
    <3>2. SubSeq(F, p + 1, p + n) \in Seq(T)
      BY <3>1, SubSeqProperties
    <3> QED BY <3>2 DEF F
  <2>3. \A a \in acked : WholeIn(wire', a)
    <3> SUFFICES ASSUME NEW a \in acked PROVE WholeIn(wire', a)
      OBVIOUS
    <3>1. a \in Msgs /\ WholeIn(wire, a)
      BY <1>t, <2>1
    <3>2. WholeIn(wire \o SubSeq(Frame(m), p + 1, p + n), a)
      BY <1>t, <2>2, <3>1, WholeStays
    <3> QED BY <1>s, <3>2
  <2>4. p + n = FrameLen(m) => WholeIn(wire', m)
    <3> SUFFICES ASSUME p + n = FrameLen(m) PROVE WholeIn(wire', m)
      OBVIOUS
    <3> DEFINE i == Len(wire') - FrameLen(m)
    <3>0. /\ Len(wire') \in Nat /\ p \in Nat /\ FrameLen(m) \in Nat /\ p <= Len(wire)
          /\ Len(wire') = Len(wire) + n
      BY <1>s, <1>f, <1>e, <1>v, <1>w
    <3>b. FrameLen(m) <= Len(wire')
      BY <1>w, <3>0
    <3>c. \A l, f \in Nat : f <= l => l - f \in 0 .. l - f /\ (l - f) + f = l
      OBVIOUS
    <3>1. i \in 0 .. Len(wire') - FrameLen(m) /\ i + FrameLen(m) = Len(wire')
      BY <3>0, <3>b, <3>c
    <3>2. SubSeq(Frame(m), 1, FrameLen(m)) = Frame(m)
      BY <1>f, SubSeqFull
    <3>3. SubSeq(wire', i + 1, i + FrameLen(m)) = Frame(m)
      BY <1>v, <3>1, <3>2
    <3> HIDE DEF i
    <3> QED BY <3>1, <3>3 DEF WholeIn
  <2>5. \A a \in acked' : WholeIn(wire', a)
    BY <1>s, <2>3, <2>4
  <2>6. \A a : WholeIn(wire', a) => (\E i \in 0 .. Len(wire) - FrameLen(a) :
                   SubSeq(wire, i + 1, i + FrameLen(a)) = Frame(a))'
    BY DEF WholeIn, FrameLen, PrefixLen, Frame
  <2> QED BY <2>5, <2>6 DEF AckedWhole
<1> QED BY <1>1, <1>2, <1>3, <1>4, <1>5 DEF TurnInv

(* Every other step of the sink leaves the stream as it is, or begins a    *)
(* new one.                                                                *)
LEMMA TurnOther ==
    ASSUME SyslogInv, TurnInv, Turn, Waits \/ Starts \/ Calls,
           \A c \in Callers : ~Send(c)
    PROVE  TurnInv'
<1>t. /\ pc \in [Callers -> {"idle", "prefix", "payload"}] /\ messages \in Nat
      /\ failures \in Nat /\ sent \in [Callers -> Nat] /\ msg \in [Callers -> Msgs]
      /\ \A c \in Callers : pc[c] # "idle" => fd # 0 /\ transport = "TCP"
  BY CallerTypes DEF SyslogInv, CallerInv
<1>i. OneWriter /\ Sending /\ Between /\ AckedWhole /\ FramedUntilFailure
  BY DEF TurnInv
<1>1. CASE Waits
  <2>1. UNCHANGED <<transport, pc, msg, sent, wire, acked, failures>>
    BY <1>1 DEF Waits, callers, history
  <2>2. OneWriter'
    BY <1>i, <2>1 DEF OneWriter
  <2>3. Sending'
    BY <1>i, <2>1 DEF Sending, SentUpTo, BufferAt, Frame, FrameLen, PrefixLen
  <2>4. Between'
    BY <1>i, <2>1 DEF Between, SentUpTo, BufferAt, PrefixLen
  <2>5. AckedWhole'
    BY <1>i, <2>1 DEF AckedWhole, Frame, FrameLen, PrefixLen
  <2>6. FramedUntilFailure'
    BY <1>i, <2>1 DEF FramedUntilFailure, Framed
  <2> QED BY <2>2, <2>3, <2>4, <2>5, <2>6 DEF TurnInv
<1>2. CASE Starts
  <2>1. \A c \in Callers : pc'[c] = "idle"
    BY <1>t, <1>2 DEF Starts, callers
  <2>2. wire' = << >> /\ acked' = {}
    BY <1>2 DEF Starts
  <2>3. OneWriter' /\ Sending'
    BY <2>1 DEF OneWriter, Sending
  <2>4. Between' /\ AckedWhole' /\ FramedUntilFailure'
    BY <2>2 DEF Between, AckedWhole, FramedUntilFailure, Framed
  <2> QED BY <2>3, <2>4 DEF TurnInv
<1>3. ASSUME NEW c \in Callers, NEW len \in Lengths, TcpWrite(c, len) PROVE TurnInv'
  <2>1. /\ transport = "TCP" /\ messages' = messages + 1 /\ transport' = transport
        /\ msg' = [msg EXCEPT ![c] = [id |-> messages + 1, len |-> len]]
        /\ sent' = [sent EXCEPT ![c] = 0] /\ pc' = [pc EXCEPT ![c] = "prefix"]
        /\ UNCHANGED <<wire, acked, failures>>
    BY <1>3 DEF TcpWrite, open, history
  <2>2. \A d \in Callers : pc[d] = "idle"
    <3>1. messages' # messages
      BY <1>t, <2>1
    <3> QED BY <2>1, <3>1 DEF Turn
  <2>3. pc'[c] = "prefix" /\ sent'[c] = 0 /\ \A d \in Callers : d # c => pc'[d] = "idle"
    BY <1>t, <2>1, <2>2
  <2>4. SentUpTo(c)' = 0
    BY <2>3 DEF SentUpTo, BufferAt
  <2>5. OneWriter'
    BY <2>3 DEF OneWriter
  <2>6. Sending'
    <3>1. Len(wire) \in Nat /\ Len(wire') \in Nat
      BY <2>1, CallerTypes, LenProperties DEF SyslogInv
    <3>2. SubSeq(wire', Len(wire') - 0 + 1, Len(wire')) = << >>
      <4>1. \A l \in Nat : l - 0 + 1 > l /\ l - 0 + 1 \in Nat
        OBVIOUS
      <4> QED BY <3>1, <4>1, SubSeqEmpty
    <3>3. \A f : SubSeq(f, 1, 0) = << >>
      BY SubSeqEmpty
    <3>4. 0 \in Nat /\ 0 <= Len(wire')
      BY <3>1
    <3>5. \A d \in Callers : pc'[d] # "idle" => SentUpTo(d)' = 0
      BY <2>3, <2>4
    <3> QED BY <3>2, <3>3, <3>4, <3>5 DEF Sending
  <2>7. Between'
    BY <1>i, <2>1, <2>2 DEF Between
  <2>8. AckedWhole'
    BY <1>i, <2>1 DEF AckedWhole, Frame, FrameLen, PrefixLen
  <2>9. FramedUntilFailure'
    BY <1>i, <2>1 DEF FramedUntilFailure, Framed
  <2> QED BY <2>5, <2>6, <2>7, <2>8, <2>9 DEF TurnInv
<1>4. ASSUME NEW c \in Callers, NEW len \in Lengths, UdpWrite(c, len) PROVE TurnInv'
  <2>1. transport' # "TCP" /\ \A d \in Callers : pc'[d] = "idle"
    BY <1>t, <1>4 DEF UdpWrite, open
  <2> QED BY <2>1 DEF TurnInv, OneWriter, Sending, Between, AckedWhole, FramedUntilFailure, Framed
<1>5. ASSUME NEW c \in Callers, SendFails(c) PROVE TurnInv'
  <2>1. /\ pc[c] # "idle" /\ pc' = [pc EXCEPT ![c] = "idle"] /\ failures' = failures + 1
        /\ UNCHANGED <<transport, wire, acked>>
    BY <1>5 DEF SendFails, open
  <2>2. failures' # 0 /\ \A d \in Callers : pc'[d] = "idle"
    BY <1>t, <1>i, <2>1 DEF OneWriter
  <2>3. AckedWhole'
    BY <1>i, <2>1 DEF AckedWhole, Frame, FrameLen, PrefixLen
  <2> QED BY <2>2, <2>3 DEF TurnInv, OneWriter, Sending, Between, FramedUntilFailure
<1> QED BY <1>1, <1>2, <1>3, <1>4, <1>5 DEF Calls

(* Turns on the TCP connection keep the stream in order. *)
LEMMA TurnInvariant == ASSUME TurnsOnTcp = TRUE PROVE PathSpec => []TurnInv
<1>1. PathInit => TurnInv
  BY DEF PathInit, Init, TurnInv, OneWriter, Sending, Between, AckedWhole, FramedUntilFailure,
         Framed
<1>2. SyslogInv /\ TurnInv /\ [PathNext]_pathVars => TurnInv'
  <2> SUFFICES ASSUME SyslogInv, TurnInv, [PathNext]_pathVars PROVE TurnInv'
    OBVIOUS
  <2>1. Turn
    BY TurnStep
  <2>2. Waits \/ Starts \/ Calls
    BY PathStep, SocketStep DEF SyslogInv
  <2>3. ASSUME NEW c \in Callers, Send(c) PROVE TurnInv'
    <3>1. PICK n \in Nat \ {0} : Sends(c, n)
      BY <2>3, SendEffect DEF SyslogInv
    <3> QED BY <3>1, TurnSend
  <2> QED BY <2>1, <2>2, <2>3, TurnOther
<1> QED BY <1>1, <1>2, SyslogInvariant, PTL DEF PathSpec

(* With one writer at a time, whatever the partial sends, the TCP stream   *)
(* is a sequence of RFC 6587 frames until a send fails.                    *)
THEOREM SyslogFramedUntilFailure ==
    ASSUME TurnsOnTcp = TRUE PROVE PathSpec => []FramedUntilFailure
<1>1. TurnInv => FramedUntilFailure
  BY DEF TurnInv
<1> QED BY <1>1, TurnInvariant, PTL

(* With one writer at a time, a write that returned OK has its whole frame *)
(* on the connection without a gap, whatever failed before or after.       *)
THEOREM SyslogAckedWhole == ASSUME TurnsOnTcp = TRUE PROVE PathSpec => []AckedWhole
<1>1. TurnInv => AckedWhole
  BY DEF TurnInv
<1> QED BY <1>1, TurnInvariant, PTL

----------------------------------------------------------------------------
(* The console sink, with any number of writers *)

Cell == [line : Nat, at : Nat, of : Nat]
Statuses == {"none", "OK", "SINK_ERROR"}

ConsoleTypes ==
    /\ lines \in Nat /\ busy \subseteq Callers /\ partial \in BOOLEAN
    /\ line \in [Callers -> [id : Nat, len : Nat]]
    /\ offset \in [Callers -> Nat] /\ remaining \in [Callers -> Nat]
    /\ stdout \in Seq(Cell) /\ results \in Seq(Statuses) /\ Len(results) = lines

\* Every line is one caller's, and what is left of it follows what was taken.
LineOwners ==
    /\ \A k \in 1 .. Len(stdout) : stdout[k].line <= lines
    /\ \A c \in Callers : line[c].id <= lines
    /\ \A c, d \in Callers : line[c].id = line[d].id /\ line[c].id # 0 => c = d
    /\ \A c \in busy : /\ line[c].id # 0 /\ results[line[c].id] = "none"
                       /\ remaining[c] # 0 /\ offset[c] + remaining[c] = line[c].len + 1

\* Without a partial writev, a caller in the loop has written nothing and
\* standard output ends with a whole line.
WholeLines ==
    ~partial => /\ \A c \in busy : offset[c] = 0
                /\ stdout # << >> => stdout[Len(stdout)].at = stdout[Len(stdout)].of

ConsoleInv == ConsoleTypes /\ LineOwners /\ LineExact /\ WholeLines /\ LinesApart

\* Where the output w has cells of line n, and which of its cells they are.
PlacesIn(w, n) == {k \in 1 .. Len(w) : w[k].line = n}
CellsIn(w, n) == {w[k].at : k \in PlacesIn(w, n)}
InOrder(w, n) == \A j, k \in PlacesIn(w, n) : j < k => w[j].at < w[k].at

\* b is the n cells of line id that follow its first p.
NextCells(b, id, p, n, of) ==
    b \in Seq(Cell) /\ Len(b) = n
    /\ \A i \in 1 .. n : b[i] = [line |-> id, at |-> p + i, of |-> of]

\* v is the output w and those cells; the other lines are as they were.
Joined(w, v, id, p, n, of) ==
    /\ v \in Seq(Cell) /\ Len(v) = Len(w) + n
    /\ \A k \in 1 .. Len(w) : v[k] = w[k]
    /\ \A i \in 1 .. n : v[Len(w) + i] = [line |-> id, at |-> p + i, of |-> of]
    /\ \A m : m # id => /\ PlacesIn(v, m) = PlacesIn(w, m)
                        /\ CellsIn(v, m) = CellsIn(w, m)
                        /\ (InOrder(w, m) => InOrder(v, m))
    /\ PlacesIn(v, id) = PlacesIn(w, id) \cup (Len(w) + 1 .. Len(w) + n)

(* Cells of one line leave the other lines as they are. *)
LEMMA OtherLines ==
    ASSUME NEW w \in Seq(Cell), NEW b, NEW id \in Nat, NEW p \in Nat, NEW n \in Nat, NEW of,
           NextCells(b, id, p, n, of), NEW v, v = w \o b
    PROVE  Joined(w, v, id, p, n, of)
<1>0. Len(w) \in Nat
  BY LenProperties
<1>1. /\ b \in Seq(Cell) /\ Len(b) = n
      /\ \A i \in 1 .. n : b[i] = [line |-> id, at |-> p + i, of |-> of]
  BY DEF NextCells
<1>2. /\ v \in Seq(Cell) /\ Len(v) = Len(w) + n
      /\ \A i \in 1 .. Len(w) + n : v[i] = IF i <= Len(w) THEN w[i] ELSE b[i - Len(w)]
  BY <1>1, ConcatProperties
<1>3. \A k \in 1 .. Len(w) : v[k] = w[k]
  <2>1. \A k \in 1 .. Len(w) : k \in 1 .. Len(w) + n /\ k <= Len(w)
    BY <1>0
  <2> QED BY <1>2, <2>1
<1>4. \A i \in 1 .. n : v[Len(w) + i] = [line |-> id, at |-> p + i, of |-> of]
  <2>1. \A i \in 1 .. n : /\ Len(w) + i \in 1 .. Len(w) + n /\ ~(Len(w) + i <= Len(w))
                          /\ (Len(w) + i) - Len(w) = i
    BY <1>0
  <2> QED BY <1>1, <1>2, <2>1
<1>5. \A k \in Len(w) + 1 .. Len(w) + n : v[k].line = id
  <2> SUFFICES ASSUME NEW k \in Len(w) + 1 .. Len(w) + n PROVE v[k].line = id
    OBVIOUS
  <2>1. k - Len(w) \in 1 .. n /\ Len(w) + (k - Len(w)) = k
    BY <1>0
  <2>2. v[k] = [line |-> id, at |-> p + (k - Len(w)), of |-> of]
    BY <1>4, <2>1
  <2> QED BY <2>2
<1>6. 1 .. Len(v) = (1 .. Len(w)) \cup (Len(w) + 1 .. Len(w) + n)
  BY <1>0, <1>2
<1>7. ASSUME NEW m, m # id
      PROVE  /\ PlacesIn(v, m) = PlacesIn(w, m) /\ CellsIn(v, m) = CellsIn(w, m)
             /\ (InOrder(w, m) => InOrder(v, m))
  <2>1. PlacesIn(v, m) = PlacesIn(w, m)
    BY <1>3, <1>5, <1>6, <1>7 DEF PlacesIn
  <2>2. \A k \in PlacesIn(w, m) : v[k] = w[k]
    BY <1>3 DEF PlacesIn
  <2> QED BY <2>1, <2>2 DEF CellsIn, InOrder
<1>8. PlacesIn(v, id) = PlacesIn(w, id) \cup (Len(w) + 1 .. Len(w) + n)
  BY <1>3, <1>5, <1>6 DEF PlacesIn
<1> QED BY <1>2, <1>3, <1>4, <1>7, <1>8 DEF Joined

(* The next cells of a line keep it in order and without a gap. *)
LEMMA OwnLine ==
    ASSUME NEW w \in Seq(Cell), NEW b, NEW id \in Nat, NEW p \in Nat, NEW n \in Nat, NEW of,
           NextCells(b, id, p, n, of), NEW v, v = w \o b,
           CellsIn(w, id) = 1 .. p, InOrder(w, id)
    PROVE  CellsIn(v, id) = 1 .. p + n /\ InOrder(v, id)
<1>0. Len(w) \in Nat
  BY LenProperties
<1>1. /\ Len(v) = Len(w) + n
      /\ \A k \in 1 .. Len(w) : v[k] = w[k]
      /\ \A i \in 1 .. n : v[Len(w) + i] = [line |-> id, at |-> p + i, of |-> of]
      /\ PlacesIn(v, id) = PlacesIn(w, id) \cup (Len(w) + 1 .. Len(w) + n)
  <2>1. Joined(w, v, id, p, n, of)
    BY OtherLines, Zenon
  <2> QED BY <2>1 DEF Joined
<1>p. \A k \in PlacesIn(v, id) : k \in PlacesIn(w, id) \/ k \in Len(w) + 1 .. Len(w) + n
  BY <1>1
<1>2. \A k \in PlacesIn(w, id) : k \in 1 .. Len(w) /\ v[k] = w[k] /\ v[k].at \in 1 .. p
  BY <1>1 DEF PlacesIn, CellsIn
<1>3. \A k \in Len(w) + 1 .. Len(w) + n : v[k].at = p + (k - Len(w))
  <2> SUFFICES ASSUME NEW k \in Len(w) + 1 .. Len(w) + n PROVE v[k].at = p + (k - Len(w))
    OBVIOUS
  <2>1. k - Len(w) \in 1 .. n /\ Len(w) + (k - Len(w)) = k
    BY <1>0
  <2>2. v[k] = [line |-> id, at |-> p + (k - Len(w)), of |-> of]
    BY <1>1, <2>1
  <2> QED BY <2>2
<1>n. \A x \in 1 .. p : /\ x \in 1 .. p + n
                        /\ \A k \in Len(w) + 1 .. Len(w) + n : x < p + (k - Len(w))
  BY <1>0
<1>4. InOrder(v, id)
  <2> SUFFICES ASSUME NEW j \in PlacesIn(v, id), NEW k \in PlacesIn(v, id), j < k
               PROVE  v[j].at < v[k].at
    BY DEF InOrder
  <2>1. CASE k \in PlacesIn(w, id)
    <3>1. j \in PlacesIn(w, id)
      BY <1>0, <1>1, <1>2, <2>1
    <3> QED BY <1>2, <2>1, <3>1 DEF InOrder
  <2>2. CASE k \in Len(w) + 1 .. Len(w) + n
    <3>1. CASE j \in PlacesIn(w, id)
      <4>1. v[j].at \in 1 .. p /\ v[k].at = p + (k - Len(w))
        BY <1>2, <1>3, <2>2, <3>1
      <4> QED BY <1>n, <2>2, <4>1
    <3>2. CASE j \in Len(w) + 1 .. Len(w) + n
      <4>1. v[j].at = p + (j - Len(w)) /\ v[k].at = p + (k - Len(w))
        BY <1>3, <2>2, <3>2
      <4> QED BY <1>0, <2>2, <3>2, <4>1
    <3> QED BY <1>p, <3>1, <3>2
  <2> QED BY <1>p, <2>1, <2>2
<1>5. CellsIn(v, id) \subseteq 1 .. p + n
  <2> SUFFICES ASSUME NEW k \in PlacesIn(v, id) PROVE v[k].at \in 1 .. p + n
    BY DEF CellsIn
  <2>1. CASE k \in PlacesIn(w, id)
    <3>1. v[k].at \in 1 .. p
      BY <1>2, <2>1
    <3> QED BY <3>1, <1>n
  <2>2. CASE k \in Len(w) + 1 .. Len(w) + n
    <3>1. v[k].at = p + (k - Len(w))
      BY <1>3, <2>2
    <3> QED BY <1>0, <2>2, <3>1
  <2> QED BY <1>p, <2>1, <2>2
<1>6. ASSUME NEW a \in 1 .. p + n PROVE a \in CellsIn(v, id)
  <2>1. CASE a \in 1 .. p
    <3>1. PICK k \in PlacesIn(w, id) : a = w[k].at
      BY <2>1 DEF CellsIn
    <3>2. k \in PlacesIn(v, id) /\ v[k].at = a
      BY <1>1, <1>2, <3>1
    <3> QED BY <3>2 DEF CellsIn
  <2>2. CASE a \notin 1 .. p
    <3> DEFINE k == Len(w) + (a - p)
    <3>1. k \in Len(w) + 1 .. Len(w) + n /\ p + (k - Len(w)) = a
      BY <1>0, <2>2
    <3> HIDE DEF k
    <3>2. k \in PlacesIn(v, id) /\ v[k].at = a
      BY <1>1, <1>3, <3>1
    <3> QED BY <3>2 DEF CellsIn
  <2> QED BY <2>1, <2>2
<1> QED BY <1>4, <1>5, <1>6

\* What LineExact says of line n.
LineIs(n) ==
    /\ InOrder(stdout, n)
    /\ \E m \in 0 .. Len(stdout) : CellsIn(stdout, n) = 1 .. m
    /\ \A c \in busy : line[c].id = n =>
          CellsIn(stdout, n) = 1 .. line[c].len + 1 - remaining[c]
    /\ \A c \in Callers : line[c].id = n /\ results[n] = "OK" =>
          CellsIn(stdout, n) = 1 .. line[c].len + 1

(* LineExact, line by line, before and after a step. *)
LEMMA LineByLine ==
    /\ LineExact <=> \A n \in 1 .. lines : LineIs(n)
    /\ LineExact' <=> \A n \in 1 .. lines' : LineIs(n)'
BY DEF LineExact, Console!LineExact, LineIs, InOrder, CellsIn, PlacesIn, Console!PlacesOf,
       Console!Written

(* Every cell on standard output is of a line there has been. *)
LEMMA LinesOnOutput ==
    ASSUME ConsoleTypes, LineOwners
    PROVE  \A k \in 1 .. Len(stdout) : stdout[k].line \in Nat /\ stdout[k].line <= lines
<1>1. \A k \in 1 .. Len(stdout) : stdout[k] \in Cell
  BY ElementOfSeq DEF ConsoleTypes
<1>2. \A x \in Cell : x.line \in Nat
  BY DEF Cell
<1> QED BY <1>1, <1>2 DEF LineOwners

\* One writev of c takes n cells of its line, b.
Writes(c, n, b) ==
    /\ c \in busy /\ n <= remaining[c]
    /\ NextCells(b, line[c].id, offset[c], n, line[c].len + 1)
    /\ stdout' = stdout \o b
    /\ partial' = (partial \/ n < remaining[c])
    /\ UNCHANGED <<line, lines>>
    /\ \/ /\ n = remaining[c] /\ UNCHANGED <<offset, remaining>>
          /\ busy' = busy \ {c} /\ results' = [results EXCEPT ![line[c].id] = "OK"]
       \/ /\ n # remaining[c] /\ UNCHANGED <<busy, results>>
          /\ remaining' = [remaining EXCEPT ![c] = @ - n]
          /\ offset' = [offset EXCEPT ![c] = @ + n]

(* The types of what the callers of the console sink keep. *)
LEMMA CallerOfConsole ==
    ASSUME ConsoleTypes, NEW c \in Callers
    PROVE  /\ line[c].id \in Nat /\ line[c].len \in Nat /\ offset[c] \in Nat
           /\ remaining[c] \in Nat
BY DEF ConsoleTypes

(* That is what the writev loop does: what it passes is the rest of the    *)
(* line, and the offset follows what was taken.                            *)
LEMMA WritevEffect ==
    ASSUME ConsoleTypes, LineOwners, NEW c \in Callers, Console!Writev(c)
    PROVE  \E n \in Nat \ {0} : \E b : Writes(c, n, b)
<1> DEFINE of == line[c].len + 1
           o == offset[c]
           C == Console!Cells(c)
           V == SubSeq(C, o + 1, of)
<1>1. c \in busy /\ UNCHANGED <<line, lines>>
  BY DEF Console!Writev
<1>2. /\ line[c].id \in Nat /\ of \in Nat /\ o \in Nat /\ remaining[c] \in Nat
      /\ remaining[c] # 0 /\ o + remaining[c] = of /\ line[c].len \in Nat
  BY <1>1, CallerOfConsole DEF LineOwners
<1>3. PICK n \in 1 .. Len(V) :
         /\ partial' = (partial \/ n < Len(V))
         /\ stdout' = stdout \o SubSeq(V, 1, n)
         /\ IF n >= remaining[c]
            THEN /\ busy' = busy \ {c} /\ results' = [results EXCEPT ![line[c].id] = "OK"]
                 /\ UNCHANGED <<offset, remaining>>
            ELSE /\ remaining' = [remaining EXCEPT ![c] = @ - n]
                 /\ offset' = [offset EXCEPT ![c] = @ + Console!PayloadTaken(c, n)]
                 /\ UNCHANGED <<busy, results>>
  BY DEF Console!Writev, Console!Vectors, Console!Finished, Console!Returns
<1>4. /\ C \in Seq(Cell) /\ Len(C) = of
      /\ \A k \in 1 .. of : C[k] = [line |-> line[c].id, at |-> k, of |-> of]
  <2>1. C = [k \in 1 .. of |-> [line |-> line[c].id, at |-> k, of |-> of]]
    BY DEF Console!Cells
  <2>2. \A k \in 1 .. of : [line |-> line[c].id, at |-> k, of |-> of] \in Cell
    BY <1>2 DEF Cell
  <2> HIDE DEF C, of
  <2>3. C \in [1 .. of -> Cell]
    BY <2>1, <2>2
  <2> QED BY <1>2, <2>1, <2>3, LenProperties
<1> HIDE DEF C, of, o
<1>5. /\ V \in Seq(Cell) /\ Len(V) = remaining[c]
      /\ \A i \in 1 .. remaining[c] : V[i] = C[o + i]
  <2>1. o + 1 \in 1 .. Len(C) /\ of \in o + 1 .. Len(C)
    BY <1>2, <1>4
  <2>2. /\ V \in Seq(Cell) /\ Len(V) = of - (o + 1) + 1
        /\ \A i \in 1 .. of - (o + 1) + 1 : V[i] = C[(o + 1) + i - 1]
    BY <1>4, <2>1, SubSeqProperties
  <2>3. of - (o + 1) + 1 = remaining[c] /\ \A i \in Nat : (o + 1) + i - 1 = o + i
    BY <1>2
  <2> HIDE DEF V
  <2> QED BY <2>2, <2>3
<1> HIDE DEF V
<1>6. n \in Nat \ {0} /\ n <= remaining[c] /\ n \in 1 .. Len(V)
  BY <1>2, <1>5
<1>7. NextCells(SubSeq(V, 1, n), line[c].id, o, n, of)
  <2>1. /\ SubSeq(V, 1, n) \in Seq(Cell) /\ Len(SubSeq(V, 1, n)) = n - 1 + 1
        /\ \A i \in 1 .. n - 1 + 1 : SubSeq(V, 1, n)[i] = V[1 + i - 1]
    <3>1. 1 \in 1 .. Len(V) /\ n \in 1 .. Len(V)
      BY <1>6
    <3> QED BY <1>5, <3>1, SubSeqProperties
  <2>2. n - 1 + 1 = n /\ \A i \in 1 .. n : 1 + i - 1 = i /\ i \in 1 .. remaining[c]
    BY <1>2, <1>6
  <2>3. \A i \in 1 .. n : SubSeq(V, 1, n)[i] = C[o + i]
    BY <1>5, <2>1, <2>2
  <2>4. \A i \in 1 .. n : o + i \in 1 .. of
    BY <1>2, <1>6
  <2>5. \A i \in 1 .. n : SubSeq(V, 1, n)[i] = [line |-> line[c].id, at |-> o + i, of |-> of]
    BY <1>4, <2>3, <2>4
  <2> QED BY <2>1, <2>2, <2>5 DEF NextCells
<1>8. CASE n = remaining[c]
  <2>1. n >= remaining[c]
    BY <1>2, <1>8
  <2> QED BY <1>1, <1>3, <1>5, <1>6, <1>7, <1>8, <2>1 DEF Writes, o, of
<1>9. CASE n # remaining[c]
  <2>1. ~(n >= remaining[c])
    BY <1>2, <1>6, <1>9
  <2>2. Console!PayloadTaken(c, n) = n
    <3>1. ~(n > line[c].len - offset[c])
      <4>1. \A x, y, z, k \in Nat : y + z = x + 1 /\ k <= z /\ k # z => ~(k > x - y)
        OBVIOUS
      <4>2. offset[c] + remaining[c] = line[c].len + 1 /\ offset[c] \in Nat
        BY <1>2 DEF of, o
      <4> QED BY <1>2, <1>6, <1>9, <4>1, <4>2
    <3> QED BY <3>1 DEF Console!PayloadTaken
  <2>3. offset' = [offset EXCEPT ![c] = @ + n]
    BY <1>3, <2>1, <2>2
  <2> QED BY <1>1, <1>3, <1>5, <1>6, <1>7, <1>9, <2>1, <2>3 DEF Writes, o, of
<1> QED BY <1>8, <1>9

(* A new line has a number no line had, and nothing of it is written. *)
LEMMA ConsoleWriteStep ==
    ASSUME ConsoleInv, NEW c \in Callers, NEW len \in LineLengths, Console!Write(c, len)
    PROVE  ConsoleInv'
<1>0. len \in Nat
  BY LogPathConstants
<1>t. /\ lines \in Nat /\ busy \subseteq Callers /\ partial \in BOOLEAN
      /\ line \in [Callers -> [id : Nat, len : Nat]]
      /\ offset \in [Callers -> Nat] /\ remaining \in [Callers -> Nat]
      /\ stdout \in Seq(Cell) /\ results \in Seq(Statuses) /\ Len(results) = lines
  BY DEF ConsoleInv, ConsoleTypes
<1>i. ConsoleTypes /\ LineOwners /\ WholeLines /\ LinesApart /\ \A n \in 1 .. lines : LineIs(n)
  BY LineByLine DEF ConsoleInv
<1>1. /\ c \notin busy /\ busy' = busy \cup {c} /\ lines' = lines + 1
      /\ line' = [line EXCEPT ![c] = [id |-> lines + 1, len |-> len]]
      /\ offset' = [offset EXCEPT ![c] = 0]
      /\ remaining' = [remaining EXCEPT ![c] = len + 1]
      /\ results' = Append(results, "none")
      /\ UNCHANGED <<stdout, partial>>
  BY DEF Console!Write
<1>2. /\ line'[c].id = lines + 1 /\ line'[c].len = len /\ offset'[c] = 0
      /\ remaining'[c] = len + 1
      /\ \A d \in Callers : d # c => /\ line'[d] = line[d] /\ offset'[d] = offset[d]
                                     /\ remaining'[d] = remaining[d]
  BY <1>t, <1>1
<1>3. /\ results' \in Seq(Statuses) /\ Len(results') = lines + 1
      /\ results'[lines + 1] = "none" /\ \A n \in 1 .. lines : results'[n] = results[n]
  BY <1>t, <1>1, AppendProperties DEF Statuses
<1>4. ConsoleTypes'
  <2>1. [id |-> lines + 1, len |-> len] \in [id : Nat, len : Nat]
    BY <1>0, <1>t
  <2> QED BY <1>0, <1>t, <1>1, <1>3, <2>1 DEF ConsoleTypes
<1>5. LineOwners'
  <2>1. \A k \in 1 .. Len(stdout') : stdout'[k].line <= lines'
    <3>1. \A k \in 1 .. Len(stdout) : stdout[k].line \in Nat /\ stdout[k].line <= lines
      BY <1>i, LinesOnOutput
    <3>2. \A x \in Nat : x <= lines => x <= lines + 1
      BY <1>t
    <3> QED BY <1>1, <3>1, <3>2
  <2>2. \A d \in Callers : line[d].id \in Nat /\ line[d].id <= lines
    BY <1>i, <1>t DEF LineOwners
  <2>3. \A d \in Callers : line'[d].id <= lines'
    BY <1>t, <1>1, <1>2, <2>2
  <2>4. \A d, e \in Callers : line'[d].id = line'[e].id /\ line'[d].id # 0 => d = e
    <3>1. \A d \in Callers : d # c => line'[d].id # line'[c].id
      <4>1. \A x \in Nat : x <= lines => x # lines + 1
        BY <1>t
      <4> QED BY <1>2, <2>2, <4>1
    <3> QED BY <1>i, <1>2, <3>1 DEF LineOwners
  <2>5. \A d \in busy' : /\ line'[d].id # 0 /\ results'[line'[d].id] = "none"
                         /\ remaining'[d] # 0 /\ offset'[d] + remaining'[d] = line'[d].len + 1
    <3> SUFFICES ASSUME NEW d \in busy'
                 PROVE  /\ line'[d].id # 0 /\ results'[line'[d].id] = "none"
                        /\ remaining'[d] # 0 /\ offset'[d] + remaining'[d] = line'[d].len + 1
      OBVIOUS
    <3>1. CASE d = c
      BY <1>0, <1>t, <1>2, <1>3, <3>1
    <3>2. CASE d # c
      <4>1. d \in busy /\ d \in Callers
        BY <1>t, <1>1, <3>2
      <4>2. line[d].id \in 1 .. lines
        BY <1>i, <1>t, <2>2, <4>1 DEF LineOwners
      <4> QED BY <1>i, <1>2, <1>3, <3>2, <4>1, <4>2 DEF LineOwners
    <3> QED BY <3>1, <3>2
  <2> QED BY <2>1, <2>3, <2>4, <2>5 DEF LineOwners
<1>s. \A n : /\ PlacesIn(stdout, n)' = PlacesIn(stdout, n)
             /\ CellsIn(stdout, n)' = CellsIn(stdout, n)
             /\ (InOrder(stdout, n)' <=> InOrder(stdout, n)) /\ Len(stdout)' = Len(stdout)
  BY <1>1 DEF CellsIn, PlacesIn, InOrder
<1>6. \A n \in 1 .. lines' : LineIs(n)'
  <2>1. ASSUME NEW n \in 1 .. lines PROVE LineIs(n)'
    <3>1. LineIs(n) /\ results'[n] = results[n] /\ n # lines + 1
      BY <1>i, <1>t, <1>3
    <3>3. \A d \in busy' : line'[d].id = n => d \in busy /\ line'[d] = line[d]
                                              /\ remaining'[d] = remaining[d]
      BY <1>t, <1>1, <1>2, <3>1
    <3>4. \A d \in Callers : line'[d].id = n => line'[d] = line[d]
      BY <1>2, <3>1
    <3> QED BY <1>s, <3>1, <3>3, <3>4 DEF LineIs
  <2>2. ASSUME NEW n, n = lines + 1 PROVE LineIs(n)'
    <3>1. PlacesIn(stdout, n) = {}
      <4>1. \A k \in 1 .. Len(stdout) : stdout[k].line # n
        BY <1>i, <1>t, <2>2, LinesOnOutput
      <4> QED BY <4>1 DEF PlacesIn
    <3>2. CellsIn(stdout, n) = {} /\ InOrder(stdout, n)
      BY <3>1 DEF CellsIn, InOrder
    <3>3. \A d \in Callers : line'[d].id = n => d = c
      <4>1. \A d \in Callers : line[d].id \in Nat /\ line[d].id <= lines
        BY <1>i, <1>t DEF LineOwners
      <4>2. \A x \in Nat : x <= lines => x # lines + 1
        BY <1>t
      <4> QED BY <1>2, <2>2, <4>1, <4>2
    <3>4. {} = 1 .. 0 /\ {} = 1 .. len + 1 - (len + 1) /\ 0 \in 0 .. Len(stdout)
      <4>1. Len(stdout) \in Nat
        BY <1>t, LenProperties
      <4> QED BY <1>0, <4>1
    <3>5. busy' \subseteq Callers
      BY <1>t, <1>1
    <3>6. \A d \in busy' : line'[d].id = n =>
             CellsIn(stdout, n) = 1 .. line'[d].len + 1 - remaining'[d]
      BY <1>2, <3>2, <3>3, <3>4, <3>5
    <3>7. \E m \in 0 .. Len(stdout) : CellsIn(stdout, n) = 1 .. m
      BY <3>2, <3>4
    <3>8. results'[n] # "OK"
      BY <1>3, <2>2
    <3> QED BY <1>s, <3>2, <3>6, <3>7, <3>8 DEF LineIs
  <2>3. \A n \in 1 .. lines' : n \in 1 .. lines \/ n = lines + 1
    BY <1>t, <1>1
  <2> QED BY <2>1, <2>2, <2>3
<1>7. WholeLines'
  BY <1>t, <1>i, <1>1, <1>2 DEF WholeLines
<1>8. LinesApart'
  BY <1>i, <1>1 DEF LinesApart, Console!LinesApart
<1>9. LineExact'
  BY <1>6, LineByLine
<1> QED BY <1>4, <1>5, <1>7, <1>8, <1>9 DEF ConsoleInv

\* The results with s for line i.
Result(r, i, s) ==
    /\ r \in Seq(Statuses) /\ Len(r) = lines /\ r[i] = s
    /\ \A n \in 1 .. lines : n # i => r[n] = results[n]

(* The write of line i returns. *)
LEMMA ResultIs ==
    ASSUME ConsoleTypes, NEW i \in 1 .. lines, NEW s \in Statuses, NEW r,
           r = [results EXCEPT ![i] = s]
    PROVE  Result(r, i, s)
<1>1. results \in Seq(Statuses) /\ Len(results) = lines /\ i \in 1 .. Len(results)
  BY DEF ConsoleTypes
<1> QED BY <1>1, ExceptSeq DEF Result

(* A writev that fails ends its call and writes nothing. *)
LEMMA ConsoleFailStep ==
    ASSUME ConsoleInv, NEW c \in Callers, Console!WritevFails(c)
    PROVE  ConsoleInv'
<1>t. /\ lines \in Nat /\ busy \subseteq Callers /\ partial \in BOOLEAN
      /\ line \in [Callers -> [id : Nat, len : Nat]]
      /\ offset \in [Callers -> Nat] /\ remaining \in [Callers -> Nat]
      /\ stdout \in Seq(Cell) /\ results \in Seq(Statuses) /\ Len(results) = lines
  BY DEF ConsoleInv, ConsoleTypes
<1>i. ConsoleTypes /\ LineOwners /\ WholeLines /\ LinesApart /\ \A n \in 1 .. lines : LineIs(n)
  BY LineByLine DEF ConsoleInv
<1>1. /\ c \in busy /\ busy' = busy \ {c}
      /\ results' = [results EXCEPT ![line[c].id] = "SINK_ERROR"]
      /\ UNCHANGED <<line, offset, remaining, lines, stdout, partial>>
  BY DEF Console!WritevFails, Console!Returns
<1>2. \A d \in busy : line[d].id \in 1 .. lines /\ (d # c => line[d].id # line[c].id)
  BY <1>t, <1>i, <1>1 DEF LineOwners
<1>3. /\ results' \in Seq(Statuses) /\ Len(results') = lines
      /\ results'[line[c].id] = "SINK_ERROR"
      /\ \A n \in 1 .. lines : n # line[c].id => results'[n] = results[n]
  <2>1. "SINK_ERROR" \in Statuses /\ line[c].id \in 1 .. lines
    BY <1>1, <1>2 DEF Statuses
  <2>2. \A r : r = [results EXCEPT ![line[c].id] = "SINK_ERROR"] =>
                 Result(r, line[c].id, "SINK_ERROR")
    BY <1>i, <2>1, ResultIs, Zenon
  <2> QED BY <1>1, <2>2 DEF Result
<1>4. ConsoleTypes'
  BY <1>t, <1>1, <1>3 DEF ConsoleTypes
<1>5. LineOwners'
  <2>1. \A d \in busy' : d \in busy /\ d # c /\ results'[line[d].id] = results[line[d].id]
    BY <1>1, <1>2, <1>3
  <2> QED BY <1>i, <1>1, <2>1 DEF LineOwners
<1>s. \A n : /\ PlacesIn(stdout, n)' = PlacesIn(stdout, n)
             /\ CellsIn(stdout, n)' = CellsIn(stdout, n)
             /\ (InOrder(stdout, n)' <=> InOrder(stdout, n)) /\ Len(stdout)' = Len(stdout)
  BY <1>1 DEF CellsIn, PlacesIn, InOrder
<1>6. ASSUME NEW n \in 1 .. lines PROVE LineIs(n)'
  <2>1. results'[n] = "OK" => results[n] = "OK"
    BY <1>3
  <2>2. \A d \in busy' : d \in busy
    BY <1>1
  <2> QED BY <1>i, <1>1, <1>s, <2>1, <2>2 DEF LineIs
<1>7. WholeLines'
  BY <1>i, <1>1 DEF WholeLines
<1>8. LinesApart'
  BY <1>i, <1>1 DEF LinesApart, Console!LinesApart
<1>9. LineExact'
  BY <1>1, <1>6, LineByLine
<1> QED BY <1>4, <1>5, <1>7, <1>8, <1>9 DEF ConsoleInv

(* A writev adds the next cells of its line and of no other. *)
LEMMA ConsoleWritevStep ==
    ASSUME ConsoleInv, NEW c \in Callers, NEW n \in Nat \ {0}, NEW b, Writes(c, n, b)
    PROVE  ConsoleInv'
<1> DEFINE id == line[c].id
           of == line[c].len + 1
           p == offset[c]
<1>t. /\ lines \in Nat /\ busy \subseteq Callers /\ partial \in BOOLEAN
      /\ line \in [Callers -> [id : Nat, len : Nat]]
      /\ offset \in [Callers -> Nat] /\ remaining \in [Callers -> Nat]
      /\ stdout \in Seq(Cell) /\ results \in Seq(Statuses) /\ Len(results) = lines
  BY DEF ConsoleInv, ConsoleTypes
<1>i. ConsoleTypes /\ LineOwners /\ WholeLines /\ LinesApart /\ \A k \in 1 .. lines : LineIs(k)
  BY LineByLine DEF ConsoleInv
<1>1. /\ c \in busy /\ n <= remaining[c] /\ NextCells(b, id, p, n, of)
      /\ stdout' = stdout \o b /\ partial' = (partial \/ n < remaining[c])
      /\ UNCHANGED <<line, lines>>
      /\ \/ /\ n = remaining[c] /\ UNCHANGED <<offset, remaining>>
            /\ busy' = busy \ {c} /\ results' = [results EXCEPT ![id] = "OK"]
         \/ /\ n # remaining[c] /\ UNCHANGED <<busy, results>>
            /\ remaining' = [remaining EXCEPT ![c] = @ - n]
            /\ offset' = [offset EXCEPT ![c] = @ + n]
  BY DEF Writes
<1>2. /\ id \in 1 .. lines /\ of \in Nat /\ p \in Nat /\ remaining[c] \in Nat
      /\ remaining[c] # 0 /\ p + remaining[c] = of /\ results[id] = "none"
  BY <1>t, <1>i, <1>1 DEF LineOwners
<1>3. /\ \A d \in busy : line[d].id \in 1 .. lines
      /\ \A d \in Callers : d # c => line[d].id # id
  <2>1. id # 0
    BY <1>2
  <2> QED BY <1>t, <1>i, <1>1, <2>1 DEF LineOwners
<1> HIDE DEF id, of, p
<1>j. Joined(stdout, stdout', id, p, n, of)
  <2>1. id \in Nat /\ p \in Nat /\ n \in Nat
    BY <1>2
  <2>2. \A v : v = stdout \o b => Joined(stdout, v, id, p, n, of)
    BY <1>t, <1>1, <2>1, OtherLines, Zenon
  <2> QED BY <1>1, <2>2
<1>k. /\ stdout' \in Seq(Cell) /\ Len(stdout') = Len(stdout) + n
      /\ \A k \in 1 .. Len(stdout) : stdout'[k] = stdout[k]
      /\ \A i \in 1 .. n : stdout'[Len(stdout) + i] = [line |-> id, at |-> p + i, of |-> of]
  BY <1>j DEF Joined
<1>l. Len(stdout) \in Nat
  BY <1>t, LenProperties
<1>r. /\ n = remaining[c] => /\ results' \in Seq(Statuses) /\ Len(results') = lines
                             /\ results'[id] = "OK"
                             /\ \A k \in 1 .. lines : k # id => results'[k] = results[k]
      /\ n # remaining[c] => results' = results
  <2>1. \A r : r = [results EXCEPT ![id] = "OK"] => Result(r, id, "OK")
    <3>1. "OK" \in Statuses
      BY DEF Statuses
    <3> QED BY <1>i, <1>2, <3>1, ResultIs, Zenon
  <2> QED BY <1>1, <2>1 DEF Result
<1>4. ConsoleTypes'
  <2>1. results' \in Seq(Statuses) /\ Len(results') = lines
    BY <1>t, <1>r
  <2>2. offset' \in [Callers -> Nat] /\ remaining' \in [Callers -> Nat] /\ busy' \subseteq Callers
    <3>1. n # remaining[c] => remaining[c] - n \in Nat /\ offset[c] + n \in Nat
      BY <1>1, <1>2 DEF p
    <3> QED BY <1>t, <1>1, <3>1
  <2>3. partial' \in BOOLEAN
    BY <1>1
  <2> QED BY <1>t, <1>1, <1>k, <2>1, <2>2, <2>3 DEF ConsoleTypes
<1>5. LineOwners'
  <2>1. \A k \in 1 .. Len(stdout') : stdout'[k].line <= lines'
    <3> SUFFICES ASSUME NEW k \in 1 .. Len(stdout') PROVE stdout'[k].line <= lines
      BY <1>1
    <3>1. CASE k \in 1 .. Len(stdout)
      BY <1>i, <1>k, <3>1 DEF LineOwners
    <3>2. CASE k \notin 1 .. Len(stdout)
      <4>1. k - Len(stdout) \in 1 .. n /\ Len(stdout) + (k - Len(stdout)) = k
        BY <1>k, <1>l, <3>2
      <4>2. stdout'[k] = [line |-> id, at |-> p + (k - Len(stdout)), of |-> of]
        BY <1>k, <4>1
      <4>3. stdout'[k].line = id
        BY <4>2
      <4> QED BY <1>2, <1>t, <4>3
    <3> QED BY <3>1, <3>2
  <2>2. \A d \in busy' : /\ line'[d].id # 0 /\ results'[line'[d].id] = "none"
                         /\ remaining'[d] # 0 /\ offset'[d] + remaining'[d] = line'[d].len + 1
    <3> SUFFICES ASSUME NEW d \in busy'
                 PROVE  /\ line[d].id # 0 /\ results'[line[d].id] = "none"
                        /\ remaining'[d] # 0 /\ offset'[d] + remaining'[d] = line[d].len + 1
      BY <1>1
    <3>1. d \in busy /\ d \in Callers /\ (d = c => n # remaining[c])
      BY <1>t, <1>1
    <3>2. CASE d = c
      <4>1. /\ remaining'[d] = remaining[c] - n /\ offset'[d] = p + n
            /\ results' = results /\ line[d].id = id /\ line[d].len + 1 = of
        BY <1>t, <1>1, <1>r, <3>1, <3>2 DEF p, id, of
      <4>2. remaining[c] - n # 0 /\ (p + n) + (remaining[c] - n) = of
        BY <1>1, <1>2, <3>1, <3>2
      <4> QED BY <1>2, <4>1, <4>2
    <3>3. CASE d # c
      <4>1. remaining'[d] = remaining[d] /\ offset'[d] = offset[d]
        BY <1>t, <1>1, <3>1, <3>3
      <4>2. line[d].id # id /\ line[d].id \in 1 .. lines
        BY <1>3, <3>1, <3>3
      <4>3. results'[line[d].id] = results[line[d].id]
        BY <1>r, <4>2
      <4> QED BY <1>i, <3>1, <4>1, <4>3 DEF LineOwners
    <3> QED BY <3>2, <3>3
  <2> QED BY <1>i, <1>1, <2>1, <2>2 DEF LineOwners
<1>s. \A k : /\ CellsIn(stdout, k)' = CellsIn(stdout', k)
             /\ (InOrder(stdout, k)' <=> InOrder(stdout', k)) /\ Len(stdout)' = Len(stdout')
  BY DEF CellsIn, PlacesIn, InOrder
<1>6. ASSUME NEW k \in 1 .. lines PROVE LineIs(k)'
  <2>0. LineIs(k)
    BY <1>i
  <2>1. CASE k = id
    <3>1. CellsIn(stdout, id) = 1 .. p /\ InOrder(stdout, id)
      <4>1. CellsIn(stdout, id) = 1 .. line[c].len + 1 - remaining[c]
        BY <1>1, <2>0, <2>1 DEF LineIs, id
      <4>2. line[c].len + 1 - remaining[c] = p
        <5>1. line[c].len \in Nat /\ p + remaining[c] = line[c].len + 1
          BY <1>t, <1>2 DEF of
        <5> QED BY <1>2, <5>1
      <4> QED BY <2>0, <2>1, <4>1, <4>2 DEF LineIs
    <3>2. \A v : v = stdout \o b => CellsIn(v, id) = 1 .. p + n /\ InOrder(v, id)
      <4>1. id \in Nat /\ p \in Nat /\ n \in Nat
        BY <1>2
      <4> QED BY <1>t, <1>1, <3>1, <4>1, OwnLine, Zenon
    <3>3. CellsIn(stdout', id) = 1 .. p + n /\ InOrder(stdout', id)
      BY <1>1, <3>2
    <3>4. p + n \in 0 .. Len(stdout')
      <4>1. PICK m \in 0 .. Len(stdout) : CellsIn(stdout, id) = 1 .. m
        BY <2>0, <2>1 DEF LineIs
      <4>2. p = m
        <5>1. \A x, y \in Nat : 1 .. x = 1 .. y => x = y
          OBVIOUS
        <5> QED BY <1>2, <1>l, <3>1, <4>1, <5>1
      <4> QED BY <1>k, <1>l, <4>1, <4>2
    <3>5. \A d \in Callers : line'[d].id = id => d = c
      BY <1>1, <1>3
    <3>6. \A d \in busy' : line'[d].id = id => p + n = line'[d].len + 1 - remaining'[d]
      <4> SUFFICES ASSUME c \in busy' PROVE p + n = line'[c].len + 1 - remaining'[c]
        BY <3>5, <1>4 DEF ConsoleTypes
      <4>1. remaining'[c] = remaining[c] - n /\ line'[c] = line[c]
        BY <1>t, <1>1
      <4>2. line[c].len \in Nat /\ p + remaining[c] = line[c].len + 1
        BY <1>t, <1>2 DEF of
      <4>3. \A x, y, z, m \in Nat : x + y = z + 1 => x + m = z + 1 - (y - m)
        OBVIOUS
      <4>4. p + n = line[c].len + 1 - (remaining[c] - n)
        BY <1>2, <4>2, <4>3
      <4> QED BY <4>1, <4>4
    <3>7. results'[id] = "OK" => p + n = of
      BY <1>2, <1>r
    <3>8. line'[c].len + 1 = of
      BY <1>1 DEF of
    <3> QED BY <1>s, <2>1, <3>3, <3>4, <3>5, <3>6, <3>7, <3>8 DEF LineIs
  <2>2. CASE k # id
    <3>1. /\ CellsIn(stdout', k) = CellsIn(stdout, k)
          /\ (InOrder(stdout, k) => InOrder(stdout', k))
      BY <1>j, <2>2 DEF Joined
    <3>2. results'[k] = results[k]
      BY <1>r, <2>2
    <3>3. \A d \in busy' : line'[d].id = k => /\ d \in busy /\ line'[d] = line[d]
                                              /\ remaining'[d] = remaining[d]
      BY <1>t, <1>1, <2>2 DEF id
    <3>4. \A m \in 0 .. Len(stdout) : m \in 0 .. Len(stdout')
      BY <1>k, <1>l
    <3> QED BY <1>1, <1>s, <2>0, <3>1, <3>2, <3>3, <3>4 DEF LineIs
  <2> QED BY <2>1, <2>2
<1>9. LineExact'
  BY <1>1, <1>6, LineByLine
<1>7. ~partial' => ~partial /\ n = remaining[c] /\ p = 0 /\ n = of
  <2> SUFFICES ASSUME ~partial' PROVE ~partial /\ n = remaining[c] /\ p = 0 /\ n = of
    OBVIOUS
  <2>1. ~partial /\ ~(n < remaining[c])
    BY <1>1
  <2>2. p = 0
    BY <1>1, <1>i, <2>1 DEF WholeLines, p
  <2>3. \A x, y \in Nat : x <= y /\ ~(x < y) => x = y
    OBVIOUS
  <2>4. n = remaining[c]
    BY <1>1, <1>2, <2>1, <2>3
  <2> QED BY <1>2, <2>1, <2>2, <2>4
<1>w. stdout' # << >> /\ stdout'[Len(stdout')] = [line |-> id, at |-> p + n, of |-> of]
  <2>1. n \in 1 .. n /\ Len(stdout') # 0
    BY <1>k, <1>l
  <2> QED BY <1>k, <2>1
<1>8. WholeLines'
  <2> SUFFICES ASSUME ~partial'
               PROVE  /\ \A d \in busy' : offset'[d] = 0
                      /\ stdout'[Len(stdout')].at = stdout'[Len(stdout')].of
    BY DEF WholeLines
  <2>1. p + n = of
    BY <1>2, <1>7
  <2> QED BY <1>i, <1>1, <1>7, <1>w, <2>1 DEF WholeLines
<1>10. LinesApart'
  <2> SUFFICES ASSUME ~partial', NEW k \in 1 .. Len(stdout') - 1
               PROVE  \/ stdout'[k].line = stdout'[k + 1].line
                      \/ stdout'[k].at = stdout'[k].of /\ stdout'[k + 1].at = 1
    BY DEF LinesApart, Console!LinesApart
  <2>1. CASE k < Len(stdout)
    <3>1. k \in 1 .. Len(stdout) - 1 /\ k \in 1 .. Len(stdout) /\ k + 1 \in 1 .. Len(stdout)
      BY <1>l, <2>1
    <3> QED BY <1>i, <1>k, <1>7, <3>1 DEF LinesApart, Console!LinesApart
  <2>2. CASE k = Len(stdout)
    <3>1. k \in 1 .. Len(stdout) /\ stdout # << >> /\ 1 \in 1 .. n
      BY <1>l, <2>2
    <3>2. stdout'[k] = stdout[Len(stdout)] /\ stdout[Len(stdout)].at = stdout[Len(stdout)].of
      BY <1>i, <1>k, <1>7, <2>2, <3>1 DEF WholeLines
    <3>3. stdout'[k + 1] = [line |-> id, at |-> p + 1, of |-> of] /\ p + 1 = 1
      BY <1>k, <1>7, <2>2, <3>1
    <3> QED BY <3>2, <3>3
  <2>3. CASE k > Len(stdout)
    <3>1. PICK j \in 1 .. n - 1 : k = Len(stdout) + j
      <4>1. k - Len(stdout) \in 1 .. n - 1 /\ k = Len(stdout) + (k - Len(stdout))
        BY <1>k, <1>l, <2>3
      <4> QED BY <4>1
    <3>2. j \in 1 .. n /\ j + 1 \in 1 .. n /\ k + 1 = Len(stdout) + (j + 1)
      BY <1>l, <3>1
    <3>3. /\ stdout'[k] = [line |-> id, at |-> p + j, of |-> of]
          /\ stdout'[k + 1] = [line |-> id, at |-> p + (j + 1), of |-> of]
      BY <1>k, <3>1, <3>2
    <3> QED BY <3>3
  <2> QED BY <1>l, <2>1, <2>2, <2>3
<1> QED BY <1>4, <1>5, <1>8, <1>9, <1>10 DEF ConsoleInv

(* The inductive invariant of the console sink. *)
THEOREM ConsoleInvariant == PathSpec => []ConsoleInv
<1>1. PathInit => ConsoleInv
  <2> SUFFICES ASSUME PathInit PROVE ConsoleInv
    OBVIOUS
  <2>1. /\ busy = {} /\ lines = 0 /\ line = [c \in Callers |-> [id |-> 0, len |-> 0]]
        /\ offset = [c \in Callers |-> 0] /\ remaining = [c \in Callers |-> 0]
        /\ stdout = << >> /\ results = << >> /\ partial = FALSE
    BY DEF PathInit, Console!Init
  <2>2. ConsoleTypes
    <3>1. << >> \in Seq(Cell) /\ << >> \in Seq(Statuses) /\ Len(<< >>) = 0
      OBVIOUS
    <3>2. [id |-> 0, len |-> 0] \in [id : Nat, len : Nat]
      OBVIOUS
    <3> QED BY <2>1, <3>1, <3>2 DEF ConsoleTypes
  <2>4. LineOwners /\ WholeLines
    BY <2>1 DEF LineOwners, WholeLines
  <2>3. LineExact /\ LinesApart
    BY <2>1 DEF LineExact, Console!LineExact, LinesApart, Console!LinesApart
  <2> QED BY <2>2, <2>3, <2>4 DEF ConsoleInv
<1>2. ConsoleInv /\ [PathNext]_pathVars => ConsoleInv'
  <2> SUFFICES ASSUME ConsoleInv, [PathNext]_pathVars PROVE ConsoleInv'
    OBVIOUS
  <2>1. [Console!Next]_consoleVars
    BY PathStep
  <2>2. ASSUME NEW c \in Callers, NEW len \in LineLengths, Console!Write(c, len)
        PROVE  ConsoleInv'
    BY <2>2, ConsoleWriteStep
  <2>3. ASSUME NEW c \in Callers, Console!Writev(c) PROVE ConsoleInv'
    <3>1. PICK n \in Nat \ {0} : \E b : Writes(c, n, b)
      BY <2>3, WritevEffect DEF ConsoleInv
    <3> QED BY <3>1, ConsoleWritevStep
  <2>4. ASSUME NEW c \in Callers, Console!WritevFails(c) PROVE ConsoleInv'
    BY <2>4, ConsoleFailStep
  <2>5. CASE UNCHANGED consoleVars
    <3>1. UNCHANGED <<busy, line, offset, remaining, lines, stdout, results, partial>>
      BY <2>5 DEF consoleVars
    <3>2. ConsoleTypes' /\ LineOwners' /\ WholeLines'
      <4>1. ConsoleTypes'
        BY <3>1 DEF ConsoleInv, ConsoleTypes
      <4>2. LineOwners'
        BY <3>1 DEF ConsoleInv, LineOwners
      <4>3. WholeLines'
        BY <3>1 DEF ConsoleInv, WholeLines
      <4> QED BY <4>1, <4>2, <4>3
    <3>3. LineExact'
      <4>1. \A n : /\ CellsIn(stdout, n)' = CellsIn(stdout, n) /\ Len(stdout)' = Len(stdout)
                   /\ (InOrder(stdout, n)' <=> InOrder(stdout, n))
        BY <3>1 DEF CellsIn, PlacesIn, InOrder
      <4>2. \A n \in 1 .. lines : LineIs(n)
        BY LineByLine DEF ConsoleInv
      <4>3. \A n \in 1 .. lines' : LineIs(n)'
        BY <3>1, <4>1, <4>2 DEF LineIs
      <4> QED BY <4>3, LineByLine
    <3>4. LinesApart'
      BY <3>1 DEF ConsoleInv, LinesApart, Console!LinesApart
    <3> QED BY <3>2, <3>3, <3>4 DEF ConsoleInv
  <2> QED BY <2>1, <2>2, <2>3, <2>4, <2>5 DEF Console!Next
<1> QED BY <1>1, <1>2, PTL DEF PathSpec

(* Whatever writev takes at a time and however many threads write, the     *)
(* cells of each line reach standard output in order and once, without a   *)
(* gap, and all of them when ij_console_sink_write returned OK.            *)
THEOREM ConsoleLineExact == PathSpec => []LineExact
<1>1. ConsoleInv => LineExact
  BY DEF ConsoleInv
<1> QED BY <1>1, ConsoleInvariant, PTL

(* As long as no writev is partial, lines of concurrent callers do not mix. *)
THEOREM ConsoleLinesApart == PathSpec => []LinesApart
<1>1. ConsoleInv => LinesApart
  BY DEF ConsoleInv
<1> QED BY <1>1, ConsoleInvariant, PTL
====
