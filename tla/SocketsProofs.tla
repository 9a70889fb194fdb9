---------------------------- MODULE SocketsProofs ---------------------------
(***************************************************************************)
(* Theorems about Sockets for every number of sockets, sizes of buffers    *)
(* and messages, and modulus of the session counter.                       *)
(*                                                                         *)
(* The invariant says what the code never writes down: the identifier of a *)
(* session is its serial number around the circle of SessionMod - 1        *)
(* identifiers, in the table and in every request under way alike.         *)
(***************************************************************************)
EXTENDS Sockets, TLAPS

USE SizesAssumption, OpsAssumption

Circle == SessionMod - 1

\* The identifier of the session numbered n.
Sid(n) == ((n - 1) % Circle) + 1

Numbered == g_sessionId = IF sessions = 0 THEN 0 ELSE Sid(sessions)

SlotsNumbered ==
  \A s \in Socket :
    IF g_sockets[s].isUsed
      THEN serial[s] \in 1 .. sessions /\ g_sockets[s].sessionId = Sid(serial[s])
      ELSE serial[s] = 0 /\ g_sockets[s].sessionId = 0 /\ ~g_sockets[s].isRecvPending

\* A request names a session of its slot, the present one or an earlier one.
Genuine(r) ==
  /\ r \in Request
  /\ r.serial \in 1 .. sessions
  /\ r.sessionId = Sid(r.serial)
  /\ g_sockets[r.sock].isUsed => r.serial <= serial[r.sock]

HostTypes ==
  /\ g_sockets \in [Socket -> t_socket]
  /\ g_sessionId \in SessionId
  /\ sessions \in Serial /\ serial \in [Socket -> Serial]

HandlerTypes ==
  /\ pc \in {"superloop", "callback", "read"}
  /\ ret \in {"done", "connect", "read"}
  /\ reading \in [sock : Socket, serial : Serial, left : 0 .. MaxData, rxDone : Nat]
  /\ event \in [msg : {"none", "BIND", "LISTEN", "ACCEPT", "CONNECT", "SEND", "RECV"},
                serial : Serial, open : Serial]

\* The inductive invariant of the table and the requests.
HostInv ==
  /\ HostTypes
  /\ Numbered
  /\ SlotsNumbered
  /\ \A r \in owed : Genuine(r)

IInv == HostInv /\ HandlerTypes
-----------------------------------------------------------------------------
(* Identifiers.                                                            *)

\* Division with remainder.
LEMMA DivMod ==
  ASSUME NEW m \in Nat \ {0}, NEW x \in Nat
  PROVE  /\ x % m \in 0 .. m - 1 /\ x \div m \in Nat
         /\ x = ((x \div m) * m) + (x % m)
BY SMT

LEMMA Remainder ==
  ASSUME NEW m \in Nat \ {0}, NEW q \in Nat, NEW r \in 0 .. m - 1
  PROVE  ((q * m) + r) % m = r
BY SMT

LEMMA CircleSize == Circle \in Nat \ {0}
BY DEF Circle

\* No identifier is zero or beyond the circle.
LEMMA SidRange == ASSUME NEW n \in Nat \ {0} PROVE Sid(n) \in 1 .. Circle
<1>1. n - 1 \in Nat
  OBVIOUS
<1>2. (n - 1) % Circle \in 0 .. Circle - 1
  BY <1>1, CircleSize, DivMod
<1> QED
  BY <1>2, CircleSize DEF Sid

\* The next session's identifier follows the last one on the circle.
LEMMA SidNext ==
  ASSUME NEW n \in Nat \ {0}
  PROVE  Sid(n + 1) = IF Sid(n) = Circle THEN 1 ELSE Sid(n) + 1
<1> DEFINE q == (n - 1) \div Circle
           r == (n - 1) % Circle
<1>1. n - 1 \in Nat
  OBVIOUS
<1>2. r \in 0 .. Circle - 1 /\ q \in Nat /\ n - 1 = (q * Circle) + r
  BY <1>1, CircleSize, DivMod
<1>3. Sid(n) = r + 1 /\ Sid(n + 1) = (n % Circle) + 1
  BY DEF Sid
<1> HIDE DEF q, r
<1>4. CASE r + 1 = Circle
  <2>1. n = ((q + 1) * Circle) + 0
    BY <1>2, <1>4, CircleSize, SMT
  <2>2. n % Circle = 0
    BY <1>2, <2>1, CircleSize, Remainder
  <2> QED
    BY <1>2, <1>3, <1>4, <2>2, CircleSize
<1>5. CASE r + 1 # Circle
  <2>1. n = (q * Circle) + (r + 1) /\ r + 1 \in 0 .. Circle - 1
    BY <1>2, <1>5, CircleSize, SMT
  <2>2. n % Circle = r + 1
    BY <1>2, <2>1, CircleSize, Remainder
  <2> QED
    BY <1>2, <1>3, <1>5, <2>2, CircleSize
<1> QED
  BY <1>4, <1>5

\* Two sessions share an identifier only a whole circle apart.
LEMMA SidDistinct ==
  ASSUME NEW a \in Nat \ {0}, NEW b \in Nat \ {0}, a < b, b - a < Circle
  PROVE  Sid(a) # Sid(b)
<1> SUFFICES ASSUME Sid(a) = Sid(b) PROVE FALSE
  OBVIOUS
<1> DEFINE p == (a - 1) \div Circle
           q == (b - 1) \div Circle
           r == (a - 1) % Circle
<1>1. a - 1 \in Nat /\ b - 1 \in Nat
  OBVIOUS
<1>2. /\ p \in Nat /\ q \in Nat /\ r \in 0 .. Circle - 1
      /\ a - 1 = (p * Circle) + r /\ (b - 1) % Circle \in Nat
      /\ b - 1 = (q * Circle) + ((b - 1) % Circle)
  <2>1. /\ (a - 1) % Circle \in 0 .. Circle - 1 /\ (a - 1) \div Circle \in Nat
        /\ a - 1 = (((a - 1) \div Circle) * Circle) + ((a - 1) % Circle)
    BY <1>1, CircleSize, DivMod
  <2>2. /\ (b - 1) % Circle \in 0 .. Circle - 1 /\ (b - 1) \div Circle \in Nat
        /\ b - 1 = (((b - 1) \div Circle) * Circle) + ((b - 1) % Circle)
    BY <1>1, CircleSize, DivMod
  <2> QED
    BY <2>1, <2>2, CircleSize
<1>3. (b - 1) % Circle = r
  BY <1>2 DEF Sid
<1> HIDE DEF p, q, r
<1>4. p * Circle \in Nat /\ q * Circle \in Nat
  BY <1>2, CircleSize, SMT
<1>5. b - a = (q * Circle) - (p * Circle)
  BY <1>2, <1>3, <1>4
<1>6. CASE q <= p
  <2>1. q * Circle <= p * Circle
    BY <1>2, <1>6, CircleSize, SMT
  <2> QED
    BY <1>4, <1>5, <2>1
<1>7. CASE q >= p + 1
  <2>1. q * Circle >= (p * Circle) + Circle
    BY <1>2, <1>7, CircleSize, SMT
  <2> QED
    BY <1>4, <1>5, <2>1, CircleSize
<1> QED
  BY <1>2, <1>6, <1>7
-----------------------------------------------------------------------------
(* The table and the requests.                                             *)

\* A step that opens and closes nothing keeps the invariant, if the requests
\* it adds are genuine.
LEMMA SameSessions ==
  ASSUME HostInv, UNCHANGED <<g_sessionId, sessions, serial>>,
         g_sockets' \in [Socket -> t_socket],
         \A s \in Socket :
           /\ g_sockets'[s].isUsed = g_sockets[s].isUsed
           /\ g_sockets'[s].sessionId = g_sockets[s].sessionId
           /\ ~g_sockets[s].isUsed => ~g_sockets'[s].isRecvPending,
         \A r \in owed' : Genuine(r)
  PROVE  HostInv'
<1>1. HostTypes' /\ Numbered'
  BY DEF HostInv, HostTypes, Numbered
<1>2. SlotsNumbered'
  BY DEF HostInv, SlotsNumbered
<1>3. ASSUME NEW r \in owed' PROVE Genuine(r)'
  BY <1>3 DEF Genuine, Request
<1> QED
  BY <1>1, <1>2, <1>3 DEF HostInv

\* Neither does one that leaves the table alone.
LEMMA SameHost ==
  ASSUME HostInv, UNCHANGED host, \A r \in owed' : Genuine(r)
  PROVE  HostInv'
<1>1. UNCHANGED <<g_sockets, g_sessionId, sessions, serial>>
  BY DEF host
<1> QED
  BY <1>1, SameSessions DEF HostInv, HostTypes, SlotsNumbered

\* What SOCKET_REQUEST sends for a socket in use is genuine.
LEMMA AskGenuine ==
  ASSUME HostInv, NEW s \in Socket, g_sockets[s].isUsed,
         NEW kind \in {"bind", "listen", "connect", "send", "recv"}, Ask(kind, s)
  PROVE  \A r \in owed' : Genuine(r)
<1> DEFINE r == [kind |-> kind, sock |-> s, serial |-> serial[s],
                 sessionId |-> g_sockets[s].sessionId]
<1>1. serial[s] \in 1 .. sessions /\ g_sockets[s].sessionId = Sid(serial[s])
  BY DEF HostInv, SlotsNumbered
<1>2. g_sockets[s].sessionId \in SessionId /\ serial[s] \in Serial
  BY DEF HostInv, HostTypes, t_socket
<1>3. r \in Request
  BY <1>2 DEF Request
<1>4. Genuine(r)
  BY <1>1, <1>2, <1>3 DEF Genuine, Serial
<1>5. owed' = owed \cup {r} \/ owed' = owed
  BY DEF Ask
<1> QED
  BY <1>4, <1>5 DEF HostInv

\* Opening a free slot, by the application or for a peer.
LEMMA OpenStep ==
  ASSUME HostInv, NEW s \in Socket, ~g_sockets[s].isUsed,
         NEW info \in {Blank, g_sockets[s]}, Open(s, info), UNCHANGED owed
  PROVE  HostInv'
<1> DEFINE now == [info EXCEPT !.isUsed = TRUE, !.sessionId = NextSession]
<1>1. /\ sessions \in Nat /\ sessions < MaxSessions /\ sessions' = sessions + 1
      /\ g_sockets' = [g_sockets EXCEPT ![s] = now]
      /\ g_sessionId' = NextSession
      /\ serial' = [serial EXCEPT ![s] = sessions + 1]
      /\ g_sockets \in [Socket -> t_socket] /\ serial \in [Socket -> Serial]
      /\ g_sessionId \in SessionId
  BY DEF HostInv, HostTypes, Open, Serial
<1>2. NextSession = Sid(sessions + 1)
  <2>1. CASE sessions = 0
    <3>1. g_sessionId = 0
      BY <2>1 DEF HostInv, Numbered
    <3>2. NextSession = 1
      BY <3>1 DEF NextSession
    <3>3. (0 * Circle) + 0 = 0 /\ 0 \in 0 .. Circle - 1
      BY CircleSize
    <3>4. 0 % Circle = 0
      BY <3>3, CircleSize, Remainder
    <3> QED
      BY <2>1, <3>2, <3>4 DEF Sid
  <2>2. CASE sessions # 0
    <3>1. g_sessionId = Sid(sessions)
      BY <2>2 DEF HostInv, Numbered
    <3> QED
      BY <1>1, <2>2, <3>1, SidNext, SidRange DEF NextSession, Circle
  <2> QED
    BY <2>1, <2>2
<1>3. NextSession \in SessionId
  BY <1>1, <1>2, SidRange DEF SessionId, Circle
<1>4. /\ info \in t_socket /\ ~info.isRecvPending
  <2>1. Blank \in t_socket /\ ~Blank.isRecvPending
    BY DEF Blank, t_socket, SessionId
  <2>2. g_sockets[s] \in t_socket /\ ~g_sockets[s].isRecvPending
    BY <1>1 DEF HostInv, SlotsNumbered
  <2> QED
    BY <2>1, <2>2
<1>5. /\ now \in t_socket /\ now.isUsed /\ now.sessionId = Sid(sessions + 1)
      /\ ~now.isRecvPending
  BY <1>2, <1>3, <1>4 DEF t_socket
<1> HIDE DEF now
<1>6. g_sockets'[s] = now /\ serial'[s] = sessions + 1
  BY <1>1
<1>7. \A t \in Socket : t # s => g_sockets'[t] = g_sockets[t] /\ serial'[t] = serial[t]
  BY <1>1
<1>8. HostTypes'
  BY <1>1, <1>3, <1>5 DEF HostTypes, Serial
<1>9. Numbered'
  BY <1>1, <1>2 DEF Numbered
<1>10. SlotsNumbered'
  <2> SUFFICES ASSUME NEW t \in Socket
               PROVE IF g_sockets'[t].isUsed
                       THEN serial'[t] \in 1 .. sessions' /\ g_sockets'[t].sessionId = Sid(serial'[t])
                       ELSE serial'[t] = 0 /\ g_sockets'[t].sessionId = 0 /\ ~g_sockets'[t].isRecvPending
    BY DEF SlotsNumbered
  <2>1. CASE t = s
    BY <1>1, <1>5, <1>6, <2>1
  <2>2. CASE t # s
    BY <1>1, <1>7, <2>2 DEF HostInv, SlotsNumbered
  <2> QED
    BY <2>1, <2>2
<1>11. ASSUME NEW r \in owed' PROVE Genuine(r)'
  <2>1. Genuine(r) /\ r.sock \in Socket
    BY <1>11 DEF HostInv, Genuine, Request
  <2>2. CASE r.sock = s
    BY <1>1, <1>6, <2>1, <2>2 DEF Genuine
  <2>3. CASE r.sock # s
    BY <1>1, <1>7, <2>1, <2>3 DEF Genuine
  <2> QED
    BY <2>2, <2>3
<1> QED
  BY <1>8, <1>9, <1>10, <1>11 DEF HostInv

\* Closing a slot.
LEMMA CloseStep ==
  ASSUME HostInv, NEW s \in Socket, close(s)
  PROVE  HostInv'
<1>1. /\ g_sockets' = [g_sockets EXCEPT ![s] = Blank]
      /\ serial' = [serial EXCEPT ![s] = 0]
      /\ g_sessionId' = g_sessionId /\ sessions' = sessions
      /\ owed' \subseteq owed
      /\ g_sockets \in [Socket -> t_socket] /\ serial \in [Socket -> Serial]
  BY DEF close, OfSession, HostInv, HostTypes
<1>2. Blank \in t_socket /\ ~Blank.isUsed /\ Blank.sessionId = 0 /\ ~Blank.isRecvPending
  BY DEF Blank, t_socket, SessionId
<1>3. g_sockets'[s] = Blank /\ serial'[s] = 0
  BY <1>1
<1>4. \A t \in Socket : t # s => g_sockets'[t] = g_sockets[t] /\ serial'[t] = serial[t]
  BY <1>1
<1>5. HostTypes' /\ Numbered'
  BY <1>1, <1>2 DEF HostInv, HostTypes, Numbered, Serial
<1>6. SlotsNumbered'
  BY <1>1, <1>2, <1>3, <1>4 DEF HostInv, SlotsNumbered
<1>7. ASSUME NEW r \in owed' PROVE Genuine(r)'
  <2>1. Genuine(r) /\ r.sock \in Socket
    BY <1>1, <1>7 DEF HostInv, Genuine, Request
  <2>2. CASE r.sock = s
    BY <1>1, <1>2, <1>3, <2>1, <2>2 DEF Genuine
  <2>3. CASE r.sock # s
    BY <1>1, <1>4, <2>1, <2>3 DEF Genuine
  <2> QED
    BY <2>2, <2>3
<1> QED
  BY <1>5, <1>6, <1>7 DEF HostInv

\* What recv and a receive reply make of a slot.
LEMMA RecvSlot ==
  ASSUME HostInv, NEW s \in Socket, NEW now \in t_socket,
         now.isUsed = g_sockets[s].isUsed, now.sessionId = g_sockets[s].sessionId,
         now.isRecvPending => now.isUsed,
         g_sockets' = [g_sockets EXCEPT ![s] = now],
         UNCHANGED <<g_sessionId, sessions, serial>>, \A r \in owed' : Genuine(r)
  PROVE  HostInv'
<1>1. g_sockets \in [Socket -> t_socket]
  BY DEF HostInv, HostTypes
<1>2. g_sockets' \in [Socket -> t_socket]
  BY <1>1
<1>3. ASSUME NEW t \in Socket
      PROVE  /\ g_sockets'[t].isUsed = g_sockets[t].isUsed
             /\ g_sockets'[t].sessionId = g_sockets[t].sessionId
             /\ ~g_sockets[t].isUsed => ~g_sockets'[t].isRecvPending
  BY <1>1, <1>3 DEF HostInv, SlotsNumbered
<1> QED
  BY <1>2, <1>3, SameSessions

\* The slot after recv.
Received(s, len) == [g_sockets[s] EXCEPT !.userBufSize = len, !.isRecvPending = TRUE]

\* recv changes the buffer and the flag only.
LEMMA RecvTyped ==
  ASSUME HostInv, NEW s \in Socket, NEW len \in BufferSizes, recv(s, len)
  PROVE  /\ Received(s, len) \in t_socket
         /\ Received(s, len).isUsed = g_sockets[s].isUsed
         /\ Received(s, len).sessionId = g_sockets[s].sessionId
         /\ Received(s, len).userBufSize = len
         /\ g_sockets' = [g_sockets EXCEPT ![s] = Received(s, len)]
<1>1. g_sockets \in [Socket -> t_socket]
  BY DEF HostInv, HostTypes
<1>2. g_sockets' = [g_sockets EXCEPT ![s] = Received(s, len)]
  BY <1>1 DEF recv, Received
<1> QED
  BY <1>1, <1>2 DEF Received, t_socket

\* Every call of the application keeps the invariant.
LEMMA CallStep ==
  ASSUME HostInv, NEW op \in Ops, Call(op)
  PROVE  HostInv'
<1>1. CASE op = "socket" /\ socket
  <2>1. CASE UNCHANGED <<host, owed>>
    BY <2>1, SameHost DEF HostInv
  <2>2. ASSUME NEW slots \in {Tcp, Socket \ Tcp}, NEW s \in Free(slots), Open(s, Blank), UNCHANGED owed
        PROVE  HostInv'
    <3>1. s \in Socket /\ ~g_sockets[s].isUsed
      BY <2>2 DEF Free, Tcp, Socket
    <3> QED
      BY <2>2, <3>1, OpenStep
  <2> QED
    BY <1>1, <2>1, <2>2 DEF socket
<1>2. ASSUME NEW s \in Socket, op \in {"bind", "listen", "connect", "send"}, Plain(op, s)
      PROVE  HostInv'
  BY <1>2, AskGenuine, SameHost DEF Plain
<1>3. ASSUME NEW s \in Socket, NEW len \in BufferSizes, recv(s, len)
      PROVE  HostInv'
  <2>1. \A r \in owed' : Genuine(r)
    BY <1>3, AskGenuine DEF recv, HostInv
  <2>2. g_sockets[s].isUsed /\ UNCHANGED <<g_sessionId, sessions, serial>>
    BY <1>3 DEF recv
  <2> QED
    BY <1>3, <2>1, <2>2, RecvTyped, RecvSlot
<1>4. ASSUME NEW s \in Socket, close(s)
      PROVE  HostInv'
  BY <1>4, CloseStep
<1> QED
  BY <1>1, <1>2, <1>3, <1>4 DEF Call
\* Every reply but an accepted connection leaves the sessions as they are.
LEMMA ReplyStep ==
  ASSUME HostInv, Handler
  PROVE  HostInv'
<1>1. CASE BindReply \/ ConnectReply \/ SendReply
  BY <1>1, SameHost DEF HostInv, BindReply, ConnectReply, SendReply
<1>2. CASE ListenReply
  <2>1. PICK r \in Reply("listen") :
          /\ owed' = (owed \ {r}) \cup {[r EXCEPT !.kind = "accept"]} /\ UNCHANGED host
    BY <1>2 DEF ListenReply
  <2>2. Genuine(r)
    BY DEF Reply, HostInv
  <2> DEFINE a == [r EXCEPT !.kind = "accept"]
  <2>3. /\ a \in Request /\ a.serial = r.serial /\ a.sessionId = r.sessionId
        /\ a.sock = r.sock
    BY <2>2 DEF Genuine, Request
  <2>4. Genuine(a)
    BY <2>2, <2>3 DEF Genuine
  <2> QED
    BY <2>1, <2>4, SameHost DEF HostInv
<1>3. CASE AcceptReply
  <2>1. CASE UNCHANGED <<host, owed>>
    BY <2>1, SameHost DEF HostInv
  <2>2. ASSUME NEW c \in Free(Tcp), Open(c, g_sockets[c]), UNCHANGED owed PROVE HostInv'
    <3>1. c \in Socket /\ ~g_sockets[c].isUsed
      BY <2>2 DEF Free, Tcp, Socket
    <3> QED
      BY <2>2, <3>1, OpenStep
  <2> QED
    BY <1>3, <2>1, <2>2 DEF AcceptReply
<1>4. CASE RecvReply
  <2>1. PICK r \in Reply("recv") :
          /\ owed' = owed \ {r}
          /\ g_sockets' = [g_sockets EXCEPT ![r.sock].isRecvPending = FALSE]
          /\ UNCHANGED <<g_sessionId, sessions, serial>>
    BY <1>4 DEF RecvReply
  <2>2. r.sock \in Socket /\ g_sockets \in [Socket -> t_socket]
    BY DEF Reply, HostInv, HostTypes, Genuine, Request
  <2> DEFINE now == [g_sockets[r.sock] EXCEPT !.isRecvPending = FALSE]
  <2>3. /\ now \in t_socket /\ now.isUsed = g_sockets[r.sock].isUsed
        /\ now.sessionId = g_sockets[r.sock].sessionId /\ ~now.isRecvPending
        /\ g_sockets' = [g_sockets EXCEPT ![r.sock] = now]
    BY <2>1, <2>2 DEF t_socket
  <2> HIDE DEF now
  <2>4. \A q \in owed' : Genuine(q)
    BY <2>1 DEF HostInv
  <2> QED
    BY <2>1, <2>2, <2>3, <2>4, RecvSlot
<1>5. CASE AcceptRunsOn \/ ReadChunk \/ ChunkEnd \/ HandlerReturn
  BY <1>5, SameHost DEF HostInv, AcceptRunsOn, ReadChunk, ChunkEnd, HandlerReturn
<1> QED
  BY <1>1, <1>2, <1>3, <1>4, <1>5 DEF Handler

\* So does every step.
LEMMA HostStep == HostInv /\ [Next]_vars => HostInv'
<1> SUFFICES ASSUME HostInv, [Next]_vars PROVE HostInv'
  OBVIOUS
<1>1. CASE UNCHANGED vars
  BY <1>1, SameHost DEF vars, HostInv
<1> QED
  BY <1>1, CallStep, ReplyStep DEF Next, AppCall, CallbackCall
-----------------------------------------------------------------------------
(* The reply handler.                                                      *)

\* Of two numbers the smaller is one of them.
LEMMA MinOfTwo ==
  ASSUME NEW a \in Nat, NEW b \in Nat
  PROVE  Min({a, b}) = IF a <= b THEN a ELSE b
BY DEF Min

\* What is delivered keeps its type.
LEMMA Delivered ==
  ASSUME HostInv, NEW s \in Socket, NEW n \in Serial,
         NEW msg \in {"BIND", "LISTEN", "ACCEPT", "CONNECT", "SEND", "RECV"},
         NEW back \in {"done", "connect", "read"}, Deliver(msg, s, n, back),
         reading' \in [sock : Socket, serial : Serial, left : 0 .. MaxData, rxDone : Nat]
  PROVE  HandlerTypes'
<1>1. serial[s] \in Serial
  BY DEF HostInv, HostTypes
<1> QED
  BY <1>1 DEF Deliver, HandlerTypes

\* What ReadChunk reads, and what is left.
LEMMA Chunked ==
  ASSUME HostInv, HandlerTypes, ReadChunk
  PROVE  LET size == g_sockets[reading.sock].userBufSize IN
         /\ size \in Nat
         /\ reading'.sock = reading.sock /\ reading'.serial = reading.serial
         /\ reading'.left = IF reading.left <= size THEN 0 ELSE reading.left - size
         /\ reading'.rxDone = IF reading.left <= size THEN reading.rxDone + 1 ELSE reading.rxDone
         /\ reading' \in [sock : Socket, serial : Serial, left : 0 .. MaxData, rxDone : Nat]
<1> DEFINE size == g_sockets[reading.sock].userBufSize
           rest == reading.left - Min({reading.left, size})
           dones == IF reading.left <= size THEN reading.rxDone + 1 ELSE reading.rxDone
<1>1. /\ reading.sock \in Socket /\ reading.left \in 0 .. MaxData /\ reading.rxDone \in Nat
      /\ reading.serial \in Serial
      /\ reading \in [sock : Socket, serial : Serial, left : 0 .. MaxData, rxDone : Nat]
  BY DEF HandlerTypes
<1>2. size \in Nat
  <2>1. g_sockets[reading.sock] \in t_socket
    BY <1>1 DEF HostInv, HostTypes
  <2>2. size \in BufferSizes \cup {0}
    BY <2>1 DEF t_socket
  <2> HIDE DEF size, rest, dones
  <2>3. BufferSizes \subseteq Nat
    BY SizesAssumption
  <2> QED
    BY <2>2, <2>3
<1>3. rest = IF reading.left <= size THEN 0 ELSE reading.left - size
  BY <1>1, <1>2, MinOfTwo
<1>4. rest \in 0 .. MaxData /\ dones \in Nat
  BY <1>1, <1>2, <1>3
<1>5. reading' = [reading EXCEPT !.left = rest, !.rxDone = dones]
  BY <1>1 DEF ReadChunk
<1> HIDE DEF rest, dones
<1>6. /\ reading'.left = rest /\ reading'.rxDone = dones
      /\ reading'.sock = reading.sock /\ reading'.serial = reading.serial
      /\ reading' \in [sock : Socket, serial : Serial, left : 0 .. MaxData, rxDone : Nat]
  BY <1>1, <1>4, <1>5
<1> QED
  BY <1>2, <1>3, <1>6 DEF dones

\* The handler's own variables keep their types.
LEMMA HandlerStep == IInv /\ [Next]_vars => HandlerTypes'
<1> SUFFICES ASSUME HostInv, HandlerTypes, [Next]_vars PROVE HandlerTypes'
  BY DEF IInv
<1>1. CASE UNCHANGED handler
  BY <1>1 DEF handler, HandlerTypes
<1>2. \A r \in owed : r.sock \in Socket /\ r.serial \in Serial
  BY DEF HostInv, Genuine, Request
<1>3. reading \in [sock : Socket, serial : Serial, left : 0 .. MaxData, rxDone : Nat]
  BY DEF HandlerTypes
<1>4. CASE BindReply \/ ListenReply \/ AcceptReply \/ ConnectReply
  BY <1>2, <1>3, <1>4, Delivered DEF BindReply, ListenReply, AcceptReply, ConnectReply, Reply
<1>5. CASE AcceptRunsOn
  BY <1>3, <1>5, Delivered DEF AcceptRunsOn, Socket, Serial
<1>6. CASE SendReply
  BY <1>1, <1>2, <1>3, <1>6, Delivered DEF SendReply, Reply, handler
<1>7. CASE RecvReply
  <2>1. PICK r \in Reply("recv"), n \in 0 .. MaxData :
          IF ~Expected(r) THEN UNCHANGED handler
          ELSE IF n = 0 THEN Deliver("RECV", r.sock, r.serial, "done") /\ UNCHANGED reading
          ELSE StartRead(r, n)
    BY <1>7 DEF RecvReply
  <2>2. r.sock \in Socket /\ r.serial \in Serial
    BY <1>2 DEF Reply
  <2>3. CASE Deliver("RECV", r.sock, r.serial, "done") /\ UNCHANGED reading
    BY <1>3, <2>2, <2>3, Delivered
  <2>4. CASE StartRead(r, n)
    BY <1>1, <2>2, <2>4 DEF StartRead, HandlerTypes
  <2> QED
    BY <1>1, <2>1, <2>3, <2>4
<1>8. CASE ReadChunk
  BY <1>3, <1>8, Chunked, Delivered DEF ReadChunk
<1>9. CASE ChunkEnd
  <2>1. reading' \in [sock : Socket, serial : Serial, left : 0 .. MaxData, rxDone : Nat]
    <3> DEFINE dones == IF ~g_sockets[reading.sock].isUsed /\ reading.rxDone < 2
                          THEN reading.rxDone + 1 ELSE reading.rxDone
    <3>1. /\ 0 \in Socket /\ 0 \in Serial
          /\ reading.rxDone \in Nat
      BY <1>3 DEF Socket, Serial
    <3>2. dones \in Nat
      BY <3>1
    <3>3. \/ reading' = [reading EXCEPT !.sock = 0, !.serial = 0]
          \/ reading' = [reading EXCEPT !.rxDone = dones]
      BY <1>3, <1>9 DEF ChunkEnd
    <3> HIDE DEF dones
    <3> QED
      BY <1>3, <3>1, <3>2, <3>3
  <2> QED
    BY <1>9, <2>1 DEF ChunkEnd, HandlerTypes, NoEvent, Serial
<1>10. CASE HandlerReturn
  BY <1>10 DEF HandlerReturn, HandlerTypes, NoEvent, Serial
<1>11. CASE AppCall \/ CallbackCall \/ UNCHANGED vars
  BY <1>1, <1>11 DEF AppCall, CallbackCall, vars
<1> QED
  BY <1>4, <1>5, <1>6, <1>7, <1>8, <1>9, <1>10, <1>11 DEF Next, Handler

LEMMA InitIInv == Init => IInv
<1> SUFFICES ASSUME Init PROVE IInv
  OBVIOUS
<1>1. Blank \in t_socket /\ ~Blank.isUsed /\ Blank.sessionId = 0 /\ ~Blank.isRecvPending
  BY DEF Blank, t_socket, SessionId
<1>2. HostInv
  BY <1>1 DEF Init, HostInv, HostTypes, Numbered, SlotsNumbered, SessionId, Serial
<1>3. HandlerTypes
  BY DEF Init, HandlerTypes, NoEvent, Socket, Serial
<1> QED
  BY <1>2, <1>3 DEF IInv

\* The inductive invariant holds throughout (wf_socket.c:86-622).
THEOREM IInvariant == Spec => []IInv
<1>1. IInv /\ [Next]_vars => IInv'
  BY HostStep, HandlerStep DEF IInv
<1> QED
  BY <1>1, InitIInv, PTL DEF Spec

\* Every variable keeps its type: the session identifier its 16 bits.
THEOREM TypeCorrect == Spec => []TypeOK
<1>1. IInv => TypeOK
  BY DEF IInv, HostInv, HostTypes, HandlerTypes, TypeOK, Genuine
<1> QED
  BY <1>1, IInvariant, PTL

\* A socket has a session identifier exactly while it is in use
\* (wf_socket.c:170-180, 363-373, 610-622).
THEOREM ClosedSocketsUnnamed == Spec => []ClosedHaveNoSession
<1>1. IInv => ClosedHaveNoSession
  <2> SUFFICES ASSUME IInv, NEW s \in Socket
               PROVE  g_sockets[s].isUsed <=> g_sockets[s].sessionId # 0
    BY DEF ClosedHaveNoSession
  <2>1. CASE g_sockets[s].isUsed
    <3>1. serial[s] \in 1 .. sessions /\ sessions \in Nat /\ g_sockets[s].sessionId = Sid(serial[s])
      BY <2>1 DEF IInv, HostInv, HostTypes, SlotsNumbered, Serial
    <3>2. Sid(serial[s]) \in 1 .. Circle
      BY <3>1, SidRange
    <3> QED
      BY <2>1, <3>1, <3>2
  <2>2. CASE ~g_sockets[s].isUsed
    BY <2>2 DEF IInv, HostInv, SlotsNumbered
  <2> QED
    BY <2>1, <2>2
<1> QED
  BY <1>1, IInvariant, PTL

\* Sockets open at the same time have different identifiers unless a whole
\* circle of sessions lies between them (wf_socket.c:170-180, 363-373).
THEOREM SessionsTold == Spec => []SessionsDistinct
<1>1. IInv => SessionsDistinct
  <2> SUFFICES ASSUME IInv, NEW s \in Socket, NEW t \in Socket, serial[s] # 0,
                      serial[s] < serial[t], serial[t] - serial[s] < SessionMod - 1
               PROVE  g_sockets[s].sessionId # g_sockets[t].sessionId
    BY DEF SessionsDistinct
  <2>1. serial[s] \in Nat /\ serial[t] \in Nat /\ sessions \in Nat
    BY DEF IInv, HostInv, HostTypes, Serial
  <2>2. g_sockets[s].sessionId = Sid(serial[s]) /\ g_sockets[t].sessionId = Sid(serial[t])
    BY <2>1 DEF IInv, HostInv, SlotsNumbered
  <2> QED
    BY <2>1, <2>2, SidDistinct DEF Circle
<1> QED
  BY <1>1, IInvariant, PTL
-----------------------------------------------------------------------------
(* Pending receives.                                                       *)

\* The request that serves a pending receive of s.
Asked(s) ==
  [kind |-> "recv", sock |-> s, serial |-> serial[s], sessionId |-> g_sockets[s].sessionId]

\* A step that takes no receive request of s away, or clears its flag, keeps
\* the promise to s.
LEMMA StillAsked ==
  ASSUME PendingIsAsked, NEW s \in Socket,
         g_sockets'[s].isRecvPending =>
           /\ g_sockets[s].isRecvPending
           /\ g_sockets'[s].sessionId = g_sockets[s].sessionId /\ serial'[s] = serial[s]
           /\ Asked(s) \in owed => Asked(s) \in owed'
  PROVE  g_sockets'[s].isRecvPending => Asked(s)' \in owed'
BY DEF PendingIsAsked, Asked

\* Calls of the application keep the promise to every pending receive.
LEMMA PendingCall ==
  ASSUME HostInv, PendingIsAsked, "recv" \notin Failing, NEW op \in Ops, Call(op)
  PROVE  PendingIsAsked'
<1> SUFFICES ASSUME NEW s \in Socket
             PROVE  g_sockets'[s].isRecvPending => Asked(s)' \in owed'
  BY DEF PendingIsAsked, Asked
<1>1. g_sockets \in [Socket -> t_socket] /\ serial \in [Socket -> Serial]
  BY DEF HostInv, HostTypes
<1>2. CASE UNCHANGED host /\ owed \subseteq owed'
  BY <1>2, StillAsked DEF host
<1>3. ASSUME NEW t \in Socket, Open(t, Blank), UNCHANGED owed
      PROVE  g_sockets'[s].isRecvPending => Asked(s)' \in owed'
  <2> DEFINE now == [Blank EXCEPT !.isUsed = TRUE, !.sessionId = NextSession]
  <2>1. ~now.isRecvPending
    BY DEF Blank
  <2> HIDE DEF now
  <2>2. g_sockets' = [g_sockets EXCEPT ![t] = now] /\ serial' = [serial EXCEPT ![t] = sessions + 1]
    BY <1>3 DEF Open, now
  <2>3. CASE s = t
    BY <1>1, <2>1, <2>2, <2>3
  <2>4. CASE s # t
    BY <1>1, <1>3, <2>2, <2>4, StillAsked
  <2> QED
    BY <2>3, <2>4
<1>4. ASSUME NEW t \in Socket, NEW len \in BufferSizes, recv(t, len)
      PROVE  g_sockets'[s].isRecvPending => Asked(s)' \in owed'
  <2>1. /\ g_sockets' = [g_sockets EXCEPT ![t] = Received(t, len)]
        /\ Received(t, len).sessionId = g_sockets[t].sessionId
    BY <1>4, RecvTyped
  <2>2. UNCHANGED <<serial>> /\ owed \subseteq owed'
    BY <1>4 DEF recv, Ask
  <2>3. CASE s # t
    BY <1>1, <2>1, <2>2, <2>3, StillAsked
  <2>4. CASE s = t /\ g_sockets[t].isRecvPending
    BY <1>1, <2>1, <2>2, <2>4 DEF PendingIsAsked, Asked
  <2>5. CASE s = t /\ ~g_sockets[t].isRecvPending
    <3>1. Asked(t) \in owed'
      BY <1>4, <2>5 DEF recv, Ask, Asked
    <3>2. Asked(t)' = Asked(t)
      BY <1>1, <2>1, <2>2 DEF Asked
    <3> QED
      BY <2>5, <3>1, <3>2
  <2> QED
    BY <2>3, <2>4, <2>5
<1>5. ASSUME NEW t \in Socket, close(t)
      PROVE  g_sockets'[s].isRecvPending => Asked(s)' \in owed'
  <2>1. /\ g_sockets' = [g_sockets EXCEPT ![t] = Blank] /\ serial' = [serial EXCEPT ![t] = 0]
        /\ \A r \in owed : r.sock # t => r \in owed'
    BY <1>5 DEF close, OfSession
  <2>2. ~Blank.isRecvPending
    BY DEF Blank
  <2>3. CASE s = t
    BY <1>1, <2>1, <2>2, <2>3
  <2>4. CASE s # t
    <3>1. Asked(s).sock = s
      BY DEF Asked
    <3> QED
      BY <1>1, <2>1, <2>4, <3>1, StillAsked
  <2> QED
    BY <2>3, <2>4
<1>6. CASE op = "socket" /\ socket
  <2>1. ASSUME NEW slots \in {Tcp, Socket \ Tcp}, NEW t \in Free(slots), Open(t, Blank), UNCHANGED owed
        PROVE  g_sockets'[s].isRecvPending => Asked(s)' \in owed'
    <3>1. t \in Socket
      BY <2>1 DEF Free, Tcp, Socket
    <3> QED
      BY <1>3, <2>1, <3>1
  <2> QED
    BY <1>2, <1>6, <2>1 DEF socket
<1>7. ASSUME NEW t \in Socket, Plain(op, t)
      PROVE  g_sockets'[s].isRecvPending => Asked(s)' \in owed'
  BY <1>2, <1>7 DEF Plain, Ask
<1> QED
  BY <1>4, <1>5, <1>6, <1>7 DEF Call

\* So do replies: the one that answers a receive clears its flag.
LEMMA PendingReply ==
  ASSUME HostInv, PendingIsAsked, Handler
  PROVE  PendingIsAsked'
<1> SUFFICES ASSUME NEW s \in Socket
             PROVE  g_sockets'[s].isRecvPending => Asked(s)' \in owed'
  BY DEF PendingIsAsked, Asked
<1>1. g_sockets \in [Socket -> t_socket] /\ serial \in [Socket -> Serial]
  BY DEF HostInv, HostTypes
<1>2. Asked(s).kind = "recv" /\ Asked(s).sock = s
  BY DEF Asked
<1>3. CASE UNCHANGED host /\ \A r \in owed : r.kind = "recv" => r \in owed'
  BY <1>2, <1>3, StillAsked DEF host
<1>4. CASE BindReply \/ ListenReply \/ ConnectReply \/ SendReply
  BY <1>3, <1>4 DEF BindReply, ListenReply, ConnectReply, SendReply, Reply
<1>5. CASE AcceptRunsOn \/ ReadChunk \/ ChunkEnd \/ HandlerReturn
  BY <1>3, <1>5 DEF AcceptRunsOn, ReadChunk, ChunkEnd, HandlerReturn
<1>6. CASE AcceptReply
  <2>1. CASE UNCHANGED <<host, owed>>
    BY <1>3, <2>1
  <2>2. ASSUME NEW c \in Free(Tcp), Open(c, g_sockets[c]), UNCHANGED owed
        PROVE  g_sockets'[s].isRecvPending => Asked(s)' \in owed'
    <3>1. c \in Socket /\ ~g_sockets[c].isUsed
      BY <2>2 DEF Free, Tcp, Socket
    <3>2. g_sockets[c] \in t_socket /\ ~g_sockets[c].isRecvPending
      BY <1>1, <3>1 DEF HostInv, SlotsNumbered
    <3> DEFINE now == [g_sockets[c] EXCEPT !.isUsed = TRUE, !.sessionId = NextSession]
    <3>3. ~now.isRecvPending
      BY <3>2 DEF t_socket
    <3> HIDE DEF now
    <3>4. g_sockets' = [g_sockets EXCEPT ![c] = now] /\ serial' = [serial EXCEPT ![c] = sessions + 1]
      BY <2>2 DEF Open, now
    <3>5. CASE s = c
      BY <1>1, <3>3, <3>4, <3>5
    <3>6. CASE s # c
      BY <1>1, <2>2, <3>1, <3>4, <3>6, StillAsked
    <3> QED
      BY <3>5, <3>6
  <2> QED
    BY <1>6, <2>1, <2>2 DEF AcceptReply
<1>7. CASE RecvReply
  <2>1. PICK r \in Reply("recv") :
          /\ owed' = owed \ {r}
          /\ g_sockets' = [g_sockets EXCEPT ![r.sock].isRecvPending = FALSE]
          /\ UNCHANGED <<g_sessionId, sessions, serial>>
    BY <1>7 DEF RecvReply
  <2>2. r.sock \in Socket
    BY DEF Reply, HostInv, Genuine, Request
  <2>3. CASE s = r.sock
    BY <1>1, <2>1, <2>2, <2>3 DEF t_socket
  <2>4. CASE s # r.sock
    BY <1>1, <1>2, <2>1, <2>2, <2>4, StillAsked
  <2> QED
    BY <2>3, <2>4
<1> QED
  BY <1>4, <1>5, <1>6, <1>7 DEF Handler

\* Where receive requests do not fail to be sent, a socket marked as waiting
\* has one under way (wf_socket.c:568-595).
THEOREM PendingServed ==
  ASSUME "recv" \notin Failing
  PROVE  Spec => []PendingIsAsked
<1>1. Init => PendingIsAsked
  BY DEF Init, PendingIsAsked, Blank
<1>2. IInv /\ PendingIsAsked /\ [Next]_vars => PendingIsAsked'
  <2> SUFFICES ASSUME HostInv, PendingIsAsked, [Next]_vars PROVE PendingIsAsked'
    BY DEF IInv
  <2>1. CASE UNCHANGED vars
    BY <2>1 DEF vars, host, PendingIsAsked
  <2> QED
    BY <2>1, PendingCall, PendingReply DEF Next, AppCall, CallbackCall
<1> QED
  BY <1>1, <1>2, IInvariant, PTL DEF Spec
-----------------------------------------------------------------------------
(* Events and the reading loop, while callbacks close nothing.             *)

InRead == pc = "read" \/ (pc = "callback" /\ ret = "read")

\* The socket being read stays open, under a session that has the identifier
\* of the session that asked; RX done was sent if nothing is left.
ReadInv ==
  IF InRead
    THEN LET s == reading.sock IN
         /\ g_sockets[s].isUsed /\ g_sockets[s].userBufSize # 0
         /\ reading.serial \in 1 .. sessions /\ reading.serial <= serial[s]
         /\ g_sockets[s].sessionId = Sid(reading.serial)
         /\ reading.rxDone = IF reading.left = 0 THEN 1 ELSE 0
         /\ pc = "read" => reading.left # 0
    ELSE reading.left = 0 /\ reading.rxDone = 1

\* An older session with the identifier of the slot's present one is that one,
\* or a whole circle older.
LEMMA OwnSession ==
  ASSUME HostInv, NEW s \in Socket, g_sockets[s].isUsed, NEW n \in 1 .. sessions,
         n <= serial[s], g_sockets[s].sessionId = Sid(n)
  PROVE  n = serial[s] \/ serial[s] - n >= SessionMod - 1
<1>1. serial[s] \in 1 .. sessions /\ g_sockets[s].sessionId = Sid(serial[s]) /\ sessions \in Nat
  BY DEF HostInv, HostTypes, SlotsNumbered, Serial
<1>2. n \in Nat \ {0} /\ serial[s] \in Nat \ {0} /\ Sid(n) = Sid(serial[s])
  BY <1>1
<1>3. ~(n < serial[s] /\ serial[s] - n < Circle)
  BY <1>2, SidDistinct
<1> QED
  BY <1>2, <1>3, CircleSize DEF Circle

\* A reply that is expected is for a slot in use.
LEMMA ExpectedOpen ==
  ASSUME HostInv, NEW r \in owed, Expected(r)
  PROVE  /\ r.sock \in Socket /\ g_sockets[r.sock].isUsed
         /\ r.serial \in 1 .. sessions /\ r.serial <= serial[r.sock]
         /\ g_sockets[r.sock].sessionId = Sid(r.serial)
<1>1. Genuine(r) /\ r.sock \in Socket /\ sessions \in Nat
  BY DEF HostInv, HostTypes, Genuine, Request, Serial
<1>2. r.serial \in Nat \ {0} /\ r.serial \in 1 .. sessions
  BY <1>1 DEF Genuine
<1>3. Sid(r.serial) \in 1 .. Circle
  BY <1>2, SidRange
<1>4. g_sockets[r.sock].sessionId = Sid(r.serial) /\ Sid(r.serial) # 0
  BY <1>1, <1>3 DEF Genuine, Expected
<1>5. g_sockets[r.sock].isUsed
  BY <1>1, <1>4 DEF HostInv, SlotsNumbered
<1> QED
  BY <1>1, <1>2, <1>4, <1>5 DEF Genuine

\* What callbacks do, closing left out, leaves the socket being read open.
LEMMA ReadCall ==
  ASSUME IInv, ReadInv, NEW op \in Ops \ {"close"}, Call(op), UNCHANGED handler
  PROVE  ReadInv'
<1> DEFINE s == reading.sock
           Kept == /\ g_sockets'[s].isUsed /\ g_sockets'[s].userBufSize # 0
                   /\ g_sockets'[s].sessionId = g_sockets[s].sessionId
                   /\ serial'[s] = serial[s]
                   /\ sessions' = sessions \/ sessions' = sessions + 1
<1>1. /\ s \in Socket /\ sessions \in Nat
      /\ g_sockets \in [Socket -> t_socket] /\ serial \in [Socket -> Serial]
  BY DEF IInv, HostInv, HostTypes, HandlerTypes, Serial
<1>2. UNCHANGED <<pc, ret, reading>>
  BY DEF handler
<1>3. SUFFICES ASSUME InRead, g_sockets[s].isUsed, g_sockets[s].userBufSize # 0
               PROVE  Kept
  <2>1. CASE ~InRead
    BY <1>2, <2>1 DEF ReadInv, InRead
  <2>2. CASE InRead /\ Kept
    <3>1. 1 .. sessions \subseteq 1 .. sessions'
      BY <1>1, <2>2
    <3> QED
      BY <1>2, <2>2, <3>1 DEF ReadInv, InRead
  <2>3. InRead => g_sockets[s].isUsed /\ g_sockets[s].userBufSize # 0
    BY DEF ReadInv
  <2> QED
    BY <2>1, <2>2, <2>3
<1> HIDE DEF s
<1>4. CASE UNCHANGED host
  BY <1>3, <1>4 DEF host
<1>5. ASSUME NEW slots \in {Tcp, Socket \ Tcp}, NEW t \in Free(slots), Open(t, Blank)
      PROVE  /\ g_sockets'[s] = g_sockets[s] /\ serial'[s] = serial[s] /\ sessions' = sessions + 1
  <2>1. t # s
    BY <1>3, <1>5 DEF Free
  <2> QED
    BY <1>1, <1>5, <2>1 DEF Open
<1>6. ASSUME NEW t \in Socket, NEW len \in BufferSizes, recv(t, len)
      PROVE  /\ g_sockets'[s].isUsed /\ g_sockets'[s].userBufSize # 0
             /\ g_sockets'[s].sessionId = g_sockets[s].sessionId
             /\ UNCHANGED <<serial, sessions>>
  <2>1. /\ g_sockets' = [g_sockets EXCEPT ![t] = Received(t, len)]
        /\ Received(t, len).isUsed = g_sockets[t].isUsed
        /\ Received(t, len).sessionId = g_sockets[t].sessionId
        /\ Received(t, len).userBufSize = len
    BY <1>6, RecvTyped DEF IInv
  <2>2. len # 0
    BY <1>6
  <2>3. CASE s = t
    BY <1>1, <1>3, <1>6, <2>1, <2>2, <2>3 DEF recv
  <2>4. CASE s # t
    BY <1>1, <1>3, <1>6, <2>1, <2>4 DEF recv
  <2> QED
    BY <2>3, <2>4
<1>7. CASE op = "socket" /\ socket
  <2>1. \/ UNCHANGED host
        \/ \E slots \in {Tcp, Socket \ Tcp} : \E t \in Free(slots) : Open(t, Blank)
    BY <1>7 DEF socket
  <2>2. CASE UNCHANGED host
    BY <1>4, <2>2
  <2>3. CASE \E slots \in {Tcp, Socket \ Tcp} : \E t \in Free(slots) : Open(t, Blank)
    BY <1>3, <1>5, <2>3
  <2> QED
    BY <2>1, <2>2, <2>3
<1>8. CASE \E t \in Socket, len \in BufferSizes : recv(t, len)
  BY <1>6, <1>8
<1>9. CASE \E t \in Socket : Plain(op, t)
  BY <1>4, <1>9 DEF Plain
<1> QED
  BY <1>7, <1>8, <1>9 DEF Call

\* The steps of the reply handler.
LEMMA ReadHandler ==
  ASSUME IInv, ReadInv, DataOfOwnSession, Handler
  PROVE  ReadInv' /\ DataOfOwnSession'
<1>0. HostInv /\ HandlerTypes
  BY DEF IInv
<1>1. CASE BindReply \/ ListenReply \/ ConnectReply \/ AcceptReply
  BY <1>1 DEF BindReply, ListenReply, ConnectReply, AcceptReply, Reply, Deliver,
              ReadInv, InRead, DataOfOwnSession
<1>2. CASE AcceptRunsOn
  BY <1>2 DEF AcceptRunsOn, Deliver, ReadInv, InRead, DataOfOwnSession
<1>3. CASE SendReply
  <2>1. PICK r \in Reply("send") :
          /\ IF Expected(r) THEN Deliver("SEND", r.sock, r.serial, "done")
                            ELSE UNCHANGED <<pc, ret, event>>
          /\ UNCHANGED <<host, reading>>
    BY <1>3 DEF SendReply
  <2>2. r \in owed /\ pc = "superloop"
    BY DEF Reply
  <2>3. CASE Expected(r) /\ Deliver("SEND", r.sock, r.serial, "done")
    <3>1. r.serial = serial[r.sock] \/ serial[r.sock] - r.serial >= SessionMod - 1
      BY <1>0, <2>2, <2>3, ExpectedOpen, OwnSession
    <3> QED
      BY <2>1, <2>2, <2>3, <3>1 DEF Deliver, ReadInv, InRead, DataOfOwnSession
  <2>4. CASE UNCHANGED <<pc, ret, event>>
    BY <2>1, <2>2, <2>4 DEF ReadInv, InRead, DataOfOwnSession
  <2> QED
    BY <2>1, <2>3, <2>4
<1>4. CASE RecvReply
  <2>1. PICK r \in Reply("recv"), n \in 0 .. MaxData :
          /\ g_sockets' = [g_sockets EXCEPT ![r.sock].isRecvPending = FALSE]
          /\ IF ~Expected(r) THEN UNCHANGED handler
             ELSE IF n = 0 THEN Deliver("RECV", r.sock, r.serial, "done") /\ UNCHANGED reading
             ELSE StartRead(r, n)
          /\ UNCHANGED <<g_sessionId, sessions, serial>>
    BY <1>4 DEF RecvReply
  <2>2. r \in owed /\ pc = "superloop" /\ ~InRead
    BY DEF Reply, InRead
  <2>3. CASE UNCHANGED handler
    BY <2>2, <2>3 DEF handler, ReadInv, InRead, DataOfOwnSession
  <2>4. CASE Expected(r) /\ Deliver("RECV", r.sock, r.serial, "done") /\ UNCHANGED reading
    <3>1. r.serial = serial[r.sock] \/ serial[r.sock] - r.serial >= SessionMod - 1
      BY <1>0, <2>2, <2>4, ExpectedOpen, OwnSession
    <3> QED
      BY <2>2, <2>4, <3>1 DEF Deliver, ReadInv, InRead, DataOfOwnSession
  <2>5. CASE Expected(r) /\ n # 0 /\ StartRead(r, n)
    <3>1. CASE g_sockets[r.sock].isUsed /\ g_sockets[r.sock].userBufSize > 0
      <4>1. /\ reading' = [sock |-> r.sock, serial |-> r.serial, left |-> n, rxDone |-> 0]
            /\ pc' = "read" /\ UNCHANGED <<ret, event>>
        BY <2>5, <3>1 DEF StartRead
      <4>2. /\ r.sock \in Socket /\ r.serial \in 1 .. sessions /\ r.serial <= serial[r.sock]
            /\ g_sockets[r.sock].sessionId = Sid(r.serial)
        BY <1>0, <2>2, <2>5, ExpectedOpen
      <4>3. g_sockets \in [Socket -> t_socket]
        BY <1>0 DEF HostInv, HostTypes
      <4> DEFINE now == [g_sockets[r.sock] EXCEPT !.isRecvPending = FALSE]
      <4>4. /\ now.isUsed = g_sockets[r.sock].isUsed /\ now.sessionId = g_sockets[r.sock].sessionId
            /\ now.userBufSize = g_sockets[r.sock].userBufSize
            /\ now.userBufSize # 0
        <5>1. g_sockets[r.sock] \in t_socket
          BY <4>2, <4>3
        <5>2. g_sockets[r.sock].userBufSize # 0
          BY <3>1
        <5> QED
          BY <5>1, <5>2 DEF t_socket
      <4> HIDE DEF now
      <4>5. g_sockets'[r.sock] = now
        BY <2>1, <4>2, <4>3 DEF now
      <4>6. /\ reading'.sock = r.sock /\ reading'.serial = r.serial /\ reading'.left = n
            /\ reading'.rxDone = 0
        BY <4>1
      <4>7. DataOfOwnSession'
        BY <4>1 DEF DataOfOwnSession
      <4> QED
        BY <2>1, <2>5, <3>1, <4>1, <4>2, <4>4, <4>5, <4>6, <4>7 DEF ReadInv, InRead
    <3>2. CASE UNCHANGED handler
      BY <2>3, <3>2
    <3> QED
      BY <2>5, <3>1, <3>2 DEF StartRead
  <2> QED
    BY <2>1, <2>3, <2>4, <2>5
<1>5. CASE ReadChunk
  <2> DEFINE s == reading.sock
             size == g_sockets[reading.sock].userBufSize
  <2>1. /\ g_sockets[s].isUsed /\ size # 0
        /\ reading.serial \in 1 .. sessions /\ reading.serial <= serial[s]
        /\ g_sockets[s].sessionId = Sid(reading.serial)
        /\ reading.left # 0 /\ reading.rxDone = 0
    BY <1>5 DEF ReadChunk, ReadInv, InRead
  <2>2. /\ size \in Nat /\ reading.left \in Nat /\ s \in Socket
        /\ reading'.sock = s /\ reading'.serial = reading.serial
        /\ reading'.left = IF reading.left <= size THEN 0 ELSE reading.left - size
        /\ reading'.rxDone = IF reading.left <= size THEN reading.rxDone + 1 ELSE reading.rxDone
    BY <1>0, <1>5, Chunked DEF HandlerTypes
  <2>3. UNCHANGED <<g_sockets, sessions, serial>> /\ Deliver("RECV", s, reading.serial, "read")
    BY <1>5 DEF ReadChunk, host
  <2>4. reading.serial = serial[s] \/ serial[s] - reading.serial >= SessionMod - 1
    BY <1>0, <2>1, <2>2, OwnSession
  <2> HIDE DEF s, size
  <2>5. reading'.rxDone = IF reading'.left = 0 THEN 1 ELSE 0
    BY <2>1, <2>2
  <2>6. DataOfOwnSession'
    BY <2>3, <2>4 DEF Deliver, DataOfOwnSession
  <2>7. ReadInv'
    BY <2>1, <2>2, <2>3, <2>5 DEF Deliver, ReadInv, InRead, s, size
  <2> QED
    BY <2>6, <2>7
<1>6. CASE ChunkEnd
  <2>1. g_sockets[reading.sock].isUsed /\ UNCHANGED host
    BY <1>6 DEF ChunkEnd, ReadInv, InRead
  <2>2. reading \in [sock : Socket, serial : Serial, left : 0 .. MaxData, rxDone : Nat]
    BY <1>0 DEF HandlerTypes
  <2>3. CASE reading.left = 0
    BY <1>6, <2>1, <2>2, <2>3 DEF ChunkEnd, ReadInv, InRead, DataOfOwnSession, NoEvent
  <2>4. CASE reading.left # 0
    <3>1. reading' = reading /\ pc' = "read"
      BY <1>6, <2>1, <2>2, <2>4 DEF ChunkEnd
    <3> QED
      BY <1>6, <2>1, <2>4, <3>1 DEF ChunkEnd, ReadInv, InRead, DataOfOwnSession, NoEvent, host
  <2> QED
    BY <2>3, <2>4
<1>7. CASE HandlerReturn
  BY <1>7 DEF HandlerReturn, ReadInv, InRead, DataOfOwnSession, NoEvent
<1> QED
  BY <1>1, <1>2, <1>3, <1>4, <1>5, <1>6, <1>7 DEF Handler

\* The invariant of the reading loop.
LEMMA ReadStep ==
  ASSUME "close" \notin CallbackOps, IInv, ReadInv, DataOfOwnSession, [Next]_vars
  PROVE  ReadInv' /\ DataOfOwnSession'
<1>1. CASE AppCall
  <2>1. pc = "superloop" /\ UNCHANGED handler
    BY <1>1 DEF AppCall
  <2> QED
    BY <2>1 DEF handler, ReadInv, InRead, DataOfOwnSession
<1>2. CASE CallbackCall
  <2>1. PICK op \in Ops \ {"close"} : Call(op) /\ UNCHANGED handler
    BY <1>2 DEF CallbackCall
  <2>2. ReadInv'
    BY <2>1, ReadCall
  <2> QED
    BY <2>1, <2>2 DEF handler, DataOfOwnSession
<1>3. CASE UNCHANGED vars
  BY <1>3 DEF vars, host, handler, ReadInv, InRead, DataOfOwnSession
<1> QED
  BY <1>1, <1>2, <1>3, ReadHandler DEF Next

\* The invariant of the reading loop and the events holds throughout
\* (wf_socket.c:86-128).
THEOREM ReadInvariant ==
  ASSUME "close" \notin CallbackOps
  PROVE  Spec => [](ReadInv /\ DataOfOwnSession)
<1>1. Init => ReadInv /\ DataOfOwnSession
  BY DEF Init, ReadInv, InRead, DataOfOwnSession, NoEvent
<1>2. IInv /\ (ReadInv /\ DataOfOwnSession) /\ [Next]_vars => (ReadInv /\ DataOfOwnSession)'
  BY ReadStep
<1> QED
  BY <1>1, <1>2, IInvariant, PTL DEF Spec

\* While callbacks close nothing, data events reach the session that asked, or
\* one a whole circle of sessions younger (wf_socket.c:236-269, 290-299).
THEOREM OwnDataOnly ==
  ASSUME "close" \notin CallbackOps
  PROVE  Spec => []DataOfOwnSession
BY ReadInvariant, PTL

\* While callbacks close nothing, every message read out is released once
\* (wf_socket.c:97-113).
THEOREM ReleasedOnce ==
  ASSUME "close" \notin CallbackOps
  PROVE  Spec => []DataReleasedOnce
<1>1. ReadInv => DataReleasedOnce
  BY DEF ReadInv, InRead, DataReleasedOnce
<1> QED
  BY <1>1, ReadInvariant, PTL
=============================================================================
