------------------------------ MODULE Sockets -------------------------------
(***************************************************************************)
(* src/src/wf_socket.c: the socket layer.  The application's calls send    *)
(* requests to the WINC1500's firmware; its replies come back through the  *)
(* host interface, one at a time and in any order, and the reply handler   *)
(* calls back into the application, which may call the socket functions    *)
(* from there.                                                             *)
(*                                                                         *)
(* A request is a record of its kind, socket and session identifier, and   *)
(* of the serial number of the session it was made for: history, as are    *)
(* sessions, serial and event, that tells sessions apart when slot and     *)
(* identifier are the same.  A request that is repeated before it is       *)
(* answered counts once.  TLS sockets, which differ in the commands' names *)
(* only, and replies without a socket (DNS, ping) are left out.            *)
(***************************************************************************)
EXTENDS Naturals, FiniteSetsExt

CONSTANTS
  MAX_SOCKET, TCP_SOCK_MAX,
  AF_INET,        \* the address family, a number that is also a socket's
  SessionMod,     \* 2^16
  BufferSizes,    \* sizes of the buffers the application receives into
  MaxData,        \* bound: bytes in a received message
  MaxSessions,    \* bound: sockets opened, by either side
  MaxOwed,        \* bound: requests under way, and listeners
  Failing,        \* the requests that hif_send may fail to send
  AppOps,         \* the functions the superloop calls
  CallbackOps     \* the functions the event callback calls

Ops == {"socket", "bind", "listen", "connect", "send", "recv", "close"}

ASSUME SizesAssumption ==
  /\ MAX_SOCKET \in Nat /\ TCP_SOCK_MAX \in 0 .. MAX_SOCKET
  /\ AF_INET \in 0 .. MAX_SOCKET - 1
  /\ SessionMod \in Nat \ {0, 1}
  /\ BufferSizes \subseteq Nat \ {0}
  /\ MaxData \in Nat /\ MaxSessions \in Nat /\ MaxOwed \in Nat
\* ReadSocketData subtracts the two as int16_t: beyond these sizes a buffer that
\* is long enough could look too short, which the model leaves out.
ASSUME DifferenceAssumption ==
  BufferSizes \subseteq 0 .. 32767 /\ MaxData \in 0 .. 32767
ASSUME OpsAssumption ==
  /\ Failing \subseteq Ops \ {"socket"}
  /\ AppOps \subseteq Ops /\ CallbackOps \subseteq Ops

VARIABLES
  g_sockets,       \* [Socket -> t_socket]
  g_sessionId,
  pc,              \* where the superloop is
  ret,             \* where the application's callback returns to
  reading,         \* the message ReadSocketData is at, or was, and its RX dones
  owed,            \* requests the firmware has not answered, and listeners
  sessions, serial,\* history
  event            \* history: what the application is being told

host == <<g_sockets, g_sessionId, sessions, serial>>
handler == <<pc, ret, reading, event>>
vars == <<host, handler, owed>>

Socket == 0 .. MAX_SOCKET - 1
Tcp == 0 .. TCP_SOCK_MAX - 1
SessionId == 0 .. SessionMod - 1
Serial == 0 .. MaxSessions

t_socket ==
  [isUsed : BOOLEAN, sessionId : SessionId, userBufSize : BufferSizes \cup {0},
   isRecvPending : BOOLEAN]

Request ==
  [kind : {"bind", "listen", "accept", "connect", "send", "recv"},
   sock : Socket, sessionId : SessionId, serial : Serial]

TypeOK ==
  /\ g_sockets \in [Socket -> t_socket]
  /\ g_sessionId \in SessionId
  /\ pc \in {"superloop", "callback", "read"}
  /\ ret \in {"done", "connect", "read"}
  /\ reading \in [sock : Socket, serial : Serial, left : 0 .. MaxData, rxDone : Nat]
  /\ owed \subseteq Request
  /\ sessions \in Serial /\ serial \in [Socket -> Serial]
  /\ event \in [msg : {"none", "BIND", "LISTEN", "ACCEPT", "CONNECT", "SEND", "RECV"},
                serial : Serial, open : Serial]

\* What memset leaves of a t_socket.
Blank ==
  [isUsed |-> FALSE, sessionId |-> 0, userBufSize |-> 0, isRecvPending |-> FALSE]

NoEvent == [msg |-> "none", serial |-> 0, open |-> 0]

\* SocketInit, the first time.
Init ==
  /\ g_sockets = [s \in Socket |-> Blank]
  /\ g_sessionId = 0
  /\ pc = "superloop" /\ ret = "done"
  /\ reading = [sock |-> 0, serial |-> 0, left |-> 0, rxDone |-> 1]
  /\ owed = {}
  /\ sessions = 0 /\ serial = [s \in Socket |-> 0]
  /\ event = NoEvent
-----------------------------------------------------------------------------
(* The functions the application calls.                                    *)

\* Mutant of NextSession: zero is not skipped.
NextSession_Zero == (g_sessionId + 1) % SessionMod

\* Mutant of NextSession: the counter has no end.
NextSession_Endless == g_sessionId + 1

NextSession ==
  IF g_sessionId + 1 = SessionMod THEN 1 ELSE g_sessionId + 1

\* Slot s takes a new session; what else it becomes is info's.
Open(s, info) ==
  /\ sessions < MaxSessions
  /\ g_sockets' = [g_sockets EXCEPT ![s] =
       [info EXCEPT !.isUsed = TRUE, !.sessionId = NextSession]]
  /\ g_sessionId' = NextSession
  /\ sessions' = sessions + 1
  /\ serial' = [serial EXCEPT ![s] = sessions + 1]

Free(slots) == {s \in slots : ~g_sockets[s].isUsed}

\* SOCK_STREAM or SOCK_DGRAM: the first free slot of its kind, or -1 when
\* there is none (and at the bound).
socket ==
  \E slots \in {Tcp, Socket \ Tcp} :
    /\ \/ (Free(slots) = {} \/ sessions = MaxSessions) /\ UNCHANGED host
       \/ \E s \in Free(slots) : (\A t \in Free(slots) : s <= t) /\ Open(s, Blank)
    /\ UNCHANGED owed

\* SOCKET_REQUEST.  A request that fails never reaches the firmware.
Ask(kind, s) ==
  \/ /\ Cardinality(owed) < MaxOwed
     /\ owed' = owed \cup {[kind |-> kind, sock |-> s, serial |-> serial[s],
                            sessionId |-> g_sockets[s].sessionId]}
  \/ kind \in Failing /\ UNCHANGED owed

\* bind, listen, connect, and send and sendto.
Plain(kind, s) ==
  /\ g_sockets[s].isUsed
  /\ Ask(kind, s)
  /\ UNCHANGED host

\* recv and recvfrom.
recv(s, len) ==
  /\ g_sockets[s].isUsed
  /\ g_sockets' = [g_sockets EXCEPT ![s].userBufSize = len, ![s].isRecvPending = TRUE]
  /\ IF g_sockets[s].isRecvPending THEN UNCHANGED owed ELSE Ask("recv", s)
  /\ UNCHANGED <<g_sessionId, sessions, serial>>

OfSession(s) == {r \in owed : r.sock = s /\ r.serial = serial[s]}

\* The firmware drops what it had not answered when the close reached it.
close(s) ==
  /\ g_sockets[s].isUsed
  /\ g_sockets' = [g_sockets EXCEPT ![s] = Blank]
  /\ serial' = [serial EXCEPT ![s] = 0]
  /\ \/ \E answered \in SUBSET OfSession(s) :
          owed' = (owed \ OfSession(s)) \cup answered
     \/ "close" \in Failing /\ UNCHANGED owed
  /\ UNCHANGED <<g_sessionId, sessions>>

Call(op) ==
  \/ op = "socket" /\ socket
  \/ /\ op \in {"bind", "listen", "connect", "send"}
     /\ \E s \in Socket : Plain(op, s)
  \/ op = "recv" /\ \E s \in Socket, len \in BufferSizes : recv(s, len)
  \/ op = "close" /\ \E s \in Socket : close(s)

AppCall == pc = "superloop" /\ (\E op \in AppOps : Call(op)) /\ UNCHANGED handler

CallbackCall == pc = "callback" /\ (\E op \in CallbackOps : Call(op)) /\ UNCHANGED handler
-----------------------------------------------------------------------------
(* SocketInternalEventHandler, one action for each kind of reply.          *)

\* m2m_socket_handle_events: msg is for socket s, of the session numbered n.
Deliver(msg, s, n, back) ==
  /\ pc' = "callback" /\ ret' = back
  /\ event' = [msg |-> msg, serial |-> n, open |-> serial[s]]

Reply(kind) == {r \in owed : pc = "superloop" /\ r.kind = kind}

BindReply ==
  \E r \in Reply("bind") :
    /\ owed' = owed \ {r}
    /\ Deliver("BIND", r.sock, r.serial, "done")
    /\ UNCHANGED <<host, reading>>

\* The firmware accepts connections from now on.
ListenReply ==
  \E r \in Reply("listen") :
    /\ owed' = (owed \ {r}) \cup {[r EXCEPT !.kind = "accept"]}
    /\ Deliver("LISTEN", r.sock, r.serial, "done")
    /\ UNCHANGED <<host, reading>>

\* Mutant of AcceptReply: the connection takes the session identifier of the
\* socket opened last.
AcceptReply_SameSession ==
  \E r \in Reply("accept"), c \in Free(Tcp) :
    /\ sessions < MaxSessions
    /\ g_sockets' = [g_sockets EXCEPT ![c].isUsed = TRUE, ![c].sessionId = g_sessionId]
    /\ sessions' = sessions + 1
    /\ serial' = [serial EXCEPT ![c] = sessions + 1]
    /\ Deliver("ACCEPT", r.sock, r.serial, "connect")
    /\ UNCHANGED <<g_sessionId, reading, owed>>

\* The firmware hands out a slot that is free on the host, or none.
AcceptReply ==
  \E r \in Reply("accept") :
    /\ \/ \E c \in Free(Tcp) : Open(c, g_sockets[c])
       \/ UNCHANGED host
    /\ Deliver("ACCEPT", r.sock, r.serial, "connect")
    /\ UNCHANGED <<reading, owed>>

\* The missing break: the accept reply is read again as a connect reply, whose
\* socket is where the address family stands.
AcceptRunsOn ==
  /\ pc = "callback" /\ ret = "connect"
  /\ Deliver("CONNECT", AF_INET, 0, "done")
  /\ UNCHANGED <<host, reading, owed>>

ConnectReply ==
  \E r \in Reply("connect") :
    /\ owed' = owed \ {r}
    /\ Deliver("CONNECT", r.sock, r.serial, "done")
    /\ UNCHANGED <<host, reading>>

Expected(r) == r.sessionId = g_sockets[r.sock].sessionId

\* Mutant of SendReply: the session is not compared.
SendReply_Unchecked ==
  \E r \in Reply("send") :
    /\ owed' = owed \ {r}
    /\ Deliver("SEND", r.sock, r.serial, "done")
    /\ UNCHANGED <<host, reading>>

SendReply ==
  \E r \in Reply("send") :
    /\ owed' = owed \ {r}
    /\ IF Expected(r) THEN Deliver("SEND", r.sock, r.serial, "done")
                      ELSE UNCHANGED <<pc, ret, event>>
    /\ UNCHANGED <<host, reading>>

\* ReadSocketData starts on the n bytes of r's answer, if there is a buffer.
StartRead(r, n) ==
  IF g_sockets[r.sock].isUsed /\ g_sockets[r.sock].userBufSize > 0
    THEN /\ reading' = [sock |-> r.sock, serial |-> r.serial, left |-> n, rxDone |-> 0]
         /\ pc' = "read"
         /\ UNCHANGED <<ret, event>>
    ELSE UNCHANGED handler

\* Mutant of RecvReply: the pending flag is left as it is.
RecvReply_KeepsFlag ==
  \E r \in Reply("recv"), n \in 0 .. MaxData :
    /\ owed' = owed \ {r}
    /\ IF ~Expected(r) THEN UNCHANGED handler
       ELSE IF n = 0 THEN Deliver("RECV", r.sock, r.serial, "done") /\ UNCHANGED reading
       ELSE StartRead(r, n)
    /\ UNCHANGED host

\* n bytes, or no data: the connection is closed, or a timeout or an error.
RecvReply ==
  \E r \in Reply("recv"), n \in 0 .. MaxData :
    /\ owed' = owed \ {r}
    /\ g_sockets' = [g_sockets EXCEPT ![r.sock].isRecvPending = FALSE]
    /\ IF ~Expected(r) THEN UNCHANGED handler
       ELSE IF n = 0 THEN Deliver("RECV", r.sock, r.serial, "done") /\ UNCHANGED reading
       ELSE StartRead(r, n)
    /\ UNCHANGED <<g_sessionId, sessions, serial>>

\* Mutant of ReadChunk: a buffer just filled by the last bytes is not last.
ReadChunk_NeverLast ==
  /\ pc = "read"
  /\ LET size == g_sockets[reading.sock].userBufSize
         read == Min({reading.left, size})
     IN  reading' = [reading EXCEPT !.left = @ - read,
                       !.rxDone = IF reading.left < size THEN @ + 1 ELSE @]
  /\ Deliver("RECV", reading.sock, reading.serial, "read")
  /\ UNCHANGED <<host, owed>>

\* Mutant of ReadChunk: what was read is not taken off.
ReadChunk_Rereads ==
  /\ pc = "read"
  /\ reading' = [reading EXCEPT !.rxDone = 1]
  /\ Deliver("RECV", reading.sock, reading.serial, "read")
  /\ UNCHANGED <<host, owed>>

\* ReadSocketData: one chunk to the application, as much as its buffer holds,
\* with RX done when it is the last.
ReadChunk ==
  /\ pc = "read"
  /\ LET size == g_sockets[reading.sock].userBufSize
         read == Min({reading.left, size})
     IN  reading' = [reading EXCEPT !.left = @ - read,
                       !.rxDone = IF reading.left <= size THEN @ + 1 ELSE @]
  /\ Deliver("RECV", reading.sock, reading.serial, "read")
  /\ UNCHANGED <<host, owed>>

\* Back in ReadSocketData: the rest of a message whose socket is closed is
\* given up with RX done (counted up to two), but the loop goes on.
ChunkEnd ==
  /\ pc = "callback" /\ ret = "read"
  /\ IF reading.left = 0
       THEN /\ pc' = "superloop" /\ ret' = "done"
            /\ reading' = [reading EXCEPT !.sock = 0, !.serial = 0]
       ELSE /\ pc' = "read"
            /\ reading' = [reading EXCEPT !.rxDone =
                 IF ~g_sockets[reading.sock].isUsed /\ @ < 2 THEN @ + 1 ELSE @]
            /\ UNCHANGED ret
  /\ event' = NoEvent
  /\ UNCHANGED <<host, owed>>

HandlerReturn ==
  /\ pc = "callback" /\ ret = "done"
  /\ pc' = "superloop"
  /\ event' = NoEvent
  /\ UNCHANGED <<host, ret, reading, owed>>

Handler ==
  \/ BindReply \/ ListenReply \/ AcceptReply \/ AcceptRunsOn \/ ConnectReply
  \/ SendReply \/ RecvReply \/ ReadChunk \/ ChunkEnd \/ HandlerReturn

Next == AppCall \/ CallbackCall \/ Handler

Spec == Init /\ [][Next]_vars

\* The application's callbacks return, and the driver goes on from there.
FairSpec == Spec /\ WF_vars(ReadChunk) /\ WF_vars(ChunkEnd)
-----------------------------------------------------------------------------
(* Properties.                                                             *)

\* A socket has a session identifier exactly while it is in use, also when the
\* 16-bit counter wraps: a late reply that names a session never matches a
\* closed socket (wf_socket.c:174-180, 363-373, 610-622).
ClosedHaveNoSession ==
  \A s \in Socket : g_sockets[s].isUsed <=> g_sockets[s].sessionId # 0

\* Sockets in use at the same time, opened here or by a peer, have different
\* session identifiers, unless SessionMod - 1 or more were opened from the one
\* to the other (wf_socket.c:170-180, 363-373).
SessionsDistinct ==
  \A s, t \in Socket :
    serial[s] # 0 /\ serial[s] < serial[t] /\ serial[t] - serial[s] < SessionMod - 1
      => g_sockets[s].sessionId # g_sockets[t].sessionId

\* The application is told of data received and sent only for the session
\* that asked, whatever was closed and opened in between, up to the same limit
\* (wf_socket.c:236-269, 290-299).
DataOfOwnSession ==
  event.msg \in {"SEND", "RECV"} =>
    \/ event.serial = event.open
    \/ event.open - event.serial >= SessionMod - 1

\* A socket marked as waiting for data has a receive the firmware will answer,
\* so that a recv which sends nothing is served all the same
\* (wf_socket.c:568-595).  wf_socket.h:565 says "this function can be called to
\* await incoming data".
PendingIsAsked ==
  \A s \in Socket :
    g_sockets[s].isRecvPending =>
      [kind |-> "recv", sock |-> s, serial |-> serial[s],
       sessionId |-> g_sockets[s].sessionId] \in owed

\* A message whose data was read out was released exactly once, with its last
\* chunk (wf_socket.c:97-113).
DataReleasedOnce ==
  /\ reading.rxDone <= 1
  /\ pc = "superloop" => reading.left = 0 /\ reading.rxDone = 1

\* ReadSocketData returns, whatever the callback does with the buffer
\* (wf_socket.c:98-128).
ReadingEnds == pc = "read" ~> pc = "superloop"
=============================================================================
