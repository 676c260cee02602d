------------------------------- MODULE TCPServer -------------------------------
(***************************************************************************)
(* The WebSocket gateway (matching-engine/networking/TCPServer.cpp): one   *)
(* thread that takes bytes from any number of connections as the network   *)
(* delivers them, completes the opening handshake, cuts the stream into    *)
(* frames and the payload of the frames into orders, and hands the orders  *)
(* to the engine.                                                          *)
(*                                                                         *)
(* The bytes of a connection are a sequence of units; a unit stands for    *)
(* bytes between which no test of the code distinguishes.  A client sends  *)
(* the units of a script: the lines of a request, then frames.  A frame is *)
(*    its first byte    [op]                                               *)
(*    its second byte   [masked, wide, len]                                *)
(*    if wide, the extended length, one unit                               *)
(*    the mask, one unit                                                   *)
(*    len units of payload, MsgSize of them to an order.                   *)
(* Masking is left out, and so is the content of an order: an order is the *)
(* units it was built from.  What the kernel does is external: bytes wait  *)
(* in the socket, and an edge-triggered event is raised when some arrive.  *)
(***************************************************************************)
EXTENDS Naturals, Sequences, SequencesExt

CONSTANTS
    Conns,          \* file descriptors of connections
    Scripts,        \* what clients may send: [request, frames]
    BufferSize,     \* BUFFER_SIZE: most units one read returns
    MsgSize,        \* sizeof(OrderMessage), in units
    MaxPayload,     \* longest payload of a frame that is accepted
    MaxSessions,    \* bound on the connections that use one descriptor
    CompactAt       \* consumed units after which a buffer is compacted

ASSUME GatewayAssumption ==
    /\ BufferSize \in Nat \ {0} /\ MsgSize \in Nat \ {0}
    /\ MaxPayload \in Nat /\ CompactAt \in Nat /\ MaxSessions \in Nat

VARIABLES
    script,             \* what the client of each connection sends
    sent,               \* units sent so far
    gone,               \* has the client closed its side?
    socket,             \* units that arrived and were not read
    ready,              \* connections with a pending event
    status,             \* "backlog", "open", "closed"
    ring, read_ptr,     \* RingBuffer::data, read_ptr
    payload, payload_read_ptr,
    websocket_ready,
    running_,           \* the server thread is to go on
    stage, fd,          \* server thread: next step, connection it handles
    enqueued,           \* orders given to the engine: <<connection, order>>
    seen,               \* history: units read from each connection
    session, earlier    \* history: connections so far on a descriptor; orders
                        \* that the ones before the present one sent

clientVars == <<script, sent, gone, session, earlier>>
buffers    == <<ring, read_ptr, payload, payload_read_ptr, websocket_ready>>
serverVars == <<script, sent, gone, socket, ready, status, ring, read_ptr, payload,
                payload_read_ptr, websocket_ready, running_, stage, fd, enqueued, seen,
                session, earlier>>

-------------------------------------------------------------------------------
(* What goes over the wire. *)

Blank == [line |-> "blank"]     \* the empty line that ends a request
Key   == [line |-> "key"]       \* the line with Sec-WebSocket-Key

(* A request ends with its first empty line; a client whose request has none *)
(* has not come to its frames.                                               *)
ScriptOf(request, frames) ==
    /\ request \in Seq(ToSet(request)) /\ frames \in Seq(ToSet(frames))
    /\ \A i \in DOMAIN request : request[i] = Blank => i = Len(request)
    /\ Blank \in ToSet(request) \/ frames = << >>
    /\ \A f \in ToSet(frames) : /\ f.payload \in Seq(ToSet(f.payload))
                               /\ f.masked \in BOOLEAN /\ f.wide \in BOOLEAN

ASSUME ScriptsAssumption == \A s \in Scripts : ScriptOf(s.request, s.frames)

FrameUnits(f) ==
    <<[op |-> f.op], [masked |-> f.masked, wide |-> f.wide, len |-> Len(f.payload)]>>
    \o (IF f.wide THEN <<[length |-> Len(f.payload)]>> ELSE << >>)
    \o (IF f.masked THEN <<[mask |-> TRUE]>> ELSE << >>)
    \o f.payload

Wire(s) == s.request \o FlattenSeq([i \in DOMAIN s.frames |-> FrameUnits(s.frames[i])])

-------------------------------------------------------------------------------

ServerInit ==
    /\ script \in [Conns -> Scripts]
    /\ sent = [c \in Conns |-> 0] /\ gone = [c \in Conns |-> FALSE]
    /\ socket = [c \in Conns |-> << >>] /\ ready = {}
    /\ status = [c \in Conns |-> "backlog"]
    /\ ring = [c \in Conns |-> << >>] /\ read_ptr = [c \in Conns |-> 0]
    /\ payload = [c \in Conns |-> << >>] /\ payload_read_ptr = [c \in Conns |-> 0]
    /\ websocket_ready = [c \in Conns |-> FALSE]
    /\ running_ = TRUE /\ stage = "wait" /\ fd = CHOOSE c \in Conns : TRUE
    /\ enqueued = << >> /\ seen = [c \in Conns |-> << >>]
    /\ session = [c \in Conns |-> 1] /\ earlier = [c \in Conns |-> 0]

(* The kernel raises an event for a connection that is in the epoll set. *)
Raised(c) == IF status[c] = "open" THEN ready \cup {c} ELSE ready

(* Some more units arrive: TCP cuts the stream anywhere. *)
Arrive(c) ==
    /\ ~gone[c]
    /\ \E n \in 1..(Len(Wire(script[c])) - sent[c]) :
          /\ sent' = [sent EXCEPT ![c] = @ + n]
          /\ socket' = [socket EXCEPT ![c] =
                           @ \o SubSeq(Wire(script[c]), sent[c] + 1, sent[c] + n)]
    /\ ready' = Raised(c)
    /\ UNCHANGED <<script, gone, session, earlier, status, buffers, running_, stage, fd,
                   enqueued, seen>>

(* The client closes its side; or resets, and what was not read is lost. *)
HangUp(c) ==
    /\ ~gone[c]
    /\ gone' = [gone EXCEPT ![c] = TRUE]
    /\ socket' \in {socket, [socket EXCEPT ![c] = << >>]}
    /\ ready' = Raised(c)
    /\ UNCHANGED <<script, sent, session, earlier, status, buffers, running_, stage, fd,
                   enqueued, seen>>

(* The orders that came on a descriptor, and those of the present connection. *)
OrdersOn(c) == FlattenSeq([i \in DOMAIN enqueued |->
                   IF enqueued[i][1] = c THEN <<enqueued[i][2]>> ELSE << >>])
OrdersFrom(c) == SubSeq(OrdersOn(c), earlier[c] + 1, Len(OrdersOn(c)))

(* Another client connects, and accept gives it the closed descriptor.  The *)
(* buffers are looked up by descriptor and made when there are none.        *)
Reconnect(c) ==
    /\ status[c] = "closed"
    /\ session[c] < MaxSessions
    /\ session' = [session EXCEPT ![c] = @ + 1]
    /\ earlier' = [earlier EXCEPT ![c] = Len(OrdersOn(c))]
    /\ \E s \in Scripts : script' = [script EXCEPT ![c] = s]
    /\ sent' = [sent EXCEPT ![c] = 0] /\ gone' = [gone EXCEPT ![c] = FALSE]
    /\ socket' = [socket EXCEPT ![c] = << >>]
    /\ seen' = [seen EXCEPT ![c] = << >>]
    /\ status' = [status EXCEPT ![c] = "backlog"]
    /\ UNCHANGED <<ready, buffers, running_, stage, fd, enqueued>>

(* stop(): the flag is cleared, and the thread joined. *)
Stop ==
    /\ running_
    /\ running_' = FALSE
    /\ UNCHANGED <<clientVars, socket, ready, status, buffers, stage, fd, enqueued, seen>>

-------------------------------------------------------------------------------
(* run(), the server thread. *)

LeaveLoop ==
    /\ stage = "wait" /\ ~running_
    /\ stage' = "exited"
    /\ UNCHANGED <<clientVars, socket, ready, status, buffers, running_, fd, enqueued, seen>>

(* A connection enters the epoll set; units that wait already raise it. *)
Accept(c) ==
    /\ stage = "wait"
    /\ status[c] = "backlog"
    /\ status' = [status EXCEPT ![c] = "open"]
    /\ ready' = IF socket[c] # << >> \/ gone[c] THEN ready \cup {c} ELSE ready
    /\ UNCHANGED <<clientVars, socket, buffers, running_, stage, fd, enqueued, seen>>

(* epoll_wait returns a connection: the event is used up. *)
Wake(c) ==
    /\ stage = "wait"
    /\ c \in ready
    /\ ready' = ready \ {c}
    /\ fd' = c
    /\ stage' = "read"
    /\ UNCHANGED <<clientVars, socket, status, buffers, running_, enqueued, seen>>

(* read() returns what is there, up to BUFFER_SIZE. *)
ReadSome ==
    LET n     == IF Len(socket[fd]) < BufferSize THEN Len(socket[fd]) ELSE BufferSize
        units == SubSeq(socket[fd], 1, n)
    IN  /\ stage = "read"
        /\ n > 0
        /\ socket' = [socket EXCEPT ![fd] = SubSeq(@, n + 1, Len(@))]
        /\ ring' = [ring EXCEPT ![fd] = @ \o units]
        /\ seen' = [seen EXCEPT ![fd] = @ \o units]
        /\ stage' = IF websocket_ready[fd] THEN "frames" ELSE "handshake"
        /\ UNCHANGED <<clientVars, ready, status, read_ptr, payload, payload_read_ptr,
                       websocket_ready, running_, fd, enqueued>>

(* Wrong on purpose: a short read counts as the end, although more came. *)
ReadAgainEarly ==
    /\ stage = "read"
    /\ ~gone[fd] /\ seen[fd] # << >>
    /\ stage' = "wait"
    /\ UNCHANGED <<clientVars, socket, ready, status, buffers, running_, fd, enqueued, seen>>

(* EAGAIN: everything was read. *)
ReadAgain ==
    /\ stage = "read"
    /\ socket[fd] = << >> /\ ~gone[fd]
    /\ stage' = "wait"
    /\ UNCHANGED <<clientVars, socket, ready, status, buffers, running_, fd, enqueued, seen>>

(* Wrong on purpose: the payload that is left stays with the descriptor. *)
CloseKeepingPayload ==
    /\ status' = [status EXCEPT ![fd] = "closed"]
    /\ ready' = ready \ {fd}
    /\ ring' = [ring EXCEPT ![fd] = << >>] /\ read_ptr' = [read_ptr EXCEPT ![fd] = 0]
    /\ websocket_ready' = [websocket_ready EXCEPT ![fd] = FALSE]
    /\ UNCHANGED <<payload, payload_read_ptr>>
    /\ stage' = "wait"

(* The connection leaves the epoll set and its buffers are erased. *)
Close ==
    /\ status' = [status EXCEPT ![fd] = "closed"]
    /\ ready' = ready \ {fd}
    /\ ring' = [ring EXCEPT ![fd] = << >>] /\ read_ptr' = [read_ptr EXCEPT ![fd] = 0]
    /\ payload' = [payload EXCEPT ![fd] = << >>]
    /\ payload_read_ptr' = [payload_read_ptr EXCEPT ![fd] = 0]
    /\ websocket_ready' = [websocket_ready EXCEPT ![fd] = FALSE]
    /\ stage' = "wait"

(* The client is gone: end of stream, or an error. *)
ReadEnd ==
    /\ stage = "read"
    /\ socket[fd] = << >> /\ gone[fd]
    /\ Close
    /\ UNCHANGED <<clientVars, socket, running_, fd, enqueued, seen>>

-------------------------------------------------------------------------------
(* The handshake. *)

Unfinished ==
    /\ stage = "handshake"
    /\ Blank \notin ToSet(ring[fd])
    /\ stage' = "read"
    /\ UNCHANGED <<clientVars, socket, ready, status, buffers, running_, fd, enqueued, seen>>

HeaderSize == SelectInSeq(ring[fd], LAMBDA u : u = Blank)

NoKey ==
    /\ stage = "handshake"
    /\ Blank \in ToSet(ring[fd])
    /\ Key \notin ToSet(SubSeq(ring[fd], 1, HeaderSize))
    /\ Close
    /\ UNCHANGED <<clientVars, socket, running_, fd, enqueued, seen>>

(* The request is answered; what follows it are frames. *)
Upgrade ==
    /\ stage = "handshake"
    /\ Blank \in ToSet(ring[fd])
    /\ Key \in ToSet(SubSeq(ring[fd], 1, HeaderSize))
    /\ ring' = [ring EXCEPT ![fd] = SubSeq(@, HeaderSize + 1, Len(@))]
    /\ read_ptr' = [read_ptr EXCEPT ![fd] = 0]
    /\ websocket_ready' = [websocket_ready EXCEPT ![fd] = TRUE]
    /\ stage' = "frames"
    /\ UNCHANGED <<clientVars, socket, ready, status, payload, payload_read_ptr,
                   running_, fd, enqueued, seen>>

-------------------------------------------------------------------------------
(* One frame. *)

Avail   == Len(ring[fd]) - read_ptr[fd]
Base(i) == ring[fd][read_ptr[fd] + i + 1]           \* base[i]

(* The header is there as far as its own tests look. *)
HeaderRead == Avail >= 2 /\ (Base(1).wide => Avail >= 3)

PayloadLen == IF Base(1).wide THEN Base(2).length ELSE Base(1).len

(* Up to and including the mask. *)
HeaderLen == IF Base(1).wide THEN 4 ELSE 3

Refused == ~Base(1).masked \/ PayloadLen > MaxPayload

Complete == Avail >= HeaderLen + PayloadLen

(* Consumed units are erased once there are enough of them. *)
Compacted(buf, ptr) == IF ptr > CompactAt THEN SubSeq(buf, ptr + 1, Len(buf)) ELSE buf

Rewound(ptr) == IF ptr > CompactAt THEN 0 ELSE ptr

(* The frame is not all there: wait for more. *)
FrameIncomplete ==
    /\ stage = "frames"
    /\ HeaderRead => ~Refused /\ ~Complete
    /\ ring' = [ring EXCEPT ![fd] = Compacted(@, read_ptr[fd])]
    /\ read_ptr' = [read_ptr EXCEPT ![fd] = Rewound(@)]
    /\ stage' = "read"
    /\ UNCHANGED <<clientVars, socket, ready, status, payload, payload_read_ptr,
                   websocket_ready, running_, fd, enqueued, seen>>

(* An unmasked or oversized frame, or a close frame, ends the connection. *)
FrameCloses ==
    /\ stage = "frames"
    /\ HeaderRead
    /\ Refused \/ (Complete /\ Base(0).op = "close")
    /\ Close
    /\ UNCHANGED <<clientVars, socket, running_, fd, enqueued, seen>>

(* The payload of a binary or continuation frame goes to the orders; that   *)
(* of any other frame is skipped.                                           *)
FrameTaken ==
    /\ stage = "frames"
    /\ HeaderRead /\ ~Refused /\ Complete
    /\ Base(0).op # "close"
    /\ LET from == read_ptr[fd] + HeaderLen
       IN  IF Base(0).op \in {"binary", "continuation"}
           THEN /\ payload' = [payload EXCEPT ![fd] =
                                 @ \o SubSeq(ring[fd], from + 1, from + PayloadLen)]
                /\ stage' = "orders"
           ELSE UNCHANGED <<payload, stage>>
    /\ read_ptr' = [read_ptr EXCEPT ![fd] = @ + HeaderLen + PayloadLen]
    /\ UNCHANGED <<clientVars, socket, ready, status, ring, payload_read_ptr,
                   websocket_ready, running_, fd, enqueued, seen>>

-------------------------------------------------------------------------------
(* process_payload_orders. *)

OrderRead ==
    /\ stage = "orders"
    /\ Len(payload[fd]) - payload_read_ptr[fd] >= MsgSize
    /\ enqueued' = Append(enqueued, <<fd, SubSeq(payload[fd], payload_read_ptr[fd] + 1,
                                                 payload_read_ptr[fd] + MsgSize)>>)
    /\ payload_read_ptr' = [payload_read_ptr EXCEPT ![fd] = @ + MsgSize]
    /\ UNCHANGED <<clientVars, socket, ready, status, ring, read_ptr, payload,
                   websocket_ready, running_, stage, fd, seen>>

OrdersDone ==
    /\ stage = "orders"
    /\ Len(payload[fd]) - payload_read_ptr[fd] < MsgSize
    /\ payload' = [payload EXCEPT ![fd] = Compacted(@, payload_read_ptr[fd])]
    /\ payload_read_ptr' = [payload_read_ptr EXCEPT ![fd] = Rewound(@)]
    /\ stage' = "frames"
    /\ UNCHANGED <<clientVars, socket, ready, status, ring, read_ptr,
                   websocket_ready, running_, fd, enqueued, seen>>

-------------------------------------------------------------------------------

Server ==
    \/ LeaveLoop \/ \E c \in Conns : Accept(c) \/ Wake(c)
    \/ ReadSome \/ ReadAgain \/ ReadEnd
    \/ Unfinished \/ NoKey \/ Upgrade
    \/ FrameIncomplete \/ FrameCloses \/ FrameTaken
    \/ OrderRead \/ OrdersDone

ServerNext == Server \/ Stop \/ \E c \in Conns : Arrive(c) \/ HangUp(c) \/ Reconnect(c)

(* The thread keeps running; epoll_wait reports every ready connection: it  *)
(* returns up to MAX_EVENTS of them, in turn.                               *)
ServerSpec == /\ ServerInit /\ [][ServerNext]_serverVars
              /\ WF_serverVars(Server)
             /\ \A c \in Conns : SF_serverVars(Wake(c)) /\ SF_serverVars(Accept(c))

-------------------------------------------------------------------------------
(* Properties. *)

(* What a client said, cut at no particular place: the orders in the first  *)
(* n units of its script.  Frames count when they are complete, nothing     *)
(* refuses the connection before them, and the request was in order; the    *)
(* payloads of the binary and continuation frames, joined, are cut into     *)
(* orders of MsgSize units.                                                 *)
End(s, i) == Len(s.request) + Len(FlattenSeq([k \in 1..i |-> FrameUnits(s.frames[k])]))

Acceptable(f) == f.masked /\ Len(f.payload) <= MaxPayload /\ f.op # "close"

Taken(s, n) ==
    {i \in DOMAIN s.frames :
        /\ Key \in ToSet(s.request)
        /\ End(s, i) <= n
        /\ \A k \in 1..i : Acceptable(s.frames[k])}

OrdersIn(s, n) ==
    LET said == FlattenSeq([i \in DOMAIN s.frames |->
                    IF i \in Taken(s, n) /\ s.frames[i].op \in {"binary", "continuation"}
                    THEN s.frames[i].payload ELSE << >>])
    IN  [k \in 1..(Len(said) \div MsgSize) |->
            SubSeq(said, (k - 1) * MsgSize + 1, k * MsgSize)]

(* Wherever the network and the read buffer cut the stream -- inside the    *)
(* request, a length, a mask, an order --, whatever was compacted and which *)
(* other connections were served in between or had the descriptor before,   *)
(* the engine has exactly the orders of the units read, once and in order,  *)
(* when the thread turns to the socket again.                               *)
CutsDoNotMatter ==
    \A c \in Conns : stage \in {"wait", "read", "exited"} \/ fd # c =>
        OrdersFrom(c) = OrdersIn(script[c], Len(seen[c]))

(* The events are edge-triggered: a unit that is left in the socket when    *)
(* the handler returns would wait for the next arrival.  It never is: what  *)
(* arrives is read, or the connection or the server is closed.              *)
ArrivedIsRead ==
    \A c \in Conns : socket[c] # << >> ~>
        socket[c] = << >> \/ status[c] = "closed" \/ stage = "exited"

(* No unit is left behind unnoticed: while the server waits, an open        *)
(* connection with something to read has a pending event.                   *)
NoMissedEdge ==
    \A c \in Conns : stage = "wait" /\ status[c] = "open" /\ (socket[c] # << >> \/ gone[c])
                        => c \in ready
===============================================================================
