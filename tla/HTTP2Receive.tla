---------------------------- MODULE HTTP2Receive ----------------------------
(***************************************************************************)
(* The receiving side of one HTTP/2 server connection: the reader thread   *)
(* takes the peer's HEADERS, DATA, RST_STREAM and GOAWAY frames, one       *)
(* handler thread per stream reads its body and answers, and both share    *)
(* the connection state, one step per section under its lock.  Streams,    *)
(* inboxes, receive windows and what is owed to the peer are kept; what is *)
(* sent is HTTP2Send's.                                                    *)
(*                                                                         *)
(* A body piece is one byte; the pieces of a stream are numbered in the    *)
(* order they arrive.  A header block is one frame.                        *)
(***************************************************************************)
EXTENDS Integers, Sequences, FiniteSets, SequencesExt, Functions

CONSTANTS
  Ids,             \* the client's stream ids
  InitialWindow,   \* ServerConfig.initialWindowSize
  ConnWindow,      \* ServerConfig.connectionWindowSize
  MaxConcurrent,   \* ServerConfig.maxConcurrentStreams
  MaxClientResets, \* ServerConfig.maxClientResets
  Lengths,         \* what requests announce as content-length: {} or {n}
  MaxFrames        \* bound on the frames the peer sends

ASSUME ConfigAssumption ==
  /\ IsFiniteSet(Ids) /\ Ids \subseteq Nat \ {0}
  /\ {InitialWindow, ConnWindow, MaxConcurrent} \subseteq Nat \ {0}
  /\ {MaxClientResets, MaxFrames} \subseteq Nat
  /\ \A l \in Lengths : l \subseteq Nat /\ \A m, n \in l : m = n

VARIABLES
  streams,         \* the slots of the open streams
  lastClientStream, closed, resetByUs, resetByPeer,
  connRecvWindow, connUnacked, clientResets, isClosed, goingAway,
  reader,          \* the frame the reader works on, and how far it has got
  hpc,             \* where each stream's handler is
  woken,           \* whether the promise each handler waits on is resolved
  hand,            \* bytes read and not yet passed to returnWindow
  got,             \* the pieces each handler has read
  sawEnd,          \* whether it has read the end of the body
  frames,          \* frames received, to bound them
  unsettled        \* bytes a retired stream owed the connection and did not
                   \* return, less those it returned twice

conn     == <<lastClientStream, closed, resetByUs, resetByPeer, clientResets, isClosed,
              goingAway>>
window   == <<connRecvWindow, connUnacked, unsettled>>
handlers == <<hpc, woken, hand, got, sawEnd>>
vars     == <<streams, conn, window, reader, handlers, frames>>

Slot == [inbox : Seq(Nat), inboxHead : Nat, remoteDone : BOOLEAN, received : Nat,
         contentLength : Lengths, recvWindow : Int, unacked : Nat, bodyWaiter : BOOLEAN,
         headersSent : BOOLEAN, localDone : BOOLEAN]

newSlot(endStream, length) ==
  [inbox |-> <<>>, inboxHead |-> 0, remoteDone |-> endStream, received |-> 0,
   contentLength |-> length, recvWindow |-> InitialWindow, unacked |-> 0,
   bodyWaiter |-> FALSE, headersSent |-> FALSE, localDone |-> FALSE]

ReaderAt == {"next", "status", "deliver", "padding", "settle", "trailers", "error", "rst",
             "stopped"}
HandlerAt == {"none", "run", "read", "wait", "return", "throw", "finish", "look", "retire", "reset",
              "done"}

\* The reader between frames, and at a step of a frame on stream id.
IdleReader == [pc |-> "next", id |-> 0, content |-> 0, hand |-> 0, endStream |-> FALSE,
               credit |-> 0, waiter |-> FALSE]

at(pc, id) == [IdleReader EXCEPT !.pc = pc, !.id = id]

TypeOK ==
  /\ DOMAIN streams \subseteq Ids
  /\ \A id \in DOMAIN streams : streams[id] \in Slot
  /\ lastClientStream \in Nat
  /\ {closed, resetByUs, resetByPeer} \subseteq SUBSET Ids
  /\ connRecvWindow \in Int /\ connUnacked \in Nat /\ clientResets \in Nat
  /\ isClosed \in BOOLEAN /\ goingAway \in BOOLEAN
  /\ reader \in [pc : ReaderAt, id : Ids \cup {0}, content : 0..1, hand : 0..2,
                 endStream : BOOLEAN, credit : Nat, waiter : BOOLEAN]
  /\ hpc \in [Ids -> HandlerAt] /\ woken \in [Ids -> BOOLEAN]
  /\ hand \in [Ids -> 0..1] /\ got \in [Ids -> Seq(Nat)] /\ sawEnd \in [Ids -> BOOLEAN]
  /\ frames \in 0..MaxFrames /\ unsettled \in Int

Init ==
  /\ streams = <<>>
  /\ lastClientStream = 0 /\ closed = {} /\ resetByUs = {} /\ resetByPeer = {}
  /\ connRecvWindow = ConnWindow /\ connUnacked = 0 /\ clientResets = 0 /\ unsettled = 0
  /\ isClosed = FALSE /\ goingAway = FALSE
  /\ reader = IdleReader
  /\ hpc = [id \in Ids |-> "none"] /\ woken = [id \in Ids |-> FALSE]
  /\ hand = [id \in Ids |-> 0] /\ got = [id \in Ids |-> <<>>]
  /\ sawEnd = [id \in Ids |-> FALSE]
  /\ frames = 0

-----------------------------------------------------------------------------
(* Shared operations on the connection state.                              *)

open(id)  == id \in DOMAIN streams
unread(s) == Len(s.inbox) - s.inboxHead

\* What retiring a stream would have to return to the connection window.
owed(id) == IF open(id) THEN unread(streams[id]) ELSE 0

\* ConnState.retire, crediting the connection with `credit` bytes.
retire(id, credit, byUs, byPeer) ==
  /\ streams' = Restrict(streams, DOMAIN streams \ {id})
  /\ closed' = closed \cup {id}
  /\ resetByUs' = IF byUs THEN resetByUs \cup {id} ELSE resetByUs
  /\ resetByPeer' = IF byPeer THEN resetByPeer \cup {id} ELSE resetByPeer
  /\ connUnacked' = connUnacked + credit
  /\ unsettled' = unsettled + owed(id) - credit

wake(id) == woken' = [woken EXCEPT ![id] = TRUE]

\* Conn.resetStream: the whole inbox counts as unread; the waiter found in
\* the slot is woken.
resetStream(id) ==
  IF open(id)
  THEN /\ retire(id, Len(streams[id].inbox), TRUE, FALSE)
       /\ IF streams[id].bodyWaiter THEN wake(id) ELSE UNCHANGED woken
  ELSE UNCHANGED <<streams, closed, resetByUs, resetByPeer, connUnacked, unsettled, woken>>

\* Slip: returned bytes still counted as due.
creditedTwice(s, bytes) ==
  LET due == s.unacked + bytes
  IN  IF ~s.remoteDone /\ due >= InitialWindow \div 2
      THEN [s EXCEPT !.recvWindow = @ + due]
      ELSE [s EXCEPT !.unacked = due]

credited(s, bytes) ==
  LET due == s.unacked + bytes
  IN  IF ~s.remoteDone /\ due >= InitialWindow \div 2
      THEN [s EXCEPT !.recvWindow = @ + due, !.unacked = 0]
      ELSE [s EXCEPT !.unacked = due]

\* Conn.returnWindow, its WINDOW_UPDATE frames reaching the peer at once.
returnWindow(id, bytes) ==
  LET due == connUnacked + bytes
      send == due >= ConnWindow \div 2
  IN  /\ connRecvWindow' = IF send THEN connRecvWindow + due ELSE connRecvWindow
      /\ connUnacked' = IF send THEN 0 ELSE due
      /\ streams' = IF open(id) THEN [streams EXCEPT ![id] = credited(@, bytes)] ELSE streams
      /\ UNCHANGED unsettled

\* Slip: a stream the peer reset is forgotten.
statusForgets(id) ==
  CASE open(id) /\ streams[id].remoteDone /\ streams[id].localDone -> "closedNormally"
    [] open(id)                                            -> "active"
    [] ~open(id) /\ id \in resetByUs                       -> "resetByUs"
    [] ~open(id) /\ id \notin resetByPeer \cup resetByUs
         /\ id <= lastClientStream      -> "closedNormally"
    [] OTHER                                               -> "idle"

streamStatus(id) ==
  CASE open(id) /\ streams[id].remoteDone /\ streams[id].localDone -> "closedNormally"
    [] open(id)                                            -> "active"
    [] ~open(id) /\ id \in resetByUs                       -> "resetByUs"
    [] ~open(id) /\ id \in resetByPeer \ resetByUs         -> "resetByPeer"
    [] ~open(id) /\ id \notin resetByPeer \cup resetByUs
         /\ (id \in closed \/ id <= lastClientStream)      -> "closedNormally"
    [] OTHER                                               -> "idle"

-----------------------------------------------------------------------------
(* The reader: frames from the peer.                                       *)

NextFrame == reader.pc = "next" /\ frames < MaxFrames /\ frames' = frames + 1

\* The connection is closed under the write lock and every waiter woken.
close ==
  /\ isClosed' = TRUE
  /\ reader' = [reader EXCEPT !.pc = "stopped"]
  /\ woken' = [id \in Ids |-> woken[id] \/ (open(id) /\ streams[id].bodyWaiter)]

\* A new request: ignored after GOAWAY, refused at the limit, malformed,
\* too large (answered 431 and finished by the reader), or started.
OpenStream(id, endStream, length, fate) ==
  /\ NextFrame
  /\ streamStatus(id) = "idle"
  /\ reader' = reader
  /\ IF goingAway
     THEN UNCHANGED <<streams, conn, window, handlers>>
     ELSE /\ lastClientStream' = id
          /\ CASE Cardinality(DOMAIN streams) >= MaxConcurrent \/ fate = "malformed"
                  \/ (fate = "fine" /\ endStream /\ \E n \in length : n # 0)
                  -> retire(id, 0, TRUE, FALSE) /\ UNCHANGED hpc
               [] Cardinality(DOMAIN streams) < MaxConcurrent /\ fate = "large"
                  -> retire(id, 0, ~endStream, FALSE) /\ UNCHANGED hpc
               [] OTHER
                  -> /\ streams' = [i \in DOMAIN streams \cup {id} |->
                                      IF i = id THEN newSlot(endStream, length) ELSE streams[i]]
                     /\ hpc' = [hpc EXCEPT ![id] = "run"]
                     /\ UNCHANGED <<closed, resetByUs, resetByPeer, connUnacked, unsettled>>
          /\ UNCHANGED <<clientResets, isClosed, goingAway, connRecvWindow, woken, hand, got,
                         sawEnd>>

\* HEADERS on a stream that is not idle: trailers, or an error.
LateHeaders(id, endStream) ==
  /\ NextFrame
  /\ LET status == streamStatus(id) IN
     CASE status = "active" ->
            /\ reader' = at(IF streams[id].remoteDone \/ ~endStream THEN "error"
                                                                    ELSE "trailers", id)
            /\ UNCHANGED <<isClosed, woken>>
       [] status = "closedNormally" -> close
       [] status \in {"resetByUs", "resetByPeer"} -> UNCHANGED <<reader, isClosed, woken>>
       [] OTHER -> FALSE
  /\ UNCHANGED <<streams, lastClientStream, closed, resetByUs, resetByPeer, clientResets,
                 goingAway, window, hpc, hand, got, sawEnd>>

\* Slip: trailers wake nobody.
TrailersWakeNobody ==
  /\ reader.pc = "trailers"
  /\ LET id == reader.id IN
     IF open(id)
     THEN /\ streams' = [streams EXCEPT ![id].remoteDone = TRUE]
          /\ UNCHANGED woken
          /\ reader' = IF streams[id].contentLength \subseteq {streams[id].received}
                       THEN IdleReader ELSE [reader EXCEPT !.pc = "error"]
     ELSE /\ reader' = IdleReader
          /\ UNCHANGED <<streams, woken>>
  /\ UNCHANGED <<conn, window, hpc, hand, got, sawEnd, frames>>

\* Trailers end the stream before their length check resets it.
Trailers ==
  /\ reader.pc = "trailers"
  /\ LET id == reader.id IN
     IF open(id)
     THEN /\ streams' = [streams EXCEPT ![id].remoteDone = TRUE]
          /\ IF streams[id].bodyWaiter THEN wake(id) ELSE UNCHANGED woken
          /\ reader' = IF streams[id].contentLength \subseteq {streams[id].received}
                       THEN IdleReader ELSE [reader EXCEPT !.pc = "error"]
     ELSE /\ reader' = IdleReader
          /\ UNCHANGED <<streams, woken>>
  /\ UNCHANGED <<conn, window, hpc, hand, got, sawEnd, frames>>

streamError ==
  /\ reader.pc = "error"
  /\ resetStream(reader.id)
  /\ reader' = IdleReader
  /\ UNCHANGED <<lastClientStream, clientResets, isClosed, goingAway, connRecvWindow,
                 hpc, hand, got, sawEnd, frames>>

\* A frame whose own fault is a stream error: a PRIORITY of the wrong size or
\* on itself, HEADERS that depend on themselves, a WINDOW_UPDATE of zero.
BadFrame(id) ==
  /\ NextFrame
  /\ lastClientStream' \in {lastClientStream} \cup {n \in {id} : n > lastClientStream}
  /\ reader' = at("error", id)
  /\ UNCHANGED <<streams, closed, resetByUs, resetByPeer, clientResets, isClosed, goingAway,
                 window, handlers>>

\* DATA: every byte counts against the connection window first.
Data(id, content, padding, endStream) ==
  /\ NextFrame
  /\ IF content + padding > connRecvWindow
     THEN close /\ UNCHANGED connRecvWindow
     ELSE /\ connRecvWindow' = connRecvWindow - (content + padding)
          /\ reader' = [at("status", id) EXCEPT !.content = content,
                                                !.hand = content + padding,
                                                !.endStream = endStream]
          /\ UNCHANGED <<isClosed, woken>>
  /\ UNCHANGED <<streams, lastClientStream, closed, resetByUs, resetByPeer, clientResets,
                 goingAway, connUnacked, unsettled, hpc, hand, got, sawEnd>>

wrongLength(s, received, endStream) ==
  \E n \in s.contentLength : received > n \/ (endStream /\ received # n)

\* The handler may answer, finish or fail between this look and the delivery.
DataStatus ==
  /\ reader.pc = "status"
  /\ LET id     == reader.id
         status == streamStatus(id)
         bad    == /\ status = "active"
                   /\ \/ streams[id].remoteDone
                      \/ reader.hand > streams[id].recvWindow
                      \/ wrongLength(streams[id], streams[id].received + reader.content,
                                     reader.endStream)
     IN  CASE status = "idle" -> close /\ UNCHANGED <<streams, window>>
           [] status = "active" /\ ~bad ->
                /\ reader' = [reader EXCEPT !.pc = "deliver"]
                /\ UNCHANGED <<streams, window, isClosed, woken>>
           [] status = "active" /\ bad ->
                /\ returnWindow(id, reader.hand)
                /\ reader' = [reader EXCEPT !.pc = "error", !.hand = 0]
                /\ UNCHANGED <<isClosed, woken>>
           [] status \in {"resetByUs", "resetByPeer"} ->
                /\ returnWindow(id, reader.hand)
                /\ reader' = IdleReader
                /\ UNCHANGED <<isClosed, woken>>
           [] status = "closedNormally" ->
                /\ returnWindow(id, reader.hand)
                /\ isClosed' = TRUE
                /\ reader' = [reader EXCEPT !.pc = "stopped", !.hand = 0]
                /\ woken' = [i \in Ids |-> woken[i] \/ (open(i) /\ streams[i].bodyWaiter)]
  /\ UNCHANGED <<lastClientStream, closed, resetByUs, resetByPeer, clientResets, goingAway,
                 hpc, hand, got, sawEnd, frames>>

\* The slot after a DATA frame of n content bytes, h bytes in all.
delivered(s, n, h, endStream) ==
  [s EXCEPT !.inbox = IF n = 0 THEN @ ELSE Append(@, s.received + 1), !.received = @ + n,
            !.remoteDone = endStream, !.recvWindow = @ - h, !.bodyWaiter = FALSE]

\* Deliver, and take the handler's waiter, in one step; a stream retired
\* since the look takes the piece with it.
Deliver ==
  /\ reader.pc = "deliver"
  /\ LET id == reader.id
         n  == reader.content
     IN  IF open(id)
         THEN /\ streams' = [streams EXCEPT
                               ![id] = delivered(@, n, reader.hand, reader.endStream)]
              /\ IF streams[id].bodyWaiter THEN wake(id) ELSE UNCHANGED woken
              /\ UNCHANGED unsettled
         ELSE /\ unsettled' = unsettled + n
              /\ UNCHANGED <<streams, woken>>
  /\ reader' = [reader EXCEPT !.pc = "padding", !.hand = @ - reader.content]
  /\ UNCHANGED <<conn, connRecvWindow, connUnacked, hpc, hand, got, sawEnd, frames>>

\* Padding is flow-controlled but never read: it is returned now.
Padding ==
  /\ reader.pc = "padding"
  /\ IF reader.hand > 0 THEN returnWindow(reader.id, reader.hand)
                        ELSE UNCHANGED <<streams, window>>
  /\ reader' = [reader EXCEPT !.pc = "settle", !.hand = 0]
  /\ UNCHANGED <<conn, handlers, frames>>

\* A stream whose handler already finished, now complete, is retired.
Settle ==
  /\ reader.pc = "settle"
  /\ LET id == reader.id IN
     IF open(id) /\ streams[id].remoteDone /\ streams[id].localDone
     THEN retire(id, 0, FALSE, FALSE)
     ELSE UNCHANGED <<streams, closed, resetByUs, resetByPeer, connUnacked, unsettled>>
  /\ reader' = IdleReader
  /\ UNCHANGED <<lastClientStream, clientResets, isClosed, goingAway, connRecvWindow,
                 handlers, frames>>

\* RST_STREAM: the slot found by streamStatus is the one whose inbox is
\* counted and whose waiter is woken, whatever has become of it since.
RstStream(id) ==
  /\ NextFrame
  /\ LET status == streamStatus(id) IN
     CASE status = "idle" -> close
       [] status = "active" -> /\ reader' = [at("rst", id) EXCEPT
                                               !.credit = Len(streams[id].inbox),
                                               !.waiter = streams[id].bodyWaiter]
                               /\ UNCHANGED <<isClosed, woken>>
       [] OTHER -> UNCHANGED <<reader, isClosed, woken>>
  /\ UNCHANGED <<streams, lastClientStream, closed, resetByUs, resetByPeer, clientResets,
                 goingAway, window, hpc, hand, got, sawEnd>>

RstRetire ==
  /\ reader.pc = "rst"
  /\ retire(reader.id, reader.credit, FALSE, TRUE)
  /\ clientResets' = clientResets + 1
  /\ LET others == [id \in Ids |-> woken[id] \/ (id = reader.id /\ reader.waiter)]
     IN  IF clientResets' > MaxClientResets
         THEN /\ isClosed' = TRUE
              /\ reader' = at("stopped", reader.id)
              /\ woken' = [id \in Ids |-> others[id] \/ (open(id) /\ id # reader.id
                                                         /\ streams[id].bodyWaiter)]
         ELSE /\ reader' = IdleReader
              /\ woken' = others
              /\ UNCHANGED isClosed
  /\ UNCHANGED <<lastClientStream, goingAway, connRecvWindow, hpc, hand, got, sawEnd, frames>>

Goaway ==
  /\ NextFrame
  /\ goingAway' = TRUE
  /\ UNCHANGED <<streams, lastClientStream, closed, resetByUs, resetByPeer, clientResets,
                 isClosed, window, reader, handlers>>

\* End of input, or a connection error of a frame modelled elsewhere.
Stop ==
  /\ reader.pc = "next"
  /\ close
  /\ UNCHANGED <<streams, lastClientStream, closed, resetByUs, resetByPeer, clientResets,
                 goingAway, window, hpc, hand, got, sawEnd, frames>>

readLoop ==
  \/ \E id \in Ids :
       \/ \E endStream \in BOOLEAN, length \in Lengths, fate \in {"fine", "malformed", "large"} :
            OpenStream(id, endStream, length, fate)
       \/ \E endStream \in BOOLEAN : LateHeaders(id, endStream)
       \/ \E content, padding \in 0..1, endStream \in BOOLEAN :
            Data(id, content, padding, endStream)
       \/ BadFrame(id) \/ RstStream(id)
  \/ Trailers \/ streamError \/ DataStatus \/ Deliver \/ Padding \/ Settle \/ RstRetire
  \/ Goaway \/ Stop

-----------------------------------------------------------------------------
(* The handlers.                                                           *)

goto(id, from, to) == hpc[id] = from /\ hpc' = [hpc EXCEPT ![id] = to]

\* The application calls body, returns, or fails.
Call(id) ==
  /\ \E to \in {"read", "throw", "finish"} : goto(id, "run", to)
  /\ UNCHANGED <<streams, conn, window, reader, woken, hand, got, sawEnd, frames>>

\* The application responds; a response on a closed stream throws.
Respond(id, endStream) ==
  /\ IF open(id) /\ ~streams[id].headersSent
     THEN /\ hpc[id] = "run"
          /\ streams' = [streams EXCEPT ![id].headersSent = TRUE,
                                        ![id].localDone = @ \/ endStream]
          /\ UNCHANGED hpc
     ELSE goto(id, "run", "throw") /\ UNCHANGED streams
  /\ UNCHANGED <<conn, window, reader, woken, hand, got, sawEnd, frames>>

\* The slot without its first unread piece.
taken(s) == IF unread(s) = 1 THEN [s EXCEPT !.inbox = <<>>, !.inboxHead = 0]
                             ELSE [s EXCEPT !.inboxHead = @ + 1]

\* Slip: the end looked for before the buffered pieces.
readBodyEndFirst(id) ==
  /\ hpc[id] = "read"
  /\ IF isClosed \/ ~open(id)
     THEN goto(id, "read", "throw") /\ UNCHANGED <<streams, woken, hand, got, sawEnd>>
     ELSE LET s == streams[id] IN
          CASE unread(s) > 0 /\ ~s.remoteDone ->
                 /\ goto(id, "read", "return")
                 /\ got' = [got EXCEPT ![id] = Append(@, s.inbox[s.inboxHead + 1])]
                 /\ hand' = [hand EXCEPT ![id] = 1]
                 /\ streams' = [streams EXCEPT ![id] = taken(@)]
                 /\ UNCHANGED <<woken, sawEnd>>
            [] s.remoteDone ->
                 /\ goto(id, "read", "run")
                 /\ sawEnd' = [sawEnd EXCEPT ![id] = TRUE]
                 /\ UNCHANGED <<streams, woken, hand, got>>
            [] OTHER ->
                 /\ goto(id, "read", "wait")
                 /\ streams' = [streams EXCEPT ![id].bodyWaiter = TRUE]
                 /\ woken' = [woken EXCEPT ![id] = FALSE]
                 /\ UNCHANGED <<hand, got, sawEnd>>
  /\ UNCHANGED <<conn, window, reader, frames>>

readBody(id) ==
  /\ hpc[id] = "read"
  /\ IF isClosed \/ ~open(id)
     THEN goto(id, "read", "throw") /\ UNCHANGED <<streams, woken, hand, got, sawEnd>>
     ELSE LET s == streams[id] IN
          CASE unread(s) > 0 ->
                 /\ goto(id, "read", "return")
                 /\ got' = [got EXCEPT ![id] = Append(@, s.inbox[s.inboxHead + 1])]
                 /\ hand' = [hand EXCEPT ![id] = 1]
                 /\ streams' = [streams EXCEPT ![id] = taken(@)]
                 /\ UNCHANGED <<woken, sawEnd>>
            [] unread(s) = 0 /\ s.remoteDone ->
                 /\ goto(id, "read", "run")
                 /\ sawEnd' = [sawEnd EXCEPT ![id] = TRUE]
                 /\ UNCHANGED <<streams, woken, hand, got>>
            [] OTHER ->
                 /\ goto(id, "read", "wait")
                 /\ streams' = [streams EXCEPT ![id].bodyWaiter = TRUE]
                 /\ woken' = [woken EXCEPT ![id] = FALSE]
                 /\ UNCHANGED <<hand, got, sawEnd>>
  /\ UNCHANGED <<conn, window, reader, frames>>

Woken(id) ==
  /\ woken[id] /\ goto(id, "wait", "read")
  /\ UNCHANGED <<streams, conn, window, reader, woken, hand, got, sawEnd, frames>>

WaitTimesOut(id) ==
  /\ goto(id, "wait", "throw")
  /\ UNCHANGED <<streams, conn, window, reader, woken, hand, got, sawEnd, frames>>

Consumed(id) ==
  /\ goto(id, "return", "run")
  /\ returnWindow(id, hand[id])
  /\ hand' = [hand EXCEPT ![id] = 0]
  /\ UNCHANGED <<conn, reader, woken, got, sawEnd, frames>>

\* A failed handler whose response had started resets its stream.
Thrown(id) ==
  /\ goto(id, "throw", "finish")
  /\ IF open(id) /\ streams[id].headersSent
     THEN resetStream(id)
     ELSE UNCHANGED <<streams, closed, resetByUs, resetByPeer, connUnacked, unsettled, woken>>
  /\ UNCHANGED <<lastClientStream, clientResets, isClosed, goingAway, connRecvWindow, reader,
                 hand, got, sawEnd, frames>>

\* finishStream ends the response, looks at the slot, and then acts on it.
EndResponse(id) ==
  /\ IF open(id)
     THEN /\ goto(id, "finish", "look")
          /\ streams' = [streams EXCEPT ![id].headersSent = TRUE, ![id].localDone = TRUE]
     ELSE goto(id, "finish", "done") /\ UNCHANGED streams
  /\ UNCHANGED <<conn, window, reader, woken, hand, got, sawEnd, frames>>

Look(id) ==
  /\ goto(id, "look", IF ~open(id) THEN "done"
                      ELSE IF streams[id].remoteDone THEN "retire" ELSE "reset")
  /\ UNCHANGED <<streams, conn, window, reader, woken, hand, got, sawEnd, frames>>

RetireFinished(id) ==
  /\ goto(id, "retire", "done")
  /\ retire(id, 0, FALSE, FALSE)
  /\ UNCHANGED <<lastClientStream, clientResets, isClosed, goingAway, connRecvWindow, reader,
                 woken, hand, got, sawEnd, frames>>

StopBody(id) ==
  /\ goto(id, "reset", "done")
  /\ resetStream(id)
  /\ UNCHANGED <<lastClientStream, clientResets, isClosed, goingAway, connRecvWindow, reader,
                 hand, got, sawEnd, frames>>

handler(id) == \/ Call(id) \/ readBody(id) \/ Woken(id) \/ WaitTimesOut(id) \/ Consumed(id)
               \/ Thrown(id) \/ EndResponse(id) \/ Look(id)
               \/ RetireFinished(id) \/ StopBody(id)
               \/ \E endStream \in BOOLEAN : Respond(id, endStream)

Next == readLoop \/ \E id \in Ids : handler(id)

Spec == Init /\ [][Next]_vars

-----------------------------------------------------------------------------
(* Properties.                                                             *)

(* The handler reads the pieces of its body in order, each once, and sees  *)
(* the end only after the last, however its reads, the deliveries and a    *)
(* reset interleave.                                                       *)
BodyIntact ==
  \A id \in Ids :
    /\ got[id] = [i \in 1..Len(got[id]) |-> i]
    /\ open(id) => Len(got[id]) + unread(streams[id]) = streams[id].received
    /\ open(id) /\ sawEnd[id] => Len(got[id]) = streams[id].received

(* What the peer may still send on a stream, what is buffered, what the    *)
(* handler holds and what is to be returned make up the window we          *)
(* advertised: an upload neither stalls nor outgrows its buffer.  (A frame *)
(* that is about to reset the stream is returned without having been       *)
(* charged to it.)                                                         *)
StreamCredit ==
  /\ TypeOK
  /\ \A id \in DOMAIN streams :
       LET inReader == IF reader.pc = "padding" /\ reader.id = id THEN reader.hand ELSE 0
       IN  (reader.pc \in {"error", "stopped"} => reader.id # id)
             => streams[id].recvWindow + streams[id].unacked + unread(streams[id])
                  + hand[id] + inReader = InitialWindow

(* "Bytes the handler has consumed - or that were discarded - are          *)
(* returned": no byte of the connection window disappears.  (Violated: a   *)
(* finished stream is retired with its unread body.)                       *)
ConnCredit == connRecvWindow + connUnacked + reader.hand
                + SumFunctionOnSet([id \in Ids |-> owed(id) + hand[id]], Ids)

NoByteLost == ConnCredit >= ConnWindow

(* The connection's books balance at every step but for what retired       *)
(* streams left unsettled.                                                 *)
ConnBooks == ConnCredit + unsettled = ConnWindow

(* Both kinds of receive window are accounted for to the byte.             *)
CreditIsKept == StreamCredit /\ ConnBooks

(* A handler asleep in readBody whose stream is still open has nothing to  *)
(* wake up for: no piece, no end of body, no closed connection, and its    *)
(* waiter is where the next DATA will find it.                             *)
NobodySleepsOnData ==
  \A id \in DOMAIN streams :
    hpc[id] = "wait" /\ ~woken[id] =>
      unread(streams[id]) = 0 /\ ~streams[id].remoteDone /\ ~isClosed
        /\ streams[id].bodyWaiter

(* A stream id is used once: a retired stream is never open again, and its *)
(* handler is not started again.                                           *)
NeverReopened ==
  [][\A id \in Ids : /\ id \in closed => ~open(id)' /\ id \in closed'
                     /\ hpc[id] # "none" => hpc'[id] # "none"
                     /\ hpc[id] = "done" => hpc'[id] = "done"]_vars
=============================================================================
