------------------------------ MODULE HTTP2Send ------------------------------
(***************************************************************************)
(* The sending side of one HTTP/2 server connection, on streams whose      *)
(* requests have arrived: handlers respond, write and finish; send windows *)
(* pace them; the reader applies WINDOW_UPDATE, SETTINGS, RST_STREAM and   *)
(* stream errors and tears the connection down.  One step per section      *)
(* under the state lock; a frame is written in two, taking the write lock  *)
(* and handing the bytes to the transport.                                 *)
(*                                                                         *)
(* The application responds, writes its body in one call and finishes; it  *)
(* may skip what is left, return, or fail, at any point, and passes on     *)
(* what its calls throw.                                                   *)
(***************************************************************************)
EXTENDS Integers, Sequences, FiniteSets, Functions

CONSTANTS
  Ids,            \* the streams
  Body,           \* bytes a handler writes
  ConnWindow,     \* the connection's initial send window
  Initials,       \* values of the peer's SETTINGS_INITIAL_WINDOW_SIZE
  MaxFrame,       \* the peer's SETTINGS_MAX_FRAME_SIZE
  MaxWindow,      \* 2^31 - 1
  MaxUpdates      \* bound on the peer's WINDOW_UPDATE and SETTINGS frames

ASSUME BoundsAssumption ==
  /\ IsFiniteSet(Ids) /\ Ids # {}
  /\ {Body, MaxFrame, MaxWindow} \subseteq Nat \ {0}
  /\ ConnWindow \in 0..MaxWindow /\ Initials \subseteq 0..MaxWindow
  /\ MaxUpdates \in Nat

Reader == "reader"     \* as an owner of the write lock
Nobody == "nobody"

VARIABLES
  streams,             \* the slots of the open streams
  connSendWindow, peerInitialWindow, isClosed,
  writeLock,           \* who holds it
  handler,             \* each stream's handler thread
  woken,               \* whether the promise each handler waits on is resolved
  reader,              \* the reader thread
  wire,                \* what has been written on each stream
  asked,               \* bytes each application has passed to write
  issued, connIssued,  \* the most the peer has ever allowed, in bytes
  updates              \* frames from the peer, to bound them

shared == <<streams, connSendWindow, peerInitialWindow, isClosed>>
peer   == <<issued, connIssued, updates>>
vars   == <<shared, writeLock, handler, woken, reader, wire, asked, peer>>

Slot == [sendWindow : Int, sendWaiter : BOOLEAN, remoteDone : BOOLEAN,
         headersSent : BOOLEAN, localDone : BOOLEAN]

Frame == [kind : {"HEADERS", "DATA", "RST"}, bytes : 0..Body, end : BOOLEAN]

RstFrame == [kind |-> "RST", bytes |-> 0, end |-> FALSE]

newSlot(remoteDone) ==
  [sendWindow |-> peerInitialWindow, sendWaiter |-> FALSE, remoteDone |-> remoteDone,
   headersSent |-> FALSE, localDone |-> FALSE]

\* A handler in sendData has `rest` bytes to go and ends the stream with
\* them if `last`; `then` is where it goes when its call returns.
Handler == [pc : {"run", "grant", "wait", "lock", "write", "throw", "finish", "look", "retire",
                  "reset", "done"},
            rest : 0..Body, last : BOOLEAN, frame : Frame, then : {"run", "finish", "look", "done"}]

TypeOK ==
  /\ DOMAIN streams \subseteq Ids /\ \A id \in DOMAIN streams : streams[id] \in Slot
  /\ connSendWindow \in 0..MaxWindow /\ peerInitialWindow \in 0..MaxWindow
  /\ isClosed \in BOOLEAN
  /\ writeLock \in Ids \cup {Reader, Nobody}
  /\ handler \in [Ids -> Handler] /\ woken \in [Ids -> BOOLEAN]
  /\ reader \in [pc : {"next", "rst", "lock", "write", "wake", "goaway", "close", "stopped"},
                 id : Ids, waiter : BOOLEAN, then : {"next", "wake", "close"}]
  /\ wire \in [Ids -> Seq(Frame)]
  /\ asked \in [Ids -> 0..Body]
  /\ issued \in [Ids -> Nat] /\ connIssued \in Nat /\ updates \in 0..MaxUpdates

Init ==
  /\ peerInitialWindow \in Initials
  /\ streams \in [Ids -> {newSlot(remoteDone) : remoteDone \in BOOLEAN}]
  /\ connSendWindow = ConnWindow
  /\ isClosed = FALSE
  /\ writeLock = Nobody
  /\ handler = [id \in Ids |-> [pc |-> "run", rest |-> 0, last |-> FALSE, frame |-> RstFrame,
                                then |-> "run"]]
  /\ woken = [id \in Ids |-> FALSE]
  /\ reader = [pc |-> "next", id |-> CHOOSE id \in Ids : TRUE, waiter |-> FALSE, then |-> "next"]
  /\ wire = [id \in Ids |-> <<>>]
  /\ asked = [id \in Ids |-> 0]
  /\ issued = [id \in Ids |-> peerInitialWindow] /\ connIssued = ConnWindow
  /\ updates = 0

-----------------------------------------------------------------------------
(* Shared operations.                                                      *)

open(id) == id \in DOMAIN streams

\* streamStatus: END_STREAM both ways closes a stream before it is retired.
active(id) == open(id) /\ ~(streams[id].remoteDone /\ streams[id].localDone)

Lesser(m, n) == IF m < n THEN m ELSE n

retire(id) == streams' = Restrict(streams, DOMAIN streams \ {id})

\* A handler's call throws: finishStream and resetStream ignore it.
afterThrow(h) == [h EXCEPT !.pc = IF h.then = "run" THEN "throw" ELSE h.then]

moves(id, h) == handler' = [handler EXCEPT ![id] = h]

at(id, pc) == handler[id].pc = pc

goto(id, from, to) == at(id, from) /\ moves(id, [handler[id] EXCEPT !.pc = to])

-----------------------------------------------------------------------------
(* Handlers: the application.                                              *)

\* sendHeaders: the slot is marked, then the frame is written.
Respond(id, endStream) ==
  /\ at(id, "run")
  /\ LET h == handler[id] IN
     IF open(id) /\ ~streams[id].headersSent
     THEN /\ streams' = [streams EXCEPT ![id].headersSent = TRUE, ![id].localDone = @ \/ endStream]
          /\ moves(id, [h EXCEPT !.pc = "lock", !.then = "run", !.rest = 0, !.last = endStream,
                           !.frame = [kind |-> "HEADERS", bytes |-> 0, end |-> endStream]])
     ELSE moves(id, [h EXCEPT !.pc = "throw"]) /\ UNCHANGED streams
  /\ UNCHANGED <<connSendWindow, peerInitialWindow, isClosed, writeLock, woken, reader, wire,
                 asked, peer>>

answered(id) == open(id) => streams[id].headersSent

WriteBody(id) ==
  /\ at(id, "run") /\ answered(id) /\ asked[id] = 0 /\ ~handler[id].last
  /\ asked' = [asked EXCEPT ![id] = Body]
  /\ moves(id, [handler[id] EXCEPT !.pc = "grant", !.then = "run", !.rest = Body, !.last = FALSE])
  /\ UNCHANGED <<shared, writeLock, woken, reader, wire, peer>>

Finish(id) ==
  /\ at(id, "run") /\ answered(id)
  /\ moves(id, [handler[id] EXCEPT !.pc = "grant", !.then = "run", !.rest = 0, !.last = TRUE])
  /\ UNCHANGED <<shared, writeLock, woken, reader, wire, asked, peer>>

ReturnTo(id, to) ==
  /\ goto(id, "run", to)
  /\ UNCHANGED <<shared, writeLock, woken, reader, wire, asked, peer>>

Return(id) == \E to \in {"finish", "throw"} : ReturnTo(id, to)

-----------------------------------------------------------------------------
(* Handlers: sendData.                                                     *)

\* Slip: the connection window is not looked at.
GrantByStream(id) ==
  /\ at(id, "grant")
  /\ LET h == handler[id] IN
     IF isClosed \/ ~open(id) \/ streams[id].localDone
     THEN moves(id, afterThrow(h)) /\ UNCHANGED <<streams, connSendWindow, woken>>
     ELSE LET window == streams[id].sendWindow
              n      == Lesser(h.rest, Lesser(window, MaxFrame))
              end    == h.last /\ n = h.rest
          IN  CASE h.rest = 0 \/ window > 0 ->
                     /\ streams' = [streams EXCEPT ![id].sendWindow = IF h.rest = 0 THEN @ ELSE @ - n,
                                                   ![id].localDone =
                                                     IF h.rest = 0 THEN h.last ELSE end]
                     /\ connSendWindow' = IF h.rest = 0 THEN connSendWindow ELSE connSendWindow - n
                     /\ moves(id, [h EXCEPT !.pc = "lock",
                                            !.frame = [kind |-> "DATA",
                                                       bytes |-> IF h.rest = 0 THEN 0 ELSE n,
                                                       end |-> IF h.rest = 0 THEN h.last ELSE end]])
                     /\ UNCHANGED woken
                [] OTHER ->
                     /\ streams' = [streams EXCEPT ![id].sendWaiter = TRUE]
                     /\ woken' = [woken EXCEPT ![id] = FALSE]
                     /\ moves(id, [h EXCEPT !.pc = "wait"])
                     /\ UNCHANGED connSendWindow
  /\ UNCHANGED <<peerInitialWindow, isClosed, writeLock, reader, wire, asked, peer>>

Grant(id) ==
  /\ at(id, "grant")
  /\ LET h == handler[id] IN
     IF isClosed \/ ~open(id) \/ streams[id].localDone
     THEN moves(id, afterThrow(h)) /\ UNCHANGED <<streams, connSendWindow, woken>>
     ELSE LET window == Lesser(streams[id].sendWindow, connSendWindow)
              n      == Lesser(h.rest, Lesser(window, MaxFrame))
              end    == h.last /\ n = h.rest
          IN  CASE h.rest = 0 \/ window > 0 ->
                     /\ streams' = [streams EXCEPT ![id].sendWindow = IF h.rest = 0 THEN @ ELSE @ - n,
                                                   ![id].localDone =
                                                     IF h.rest = 0 THEN h.last ELSE end]
                     /\ connSendWindow' = IF h.rest = 0 THEN connSendWindow ELSE connSendWindow - n
                     /\ moves(id, [h EXCEPT !.pc = "lock",
                                            !.frame = [kind |-> "DATA",
                                                       bytes |-> IF h.rest = 0 THEN 0 ELSE n,
                                                       end |-> IF h.rest = 0 THEN h.last ELSE end]])
                     /\ UNCHANGED woken
                [] OTHER ->
                     /\ streams' = [streams EXCEPT ![id].sendWaiter = TRUE]
                     /\ woken' = [woken EXCEPT ![id] = FALSE]
                     /\ moves(id, [h EXCEPT !.pc = "wait"])
                     /\ UNCHANGED connSendWindow
  /\ UNCHANGED <<peerInitialWindow, isClosed, writeLock, reader, wire, asked, peer>>

Woken(id) ==
  /\ woken[id] /\ goto(id, "wait", "grant")
  /\ UNCHANGED <<shared, writeLock, woken, reader, wire, asked, peer>>

WaitTimesOut(id) ==
  /\ at(id, "wait") /\ moves(id, afterThrow(handler[id]))
  /\ UNCHANGED <<shared, writeLock, woken, reader, wire, asked, peer>>

-----------------------------------------------------------------------------
(* Conn.send: under the write lock, unless the connection is closed.       *)

TakeLock(id) ==
  /\ at(id, "lock") /\ writeLock = Nobody
  /\ IF isClosed
     THEN moves(id, afterThrow(handler[id])) /\ UNCHANGED writeLock
     ELSE goto(id, "lock", "write") /\ writeLock' = id
  /\ UNCHANGED <<shared, woken, reader, wire, asked, peer>>

Write(id) ==
  /\ at(id, "write")
  /\ LET h    == handler[id]
         left == h.rest - h.frame.bytes
     IN  /\ wire' = [wire EXCEPT ![id] = Append(@, h.frame)]
         /\ moves(id, [h EXCEPT !.rest = left,
                                !.pc = IF left = 0 THEN h.then ELSE "grant"])
  /\ writeLock' = Nobody
  /\ UNCHANGED <<shared, woken, reader, asked, peer>>

\* Slip: the lock is kept when the transport fails.
WriteKeepsLock(id) ==
  /\ at(id, "write")
  /\ moves(id, afterThrow(handler[id]))
  /\ UNCHANGED writeLock
  /\ UNCHANGED <<shared, woken, reader, wire, asked, peer>>

\* The transport fails: the peer is gone, or stopped reading.
WriteFails(id) ==
  /\ at(id, "write")
  /\ moves(id, afterThrow(handler[id]))
  /\ writeLock' = Nobody
  /\ UNCHANGED <<shared, woken, reader, wire, asked, peer>>

-----------------------------------------------------------------------------
(* Handlers: the end.                                                      *)

\* Conn.resetStream from the handler's own thread.
resets(id, then) ==
  /\ retire(id)
  /\ moves(id, [handler[id] EXCEPT !.pc = "lock", !.then = then, !.rest = 0, !.frame = RstFrame])

\* Slip: a failed response is ended as if complete.
ThrownEndsQuietly(id) ==
  /\ at(id, "throw")
  /\ IF open(id) /\ streams[id].headersSent /\ handler[id].rest = 0
     THEN resets(id, "finish")
     ELSE goto(id, "throw", "finish") /\ UNCHANGED streams
  /\ UNCHANGED <<connSendWindow, peerInitialWindow, isClosed, writeLock, woken, reader, wire,
                 asked, peer>>

\* A handler that failed after responding resets its stream.
Thrown(id) ==
  /\ at(id, "throw")
  /\ IF open(id) /\ streams[id].headersSent
     THEN resets(id, "finish")
     ELSE goto(id, "throw", "finish") /\ UNCHANGED streams
  /\ UNCHANGED <<connSendWindow, peerInitialWindow, isClosed, writeLock, woken, reader, wire,
                 asked, peer>>

\* finishStream: a missing response becomes 500, an open one is ended.
EndResponse(id) ==
  /\ at(id, "finish")
  /\ LET h == handler[id] IN
     CASE open(id) /\ ~streams[id].headersSent ->
            /\ streams' = [streams EXCEPT ![id].headersSent = TRUE, ![id].localDone = TRUE]
            /\ moves(id, [h EXCEPT !.pc = "lock", !.then = "look", !.rest = 0,
                            !.frame = [kind |-> "HEADERS", bytes |-> 0, end |-> TRUE]])
       [] open(id) /\ streams[id].headersSent /\ ~streams[id].localDone ->
            /\ moves(id, [h EXCEPT !.pc = "grant", !.then = "look", !.rest = 0, !.last = TRUE])
            /\ UNCHANGED streams
       [] OTHER -> moves(id, [h EXCEPT !.pc = IF open(id) THEN "look" ELSE "done"])
                   /\ UNCHANGED streams
  /\ UNCHANGED <<connSendWindow, peerInitialWindow, isClosed, writeLock, woken, reader, wire,
                 asked, peer>>

Look(id) ==
  /\ goto(id, "look", IF ~open(id) THEN "done"
                      ELSE IF streams[id].remoteDone THEN "retire" ELSE "reset")
  /\ UNCHANGED <<shared, writeLock, woken, reader, wire, asked, peer>>

RetireFinished(id) ==
  /\ goto(id, "retire", "done") /\ retire(id)
  /\ UNCHANGED <<connSendWindow, peerInitialWindow, isClosed, writeLock, woken, reader, wire,
                 asked, peer>>

StopBody(id) ==
  /\ at(id, "reset") /\ resets(id, "done")
  /\ UNCHANGED <<connSendWindow, peerInitialWindow, isClosed, writeLock, woken, reader, wire,
                 asked, peer>>

handlerStep(id) ==
  \/ Grant(id) \/ Woken(id) \/ WaitTimesOut(id) \/ TakeLock(id) \/ Write(id) \/ WriteFails(id)
  \/ Thrown(id) \/ EndResponse(id) \/ Look(id) \/ RetireFinished(id) \/ StopBody(id)

application(id) == WriteBody(id) \/ Finish(id) \/ Return(id)
                   \/ \E endStream \in BOOLEAN : Respond(id, endStream)

-----------------------------------------------------------------------------
(* The reader.                                                             *)

NextFrame == reader.pc = "next" /\ updates < MaxUpdates /\ updates' = updates + 1

Stop == reader' = [reader EXCEPT !.pc = "goaway"]

Larger(m, n) == IF m > n THEN m ELSE n

waiting == {id \in DOMAIN streams : streams[id].sendWaiter}

ConnUpdate(inc) ==
  /\ NextFrame
  /\ IF connSendWindow + inc > MaxWindow
     THEN Stop /\ UNCHANGED <<connSendWindow, connIssued, woken>>
     ELSE /\ connSendWindow' = connSendWindow + inc
          /\ connIssued' = connIssued + inc
          /\ woken' = [id \in Ids |-> woken[id] \/ id \in waiting]
          /\ UNCHANGED reader
  /\ UNCHANGED <<streams, peerInitialWindow, isClosed, writeLock, handler, wire, asked, issued>>

\* Bytes on the wire of a stream, and of the frame its handler is writing.
bytes(w)   == SumFunctionOnSet([i \in 1..Len(w) |-> w[i].bytes], 1..Len(w))
inHand(id) == IF at(id, "lock") \/ at(id, "write") THEN handler[id].frame.bytes ELSE 0
taken(id)  == bytes(wire[id]) + inHand(id)

\* What the peer now allows on a stream, given what we have taken of it.
allowed(id, window) == window + taken(id)

\* Slip: the waiting handler is not woken.
StreamUpdateSilent(id, inc) ==
  /\ NextFrame
  /\ IF ~active(id)
     THEN UNCHANGED <<streams, reader, woken, issued>>
     ELSE LET window == streams[id].sendWindow + inc IN
          IF window > MaxWindow
          THEN /\ retire(id)
               /\ reader' = [pc |-> "lock", id |-> id, waiter |-> streams[id].sendWaiter,
                             then |-> "wake"]
               /\ UNCHANGED <<woken, issued>>
          ELSE /\ streams' = [streams EXCEPT ![id].sendWindow = window]
               /\ issued' = [issued EXCEPT ![id] = Larger(@, allowed(id, window))]
               /\ UNCHANGED woken
               /\ UNCHANGED reader
  /\ UNCHANGED <<connSendWindow, peerInitialWindow, isClosed, writeLock, handler, wire, asked,
                 connIssued>>

StreamUpdate(id, inc) ==
  /\ NextFrame
  /\ IF ~active(id)
     THEN UNCHANGED <<streams, reader, woken, issued>>
     ELSE LET window == streams[id].sendWindow + inc IN
          IF window > MaxWindow
          THEN /\ retire(id)
               /\ reader' = [pc |-> "lock", id |-> id, waiter |-> streams[id].sendWaiter,
                             then |-> "wake"]
               /\ UNCHANGED <<woken, issued>>
          ELSE /\ streams' = [streams EXCEPT ![id].sendWindow = window]
               /\ issued' = [issued EXCEPT ![id] = Larger(@, allowed(id, window))]
               /\ woken' = [woken EXCEPT ![id] = @ \/ streams[id].sendWaiter]
               /\ UNCHANGED reader
  /\ UNCHANGED <<connSendWindow, peerInitialWindow, isClosed, writeLock, handler, wire, asked,
                 connIssued>>

\* SETTINGS: every open stream's window moves by the difference; overflow is
\* found when the windows have moved.
Settings(initial) ==
  /\ NextFrame
  /\ LET moved(id) == streams[id].sendWindow + initial - peerInitialWindow
         overflow  == \E id \in DOMAIN streams : moved(id) > MaxWindow
     IN  /\ streams' = [id \in DOMAIN streams |-> [streams[id] EXCEPT !.sendWindow = moved(id)]]
         /\ issued' = [id \in Ids |-> IF open(id)
                                      THEN Larger(issued[id], allowed(id, moved(id)))
                                      ELSE issued[id]]
         /\ IF overflow THEN Stop
                        ELSE reader' = [reader EXCEPT !.pc = "lock", !.waiter = FALSE,
                                                      !.then = "next"]
  /\ peerInitialWindow' = initial
  /\ woken' = [id \in Ids |-> woken[id] \/ id \in waiting]
  /\ UNCHANGED <<connSendWindow, isClosed, writeLock, handler, wire, asked, connIssued>>

\* RST_STREAM: the waiter woken is the one streamStatus found.
RstStream(id) ==
  /\ reader.pc = "next" /\ active(id)
  /\ reader' = [reader EXCEPT !.pc = "rst", !.id = id, !.waiter = streams[id].sendWaiter]
  /\ UNCHANGED <<shared, writeLock, handler, woken, wire, asked, peer>>

RstRetire ==
  /\ reader.pc = "rst"
  /\ retire(reader.id)
  /\ woken' = [woken EXCEPT ![reader.id] = @ \/ reader.waiter]
  /\ reader' = [reader EXCEPT !.pc = "next"]
  /\ UNCHANGED <<connSendWindow, peerInitialWindow, isClosed, writeLock, handler, wire, asked,
                 peer>>

\* A stream error from a frame modelled in HTTP2Receive: the stream is
\* retired, RST_STREAM written, and then its waiter woken.
streamError(id) ==
  /\ reader.pc = "next" /\ open(id)
  /\ retire(id)
  /\ reader' = [pc |-> "lock", id |-> id, waiter |-> streams[id].sendWaiter, then |-> "wake"]
  /\ UNCHANGED <<connSendWindow, peerInitialWindow, isClosed, writeLock, handler, woken, wire,
                 asked, peer>>

Wake ==
  /\ reader.pc = "wake"
  /\ woken' = [woken EXCEPT ![reader.id] = @ \/ reader.waiter]
  /\ reader' = [reader EXCEPT !.pc = "next"]
  /\ UNCHANGED <<shared, writeLock, handler, wire, asked, peer>>

EndOfInput ==
  /\ reader.pc = "next"
  /\ Stop
  /\ UNCHANGED <<shared, writeLock, handler, woken, wire, asked, peer>>

\* sendQuietly: a stream's RST_STREAM, a SETTINGS acknowledgement, GOAWAY.
ReaderTakesLock ==
  /\ reader.pc \in {"lock", "goaway"} /\ writeLock = Nobody
  /\ writeLock' = Reader
  /\ reader' = [reader EXCEPT !.pc = "write",
                              !.then = IF reader.pc = "goaway" THEN "close" ELSE @]
  /\ UNCHANGED <<shared, handler, woken, wire, asked, peer>>

ReaderWrites ==
  /\ reader.pc = "write"
  /\ writeLock' = Nobody
  /\ wire' = IF reader.then = "wake" THEN [wire EXCEPT ![reader.id] = Append(@, RstFrame)] ELSE wire
  /\ reader' = [reader EXCEPT !.pc = reader.then]
  /\ UNCHANGED <<shared, handler, woken, asked, peer>>

ReaderWriteFails ==
  /\ reader.pc = "write"
  /\ writeLock' = Nobody
  /\ reader' = [reader EXCEPT !.pc = reader.then]
  /\ UNCHANGED <<shared, handler, woken, wire, asked, peer>>

\* Slip: closed without the write lock.
closeAnyway ==
  /\ reader.pc = "close"
  /\ isClosed' = TRUE
  /\ woken' = [id \in Ids |-> woken[id] \/ id \in waiting]
  /\ reader' = [reader EXCEPT !.pc = "stopped"]
  /\ UNCHANGED <<streams, connSendWindow, peerInitialWindow, writeLock, handler, wire, asked,
                 peer>>

\* Conn.close: under the write lock; every waiter is woken.
close ==
  /\ reader.pc = "close" /\ writeLock = Nobody
  /\ isClosed' = TRUE
  /\ woken' = [id \in Ids |-> woken[id] \/ id \in waiting]
  /\ reader' = [reader EXCEPT !.pc = "stopped"]
  /\ UNCHANGED <<streams, connSendWindow, peerInitialWindow, writeLock, handler, wire, asked,
                 peer>>

readerStep == RstRetire \/ Wake \/ ReaderTakesLock \/ ReaderWrites \/ ReaderWriteFails \/ close

fromPeer == \/ \E inc \in 1..2 : ConnUpdate(inc) \/ \E id \in Ids : StreamUpdate(id, inc)
            \/ \E initial \in Initials : Settings(initial)
            \/ \E id \in Ids : RstStream(id) \/ streamError(id)
            \/ EndOfInput

Next == readerStep \/ fromPeer \/ \E id \in Ids : handlerStep(id) \/ application(id)

Spec == Init /\ [][Next]_vars

(* Threads are scheduled, timers fire, writes return, an application that  *)
(* has been given control goes on, and the write lock starves no thread    *)
(* for ever; the peer need not do anything.                                *)
FairSpec == /\ Spec /\ SF_vars(readerStep)
            /\ \A id \in Ids : SF_vars(handlerStep(id)) /\ WF_vars(application(id))

-----------------------------------------------------------------------------
(* Properties.                                                             *)

(* Both windows are respected: no more bytes are sent, or about to be,     *)
(* than the peer has at some time allowed on the stream, nor than it has   *)
(* allowed on the connection, and the connection's window never outgrows   *)
(* the largest one (TypeOK).                                               *)
WindowsRespected ==
  /\ TypeOK
  /\ \A id \in Ids : taken(id) <= issued[id]
  /\ SumFunctionOnSet([id \in Ids |-> taken(id)], Ids) <= connIssued

(* Each stream's frames are a response: HEADERS once and first, END_STREAM *)
(* at most once and last, but for RST_STREAM.                              *)
ResponseOrder ==
  \A id \in Ids : \A i \in 1..Len(wire[id]) :
    LET f == wire[id][i] IN
    /\ f.kind = "HEADERS" => \A j \in 1..(i - 1) : wire[id][j].kind = "RST"
    /\ f.kind = "DATA" => /\ \E j \in 1..(i - 1) : wire[id][j].kind = "HEADERS"
                          /\ \A j \in 1..(i - 1) : ~wire[id][j].end

(* END_STREAM vouches for the body: a stream is ended only when every byte *)
(* the application wrote is on it.                                         *)
EndMeansComplete ==
  \A id \in Ids : (\E i \in 1..Len(wire[id]) : wire[id][i].end) => bytes(wire[id]) = asked[id]

(* A response is complete exactly when it says so, and in order.           *)
WholeResponses == ResponseOrder /\ EndMeansComplete

(* A handler asleep for window on an open stream has none, its waiter is   *)
(* where the next WINDOW_UPDATE will find it, and the connection is open.  *)
NobodySleepsOnWindow ==
  \A id \in DOMAIN streams :
    at(id, "wait") /\ ~woken[id] =>
      /\ Lesser(streams[id].sendWindow, connSendWindow) <= 0
      /\ streams[id].sendWaiter /\ ~isClosed

(* Teardown: once the connection is marked closed no frame is being        *)
(* written, so the caller may free the transport.                          *)
QuietAfterClose == isClosed => writeLock = Nobody

(* Whatever the peer does or fails to do, every handler comes to its end.  *)
HandlersEnd == <>(\A id \in Ids : at(id, "done"))
=============================================================================
