--------------------------- MODULE HTTP2SendProofs ---------------------------
(****************************************************************************)
(* Proofs about HTTP2Send, for any streams, bodies, windows and frame sizes *)
(* and any number of frames from the peer: windows are respected, responses *)
(* are whole, nobody sleeps on an open window, nothing is written after     *)
(* close.                                                                   *)
(*                                                                          *)
(* The inductive invariant ties three things together for each stream: what *)
(* its handler has in hand (InHand), what its wire carries (Wire) and what  *)
(* its slot records of both while it is open (SlotKnows).  Once the slot is *)
(* retired, only the frame in hand may still go out; that is safe because   *)
(* the first two do not depend on the slot.                                 *)
(****************************************************************************)
EXTENDS HTTP2Send, DataLemmas, TLAPS

(* What a wire carries.                                                     *)
onlyResets(w) == \A i \in 1..Len(w) : w[i].kind = "RST"
answers(w)    == \E i \in 1..Len(w) : w[i].kind = "HEADERS"
ended(w)      == \E i \in 1..Len(w) : w[i].end
inOrder(w)    ==
  \A i \in 1..Len(w) :
    LET f == w[i] IN
    /\ f.kind = "HEADERS" => \A j \in 1..(i - 1) : w[j].kind = "RST"
    /\ f.kind = "DATA" => /\ \E j \in 1..(i - 1) : w[j].kind = "HEADERS"
                          /\ \A j \in 1..(i - 1) : ~w[j].end

(* Where a handler is: in sendData, with a frame in hand, or in a call (or  *)
(* between two) of the application's.                                       *)
sending(h) == h.pc \in {"grant", "wait", "lock", "write"}
writing(h) == h.pc \in {"lock", "write"}
mayRun(h)  == h.pc = "run" \/ (sending(h) /\ h.then = "run")

(* What a handler h is about to put on the wire w of its stream, of which   *)
(* the application has written n bytes.                                     *)
InHand(h, w, n) ==
  /\ sending(h) /\ h.last => h.rest = 0
  /\ h.pc \in {"grant", "wait"} => h.then \in {"run", "look"}
  /\ writing(h) => h.frame.bytes <= h.rest
  /\ writing(h) /\ h.frame.kind = "RST" =>
       h.frame = RstFrame /\ h.rest = 0 /\ h.then \in {"finish", "done"}
  /\ writing(h) /\ h.frame.kind # "RST" =>
       /\ bytes(w) + h.rest = n
       /\ h.frame.end => h.rest = h.frame.bytes /\ (h.then = "run" => h.last)
       /\ h.then \in {"run", "look"}
  /\ writing(h) /\ h.frame.kind = "HEADERS" => onlyResets(w) /\ h.rest = 0
  /\ writing(h) /\ h.frame.kind = "DATA" => answers(w) /\ ~ended(w)

(* The wire is in order, and ended only by a handler that has nothing left  *)
(* to write.                                                                *)
Wire(h, w, n) ==
  /\ inOrder(w)
  /\ ended(w) => bytes(w) = n /\ (mayRun(h) => h.last)

(* What the slot s of an open stream knows of them.                         *)
SlotKnows(s, h, w, n) ==
  /\ ~(writing(h) /\ h.frame.kind = "RST")
  /\ ~s.headersSent => onlyResets(w) /\ ~ended(w) /\ bytes(w) = 0 /\ n = 0 /\ ~sending(h)
  /\ ~s.localDone => ~ended(w) /\ (writing(h) => ~h.frame.end)
  /\ s.headersSent /\ h.pc \in {"run", "grant", "wait", "finish"} => answers(w)
  /\ h.pc \in {"run", "finish"} => bytes(w) = n
  /\ h.pc \in {"grant", "wait"} => bytes(w) + h.rest = n

Response(id) ==
  /\ InHand(handler[id], wire[id], asked[id])
  /\ Wire(handler[id], wire[id], asked[id])
  /\ open(id) => SlotKnows(streams[id], handler[id], wire[id], asked[id])

(* What remains of a window is what the peer has allowed and not been sent. *)
Window(id) ==
  /\ taken(id) <= issued[id]
  /\ open(id) => taken(id) + streams[id].sendWindow <= issued[id]

(* Who sleeps found a window empty, and left a waiter.                      *)
Asleep(id) ==
  open(id) /\ at(id, "wait") /\ ~woken[id] =>
    /\ Lesser(streams[id].sendWindow, connSendWindow) <= 0
    /\ streams[id].sendWaiter /\ ~isClosed

StreamOK(id) == Response(id) /\ Window(id) /\ Asleep(id)

(* The reader closes the connection, as the last thing it does.             *)
Quiet == isClosed => reader.pc = "stopped" /\ writeLock = Nobody

ConnWindowOK ==
  SumFunctionOnSet([id \in Ids |-> taken(id)], Ids) + connSendWindow <= connIssued

Inductive == TypeOK /\ Quiet /\ ConnWindowOK /\ \A id \in Ids : StreamOK(id)

-----------------------------------------------------------------------------
(* Frames and the wire.                                                     *)
LEMMA FrameFields ==
  ASSUME NEW f \in Frame
  PROVE  f.kind \in {"HEADERS", "DATA", "RST"} /\ f.bytes \in Nat /\ f.end \in BOOLEAN
BY DEF Frame

LEMMA RstFrameType == RstFrame \in Frame /\ RstFrame.kind = "RST" /\ RstFrame.bytes = 0
                      /\ ~RstFrame.end
BY BoundsAssumption DEF RstFrame, Frame

LEMMA BytesType == ASSUME NEW w \in Seq(Frame) PROVE bytes(w) \in Int
<1> DEFINE g == [i \in 1..Len(w) |-> w[i].bytes]
<1>1. \A i \in 1..Len(w) : g[i] \in Int
  BY FrameFields
<1> HIDE DEF g
<1>2. IsFiniteSet(1..Len(w))
  BY FS_Interval
<1> QED BY <1>1, <1>2, SumType DEF bytes, g

LEMMA BytesEmpty == bytes(<<>>) = 0
<1>1. 1..Len(<<>>) = {}
  OBVIOUS
<1> QED BY <1>1, SumEmpty DEF bytes

LEMMA BytesAppend ==
  ASSUME NEW w \in Seq(Frame), NEW f \in Frame
  PROVE  bytes(Append(w, f)) = bytes(w) + f.bytes
<1> DEFINE v == Append(w, f)
           n == Len(w)
           g == [i \in 1..n |-> w[i].bytes]
           k == [i \in 1..(n + 1) |-> v[i].bytes]
<1>1. n \in Nat /\ v \in Seq(Frame) /\ Len(v) = n + 1
      /\ \A i \in 1..n : v[i] = w[i]
  OBVIOUS
<1>2. v[n + 1] = f
  OBVIOUS
<1>3. IsFiniteSet(1..(n + 1)) /\ n + 1 \in 1..(n + 1) /\ (1..(n + 1)) \ {n + 1} = 1..n
  <2>1. 1 \in Int /\ n + 1 \in Int
    BY <1>1
  <2>2. IsFiniteSet(1..(n + 1))
    BY <2>1, FS_Interval
  <2>3. n + 1 \in 1..(n + 1) /\ (1..(n + 1)) \ {n + 1} = 1..n
    BY <1>1
  <2> QED BY <2>2, <2>3
<1> HIDE DEF v
<1>4. \A i \in 1..(n + 1) : k[i] \in Int
  BY <1>1, FrameFields
<1>5. \A i \in 1..n : k[i] = g[i] /\ g[i] \in Int
  BY <1>1, FrameFields
<1>6. k[n + 1] = f.bytes
  BY <1>1, <1>2
<1>7. bytes(v) = SumFunctionOnSet(k, 1..(n + 1)) /\ bytes(w) = SumFunctionOnSet(g, 1..n)
  BY <1>1 DEF bytes
<1> HIDE DEF g, k, n
<1>8. SumFunctionOnSet(k, 1..(n + 1)) = k[n + 1] + SumFunctionOnSet(k, 1..n)
  <2> DEFINE D == 1..(n + 1)
             e == n + 1
  <2>1. IsFiniteSet(D) /\ e \in D /\ D \ {e} = 1..n /\ \A i \in D : k[i] \in Int
    BY <1>3, <1>4
  <2> HIDE DEF D, e
  <2>2. SumFunctionOnSet(k, D) = k[e] + SumFunctionOnSet(k, D \ {e})
    BY <2>1, SumSplit
  <2> QED BY <2>1, <2>2 DEF D, e
<1>9. SumFunctionOnSet(k, 1..n) = SumFunctionOnSet(g, 1..n)
  <2>1. IsFiniteSet(1..n)
    BY <1>1, FS_Interval
  <2> QED BY <1>5, <2>1, SumSame
<1>10. f.bytes \in Int /\ bytes(w) \in Int
  BY FrameFields, BytesType
<1> QED BY <1>6, <1>7, <1>8, <1>9, <1>10 DEF v

LEMMA Appended ==
  ASSUME NEW w \in Seq(Frame), NEW f \in Frame
  PROVE  LET v == Append(w, f) IN
         /\ v \in Seq(Frame)
         /\ onlyResets(v) <=> onlyResets(w) /\ f.kind = "RST"
         /\ answers(v) <=> answers(w) \/ f.kind = "HEADERS"
         /\ ended(v) <=> ended(w) \/ f.end
         /\ inOrder(v) <=> /\ inOrder(w)
                           /\ f.kind = "HEADERS" => onlyResets(w)
                           /\ f.kind = "DATA" => answers(w) /\ ~ended(w)
<1> DEFINE v == Append(w, f)
           n == Len(w)
<1>1. n \in Nat /\ v \in Seq(Frame) /\ Len(v) = n + 1 /\ v[n + 1] = f
      /\ \A i \in 1..n : v[i] = w[i]
  OBVIOUS
<1>2. \A i \in 1..(n + 1) : i \in 1..n \/ i = n + 1
  BY <1>1
<1>3. 1..n \subseteq 1..(n + 1) /\ n + 1 \in 1..(n + 1)
  BY <1>1
<1> HIDE DEF v
<1>4. onlyResets(v) <=> onlyResets(w) /\ f.kind = "RST"
  BY <1>1, <1>2, <1>3 DEF onlyResets
<1>5. answers(v) <=> answers(w) \/ f.kind = "HEADERS"
  BY <1>1, <1>2, <1>3 DEF answers
<1>6. ended(v) <=> ended(w) \/ f.end
  BY <1>1, <1>2, <1>3 DEF ended
<1>7. inOrder(v) <=> /\ inOrder(w)
                     /\ f.kind = "HEADERS" => onlyResets(w)
                     /\ f.kind = "DATA" => answers(w) /\ ~ended(w)
  <2> DEFINE P(u, i) ==
        /\ u[i].kind = "HEADERS" => \A j \in 1..(i - 1) : u[j].kind = "RST"
        /\ u[i].kind = "DATA" => /\ \E j \in 1..(i - 1) : u[j].kind = "HEADERS"
                                 /\ \A j \in 1..(i - 1) : ~u[j].end
  <2>1. inOrder(v) <=> \A i \in 1..(n + 1) : P(v, i)
    BY <1>1 DEF inOrder
  <2>2. inOrder(w) <=> \A i \in 1..n : P(w, i)
    BY DEF inOrder
  <2>3. \A i \in 1..n : P(v, i) <=> P(w, i)
    <3> SUFFICES ASSUME NEW i \in 1..n PROVE P(v, i) <=> P(w, i)
      OBVIOUS
    <3>1. v[i] = w[i] /\ \A j \in 1..(i - 1) : v[j] = w[j]
      BY <1>1
    <3> QED BY <3>1
  <2>4. P(v, n + 1) <=> /\ f.kind = "HEADERS" => onlyResets(w)
                        /\ f.kind = "DATA" => answers(w) /\ ~ended(w)
    <3>1. (n + 1) - 1 = n
      BY <1>1
    <3> QED BY <1>1, <3>1 DEF onlyResets, answers, ended
  <2> HIDE DEF P
  <2> QED BY <1>2, <1>3, <2>1, <2>2, <2>3, <2>4
<1> QED BY <1>1, <1>4, <1>5, <1>6, <1>7 DEF v

LEMMA EmptyWire == onlyResets(<<>>) /\ ~answers(<<>>) /\ ~ended(<<>>) /\ inOrder(<<>>)
BY DEF onlyResets, answers, ended, inOrder

LEMMA HandlerFields ==
  ASSUME NEW h \in Handler
  PROVE  /\ h.pc \in {"run", "grant", "wait", "lock", "write", "throw", "finish", "look", "retire",
                      "reset", "done"}
         /\ h.rest \in 0..Body /\ h.last \in BOOLEAN /\ h.frame \in Frame
         /\ h.then \in {"run", "finish", "look", "done"}
         /\ h.frame.bytes \in Nat /\ h.rest \in Nat
BY BoundsAssumption, FrameFields DEF Handler

LEMMA SlotFields ==
  ASSUME NEW s \in Slot
  PROVE  /\ s.sendWindow \in Int
         /\ {s.sendWaiter, s.remoteDone, s.headersSent, s.localDone} \subseteq BOOLEAN
BY DEF Slot

-----------------------------------------------------------------------------
(* What a step leaves alone.                                                *)
Still(i) ==
  /\ open(i)' = open(i) /\ (open(i) => streams'[i] = streams[i])
  /\ handler'[i] = handler[i] /\ wire'[i] = wire[i] /\ asked'[i] = asked[i]
  /\ issued'[i] = issued[i] /\ (woken[i] => woken'[i])
  /\ \/ connSendWindow' <= connSendWindow /\ isClosed' = isClosed
     \/ open(i) /\ streams[i].sendWaiter => woken'[i]

LEMMA LesserLess ==
  ASSUME NEW m \in Int, NEW n \in Int, NEW k \in Int, n <= m, Lesser(k, m) <= 0
  PROVE  Lesser(k, n) <= 0
BY DEF Lesser

LEMMA TakenType ==
  ASSUME TypeOK, NEW i \in Ids
  PROVE  taken(i) \in Int /\ bytes(wire[i]) \in Int /\ inHand(i) \in Nat
<1>1. wire[i] \in Seq(Frame) /\ handler[i] \in Handler
  BY DEF TypeOK
<1> QED BY <1>1, BytesType, HandlerFields DEF taken, inHand

LEMMA TakenTypeNext ==
  ASSUME TypeOK', NEW i \in Ids
  PROVE  taken(i)' \in Int
<1>1. wire'[i] \in Seq(Frame) /\ handler'[i] \in Handler
  BY DEF TypeOK
<1>2. bytes(wire'[i]) \in Int /\ handler'[i].frame.bytes \in Int
  BY <1>1, BytesType, HandlerFields
<1> QED BY <1>2 DEF taken, inHand, at, bytes

LEMMA StillTaken ==
  ASSUME NEW i \in Ids, handler'[i] = handler[i], wire'[i] = wire[i]
  PROVE  taken(i)' = taken(i)
BY DEF taken, inHand, at, bytes

LEMMA StillOK ==
  ASSUME TypeOK, connSendWindow' \in Int, NEW i \in Ids, StreamOK(i), Still(i)
  PROVE  StreamOK(i)'
<1>1. Response(i)'
  BY DEF StreamOK, Still, Response, open
<1>2. taken(i)' = taken(i)
  BY StillTaken DEF Still
<1>3. Window(i)'
  BY <1>2 DEF StreamOK, Still, Window, open
<1>4. Asleep(i)'
  <2> SUFFICES ASSUME open(i)', at(i, "wait")', ~woken'[i]
      PROVE  /\ Lesser(streams'[i].sendWindow, connSendWindow') <= 0
             /\ streams'[i].sendWaiter /\ ~isClosed'
    BY DEF Asleep
  <2>1. /\ open(i) /\ at(i, "wait") /\ ~woken[i] /\ streams'[i] = streams[i]
    BY DEF Still, at
  <2>2. /\ Lesser(streams[i].sendWindow, connSendWindow) <= 0
        /\ streams[i].sendWaiter /\ ~isClosed
    BY <2>1 DEF StreamOK, Asleep
  <2>3. connSendWindow' <= connSendWindow /\ isClosed' = isClosed
    BY <2>1, <2>2 DEF Still
  <2>4. streams[i].sendWindow \in Int /\ connSendWindow \in Int
    BY <2>1, SlotFields DEF TypeOK, open
  <2> QED BY <2>1, <2>2, <2>3, <2>4, LesserLess
<1> QED BY <1>1, <1>3, <1>4 DEF StreamOK

(* The connection window pays for what one stream takes.                    *)
LEMMA TakenSum ==
  ASSUME TypeOK, TypeOK', ConnWindowOK, NEW a \in Ids,
         \A i \in Ids \ {a} : taken(i)' = taken(i),
         taken(a)' + connSendWindow' + connIssued <= taken(a) + connSendWindow + connIssued'
  PROVE  ConnWindowOK'
<1> DEFINE f == [i \in Ids |-> taken(i)]
           g == [i \in Ids |-> taken(i)']
           F == SumFunctionOnSet(f, Ids)
           G == SumFunctionOnSet(g, Ids)
<1>1. \A i \in Ids : f[i] \in Int /\ g[i] \in Int
  BY TakenType, TakenTypeNext
<1>2. \A i \in Ids \ {a} : f[i] = g[i]
  OBVIOUS
<1>3. f[a] = taken(a) /\ g[a] = taken(a)'
  OBVIOUS
<1>4. ConnWindowOK => F + connSendWindow <= connIssued
  BY DEF ConnWindowOK
<1>5. (G + connSendWindow' <= connIssued') => ConnWindowOK'
  BY DEF ConnWindowOK
<1> HIDE DEF f, g
<1>6. F \in Int /\ G \in Int /\ G = F - f[a] + g[a]
  BY <1>1, <1>2, BoundsAssumption, SumType, SumChange
<1> HIDE DEF F, G
<1>7. {connSendWindow, connSendWindow', connIssued, connIssued', taken(a), taken(a)'} \subseteq Int
  <2>1. connSendWindow \in Int /\ connIssued \in Int
    BY DEF TypeOK
  <2>2. connSendWindow' \in Int /\ connIssued' \in Int
    BY DEF TypeOK
  <2> QED BY <2>1, <2>2, TakenType, TakenTypeNext
<1> DEFINE t == taken(a)
           u == taken(a)'
<1>8. t \in Int /\ u \in Int /\ G = F - t + u
      /\ u + connSendWindow' + connIssued <= t + connSendWindow + connIssued'
  BY <1>3, <1>6, <1>7
<1> HIDE DEF t, u
<1>9. G + connSendWindow' <= connIssued'
  BY <1>4, <1>6, <1>7, <1>8
<1> QED BY <1>5, <1>9

-----------------------------------------------------------------------------
(* The handlers' steps.                                                     *)
LEMMA TypedHandler ==
  ASSUME TypeOK, NEW a \in Ids
  PROVE  /\ handler[a] \in Handler /\ wire[a] \in Seq(Frame) /\ asked[a] \in 0..Body
         /\ open(a) => streams[a] \in Slot
BY DEF TypeOK, open

LEMMA HandlerStep ==
  ASSUME Inductive, NEW a \in Ids,
         UNCHANGED <<peerInitialWindow, isClosed, reader, issued, connIssued, updates>>,
         NEW h, handler' = [handler EXCEPT ![a] = h], h \in Handler,
         woken' \in [Ids -> BOOLEAN], \A i \in Ids \ {a} : woken'[i] = woken[i],
         asked' \in [Ids -> 0..Body], \A i \in Ids \ {a} : asked'[i] = asked[i],
         wire' \in [Ids -> Seq(Frame)], \A i \in Ids \ {a} : wire'[i] = wire[i],
         writeLock' \in {writeLock, Nobody, a}, isClosed => writeLock' \in {writeLock, Nobody},
         \/ streams' = streams
         \/ streams' = Restrict(streams, DOMAIN streams \ {a})
         \/ \E s \in Slot : open(a) /\ streams' = [streams EXCEPT ![a] = s],
         connSendWindow' \in 0..MaxWindow, connSendWindow' <= connSendWindow,
         Response(a)', Window(a)', Asleep(a)',
         taken(a)' + connSendWindow' <= taken(a) + connSendWindow
  PROVE  Inductive'
<1>0. TypeOK /\ Quiet /\ ConnWindowOK /\ \A i \in Ids : StreamOK(i)
  BY DEF Inductive
<1>1. /\ DOMAIN streams' \subseteq Ids /\ \A i \in DOMAIN streams' : streams'[i] \in Slot
      /\ \A i \in Ids \ {a} : open(i)' = open(i) /\ (open(i) => streams'[i] = streams[i])
  <2>0. DOMAIN streams \subseteq Ids /\ \A i \in DOMAIN streams : streams[i] \in Slot
    BY <1>0 DEF TypeOK
  <2>1. CASE streams' = streams
    BY <2>0, <2>1 DEF open
  <2>2. CASE streams' = Restrict(streams, DOMAIN streams \ {a})
    BY <2>0, <2>2 DEF open, Restrict
  <2>3. ASSUME NEW s \in Slot, open(a), streams' = [streams EXCEPT ![a] = s]
        PROVE  /\ DOMAIN streams' \subseteq Ids /\ \A i \in DOMAIN streams' : streams'[i] \in Slot
               /\ \A i \in Ids \ {a} : open(i)' = open(i) /\ (open(i) => streams'[i] = streams[i])
    BY <2>0, <2>3 DEF open
  <2> QED BY <2>1, <2>2, <2>3
<1>2. handler' \in [Ids -> Handler] /\ \A i \in Ids \ {a} : handler'[i] = handler[i]
  BY <1>0 DEF TypeOK
<1>3. TypeOK'
  BY <1>0, <1>1, <1>2 DEF TypeOK
<1>4. Quiet'
  BY <1>0 DEF Quiet
<1>5. \A i \in Ids \ {a} : Still(i)
  BY <1>1, <1>2 DEF Still
<1>6. \A i \in Ids \ {a} : StreamOK(i)'
  BY <1>0, <1>5, StillOK
<1>7. StreamOK(a)'
  BY DEF StreamOK
<1>8. ConnWindowOK'
  <2>1. \A i \in Ids \ {a} : taken(i)' = taken(i)
    BY <1>2, StillTaken
  <2>2. taken(a)' + connSendWindow' + connIssued <= taken(a) + connSendWindow + connIssued'
    <3>1. {taken(a), connSendWindow, connSendWindow', connIssued} \subseteq Int /\ taken(a)' \in Int
      <4>1. {connSendWindow, connSendWindow', connIssued} \subseteq Int
        BY <1>0, <1>3 DEF TypeOK
      <4> QED BY <1>0, <1>3, <4>1, TakenType, TakenTypeNext
    <3> DEFINE t == taken(a)
               u == taken(a)'
    <3>2. t \in Int /\ u \in Int /\ u + connSendWindow' <= t + connSendWindow
      BY <3>1
    <3> HIDE DEF t, u
    <3>3. u + connSendWindow' + connIssued <= t + connSendWindow + connIssued'
      BY <3>1, <3>2
    <3> QED BY <3>3 DEF t, u
  <2> QED BY <1>0, <1>3, <2>1, <2>2, TakenSum
<1> QED BY <1>3, <1>4, <1>6, <1>7, <1>8 DEF Inductive

(* A handler moves on without touching its slot, the windows or the wire.   *)
LEMMA Moves ==
  ASSUME Inductive, NEW a \in Ids,
         UNCHANGED <<peerInitialWindow, isClosed, reader, issued, connIssued, updates, streams,
                     connSendWindow, woken, wire>>,
         asked' \in [Ids -> 0..Body], \A i \in Ids \ {a} : asked'[i] = asked[i],
         NEW h, handler' = [handler EXCEPT ![a] = h], h \in Handler,
         writeLock' \in {writeLock, Nobody, a}, isClosed => writeLock' \in {writeLock, Nobody},
         InHand(h, wire[a], asked'[a]), Wire(h, wire[a], asked'[a]),
         open(a) => SlotKnows(streams[a], h, wire[a], asked'[a]),
         h.pc # "wait",
         writing(h) => writing(handler[a]) /\ h.frame = handler[a].frame
  PROVE  Inductive'
<1>0. TypeOK /\ StreamOK(a) /\ handler'[a] = h /\ handler[a] \in Handler /\ wire[a] \in Seq(Frame)
  BY DEF Inductive, TypeOK
<1>1. Response(a)'
  BY <1>0 DEF Response, open
<1>2. Asleep(a)'
  BY <1>0 DEF Asleep, at
<1>3. taken(a)' <= taken(a) /\ taken(a)' \in Int /\ taken(a) \in Int
  <2> DEFINE b == bytes(wire[a])
             m == IF writing(h) THEN h.frame.bytes ELSE 0
             n == IF writing(handler[a]) THEN handler[a].frame.bytes ELSE 0
  <2>1. b \in Int /\ m \in Nat /\ n \in Nat /\ m <= n
    BY <1>0, BytesType, HandlerFields
  <2>2. taken(a) = b + n /\ taken(a)' = b + m
    BY <1>0 DEF taken, inHand, at, writing, bytes
  <2> HIDE DEF b, m, n
  <2> QED BY <2>1, <2>2
<1>4. Window(a)'
  <2>1. /\ taken(a) <= issued[a] /\ issued[a] \in Int
        /\ open(a) => taken(a) + streams[a].sendWindow <= issued[a]
        /\ open(a) => streams[a].sendWindow \in Int
    BY <1>0, TypedHandler, SlotFields DEF StreamOK, Window, TypeOK
  <2>2. taken(a)' <= issued[a]
    BY <1>3, <2>1
  <2>3. open(a) => taken(a)' + streams[a].sendWindow <= issued[a]
    BY <1>3, <2>1
  <2> QED BY <2>2, <2>3 DEF Window, open
<1>5. connSendWindow' \in 0..MaxWindow /\ connSendWindow' <= connSendWindow
      /\ taken(a)' + connSendWindow' <= taken(a) + connSendWindow
  BY <1>0, <1>3, BoundsAssumption DEF TypeOK
<1>6. woken' \in [Ids -> BOOLEAN] /\ wire' \in [Ids -> Seq(Frame)]
  BY <1>0 DEF TypeOK
<1> QED BY <1>1, <1>2, <1>4, <1>5, <1>6, HandlerStep

(* A call that throws: what it was about to send is forgotten.              *)
LEMMA Throws ==
  ASSUME NEW h \in Handler, NEW w, NEW n, InHand(h, w, n), Wire(h, w, n), sending(h)
  PROVE  LET k == afterThrow(h) IN
         /\ k \in Handler /\ InHand(k, w, n) /\ Wire(k, w, n)
         /\ k.pc \notin {"wait", "lock", "write"}
         /\ \A s : SlotKnows(s, h, w, n) => SlotKnows(s, k, w, n)
<1> DEFINE pc == IF h.then = "run" THEN "throw" ELSE h.then
           k == [h EXCEPT !.pc = pc]
<1>1. pc \in {"throw", "finish", "look", "done"}
      /\ (pc \in {"finish", "done"} => writing(h) /\ h.frame.kind = "RST")
  BY HandlerFields DEF InHand, writing, sending
<1> HIDE DEF pc
<1>2. k \in Handler /\ k.pc = pc
  BY <1>1 DEF Handler
<1> HIDE DEF k
<1>3. ~sending(k) /\ ~writing(k) /\ ~mayRun(k)
  BY <1>1, <1>2 DEF sending, writing, mayRun
<1>4. InHand(k, w, n)
  BY <1>1, <1>2, <1>3 DEF InHand
<1>5. Wire(k, w, n)
  BY <1>3 DEF Wire
<1>6. ASSUME NEW s, SlotKnows(s, h, w, n) PROVE SlotKnows(s, k, w, n)
  BY <1>1, <1>2, <1>3, <1>6 DEF SlotKnows
<1> QED BY <1>1, <1>2, <1>4, <1>5, <1>6 DEF k, pc, afterThrow

LEMMA ThrowStep ==
  ASSUME Inductive, NEW a \in Ids, sending(handler[a]), moves(a, afterThrow(handler[a])),
         UNCHANGED <<shared, woken, reader, wire, asked, peer>>,
         writeLock' \in {writeLock, Nobody}
  PROVE  Inductive'
<1> DEFINE h == handler[a]
           k == afterThrow(h)
<1>1. h \in Handler /\ TypeOK /\ Response(a)
  BY DEF Inductive, TypeOK, StreamOK
<1>2. /\ k \in Handler /\ InHand(k, wire[a], asked[a]) /\ Wire(k, wire[a], asked[a])
      /\ k.pc \notin {"wait", "lock", "write"}
      /\ \A s : SlotKnows(s, h, wire[a], asked[a]) => SlotKnows(s, k, wire[a], asked[a])
  BY <1>1, Throws DEF Response
<1>3. open(a) => SlotKnows(streams[a], k, wire[a], asked[a])
  BY <1>1, <1>2 DEF Response
<1>4. handler' = [handler EXCEPT ![a] = k] /\ asked' \in [Ids -> 0..Body]
  BY <1>1 DEF moves, TypeOK
<1>5. UNCHANGED <<peerInitialWindow, isClosed, reader, issued, connIssued, updates, streams,
                  connSendWindow, woken, wire, asked>>
  BY DEF shared, peer
<1> HIDE DEF k
<1>6. ~writing(k)
  BY <1>2 DEF writing
<1> QED BY <1>2, <1>3, <1>4, <1>5, <1>6, Moves

(* Steps that only move the handler's program counter.                      *)
LEMMA GotoStep ==
  ASSUME Inductive, NEW a \in Ids, NEW pc \in {"throw", "finish", "look", "retire", "reset", "done"},
         moves(a, [handler[a] EXCEPT !.pc = pc]), ~writing(handler[a]),
         UNCHANGED <<shared, writeLock, woken, reader, wire, asked, peer>>,
         pc = "finish" => /\ handler[a].pc \in {"run", "throw"}
                          /\ handler[a].pc = "throw" /\ open(a) => ~streams[a].headersSent
  PROVE  Inductive'
<1> DEFINE h == handler[a]
           k == [h EXCEPT !.pc = pc]
           w == wire[a]
           n == asked[a]
<1>1. h \in Handler /\ TypeOK /\ Response(a)
  BY DEF Inductive, TypeOK, StreamOK
<1>2. k \in Handler /\ k.pc = pc /\ k.rest = h.rest /\ k.last = h.last /\ k.frame = h.frame
      /\ k.then = h.then
  BY <1>1 DEF Handler
<1>3. handler' = [handler EXCEPT ![a] = k] /\ asked' \in [Ids -> 0..Body]
  BY <1>1 DEF moves, TypeOK
<1>4. UNCHANGED <<peerInitialWindow, isClosed, reader, issued, connIssued, updates, streams,
                  connSendWindow, woken, wire, asked>>
  BY DEF shared, peer
<1> HIDE DEF k
<1>5. ~writing(k) /\ ~sending(k) /\ ~mayRun(k) /\ k.pc # "wait"
  BY <1>2 DEF writing, sending, mayRun
<1>6. InHand(k, w, n) /\ Wire(k, w, n)
  BY <1>1, <1>2, <1>5 DEF InHand, Wire, Response
<1>7. open(a) => SlotKnows(streams[a], k, w, n)
  <2> SUFFICES ASSUME open(a) PROVE SlotKnows(streams[a], k, w, n)
    OBVIOUS
  <2>1. SlotKnows(streams[a], h, w, n)
    BY <1>1 DEF Response
  <2> QED BY <1>2, <1>5, <2>1 DEF SlotKnows
<1> QED BY <1>2, <1>3, <1>4, <1>5, <1>6, <1>7, Moves

LEMMA ReturnStep ==
  ASSUME Inductive, NEW a \in Ids, Return(a) \/ Look(a)
  PROVE  Inductive'
<1>1. /\ at(a, "run") \/ at(a, "look")
      /\ UNCHANGED <<shared, writeLock, woken, reader, wire, asked, peer>>
      /\ ~writing(handler[a])
  BY DEF Return, ReturnTo, Look, goto, at, writing
<1>2. \E pc \in {"throw", "finish", "look", "retire", "reset", "done"} :
        /\ moves(a, [handler[a] EXCEPT !.pc = pc])
        /\ pc = "finish" => at(a, "run")
  BY DEF Return, ReturnTo, Look, goto
<1> QED BY <1>1, <1>2, GotoStep DEF at

LEMMA WokenStep ==
  ASSUME Inductive, NEW a \in Ids, Woken(a)
  PROVE  Inductive'
<1> DEFINE h == handler[a]
           k == [h EXCEPT !.pc = "grant"]
           w == wire[a]
           n == asked[a]
<1>1. h \in Handler /\ TypeOK /\ Response(a) /\ h.pc = "wait"
  BY DEF Inductive, TypeOK, StreamOK, Woken, goto, at
<1>2. k \in Handler /\ k.pc = "grant" /\ k.rest = h.rest /\ k.last = h.last /\ k.frame = h.frame
      /\ k.then = h.then
  BY <1>1 DEF Handler
<1>3. handler' = [handler EXCEPT ![a] = k] /\ asked' \in [Ids -> 0..Body]
  BY <1>1 DEF moves, goto, Woken, TypeOK
<1>4. UNCHANGED <<peerInitialWindow, isClosed, reader, issued, connIssued, updates, streams,
                  connSendWindow, woken, wire, asked, writeLock>>
  BY DEF shared, peer, Woken
<1> HIDE DEF k
<1>5. ~writing(k) /\ sending(k) /\ sending(h) /\ (mayRun(k) => mayRun(h))
  BY <1>1, <1>2 DEF writing, sending, mayRun
<1>6. InHand(k, w, n) /\ Wire(k, w, n)
  BY <1>1, <1>2, <1>5 DEF InHand, Wire, Response
<1>7. open(a) => SlotKnows(streams[a], k, w, n)
  <2> SUFFICES ASSUME open(a) PROVE SlotKnows(streams[a], k, w, n)
    OBVIOUS
  <2>1. SlotKnows(streams[a], h, w, n)
    BY <1>1 DEF Response
  <2> QED BY <1>1, <1>2, <1>5, <2>1 DEF SlotKnows
<1>8. k.pc # "wait"
  BY <1>2
<1> QED BY <1>2, <1>3, <1>4, <1>5, <1>6, <1>7, <1>8, Moves

LEMMA WaitTimesOutStep ==
  ASSUME Inductive, NEW a \in Ids, WaitTimesOut(a) \/ WriteFails(a)
  PROVE  Inductive'
<1>1. sending(handler[a])
  BY DEF WaitTimesOut, WriteFails, at, sending
<1> QED BY <1>1, ThrowStep DEF WaitTimesOut, WriteFails

LEMMA TakeLockStep ==
  ASSUME Inductive, NEW a \in Ids, TakeLock(a)
  PROVE  Inductive'
<1> DEFINE h == handler[a]
           k == [h EXCEPT !.pc = "write"]
           w == wire[a]
           n == asked[a]
<1>1. h \in Handler /\ TypeOK /\ Response(a) /\ h.pc = "lock" /\ sending(h)
  BY DEF Inductive, TypeOK, StreamOK, TakeLock, at, sending
<1>2. CASE isClosed
  <2>1. moves(a, afterThrow(h)) /\ writeLock' = writeLock
        /\ UNCHANGED <<shared, woken, reader, wire, asked, peer>>
    BY <1>2 DEF TakeLock
  <2> QED BY <1>1, <2>1, ThrowStep
<1>3. CASE ~isClosed
  <2>1. k \in Handler /\ k.pc = "write" /\ k.rest = h.rest /\ k.last = h.last /\ k.frame = h.frame
        /\ k.then = h.then
    BY <1>1 DEF Handler
  <2>2. handler' = [handler EXCEPT ![a] = k] /\ asked' \in [Ids -> 0..Body] /\ writeLock' = a
    BY <1>1, <1>3 DEF moves, goto, TakeLock, TypeOK
  <2>3. UNCHANGED <<peerInitialWindow, isClosed, reader, issued, connIssued, updates, streams,
                    connSendWindow, woken, wire, asked>>
    BY DEF shared, peer, TakeLock
  <2> HIDE DEF k
  <2>4. writing(k) /\ writing(h) /\ sending(k) /\ (mayRun(k) => mayRun(h)) /\ k.pc # "wait"
    BY <1>1, <2>1 DEF writing, sending, mayRun
  <2>5. InHand(k, w, n) /\ Wire(k, w, n)
    BY <1>1, <2>1, <2>4 DEF InHand, Wire, Response
  <2>6. open(a) => SlotKnows(streams[a], k, w, n)
    <3> SUFFICES ASSUME open(a) PROVE SlotKnows(streams[a], k, w, n)
      OBVIOUS
    <3>1. SlotKnows(streams[a], h, w, n)
      BY <1>1 DEF Response
    <3> QED BY <1>1, <2>1, <2>4, <3>1 DEF SlotKnows
  <2> QED BY <1>3, <2>1, <2>2, <2>3, <2>4, <2>5, <2>6, Moves
<1> QED BY <1>2, <1>3

(* The application's calls to write and finish.                             *)
LEMMA WriteBodyStep ==
  ASSUME Inductive, NEW a \in Ids, WriteBody(a)
  PROVE  Inductive'
<1> DEFINE h == handler[a]
           k == [h EXCEPT !.pc = "grant", !.then = "run", !.rest = Body, !.last = FALSE]
           w == wire[a]
           n == asked[a]
<1>1. h \in Handler /\ TypeOK /\ Response(a) /\ h.pc = "run" /\ n = 0 /\ ~h.last /\ answered(a)
  BY DEF Inductive, TypeOK, StreamOK, WriteBody, at
<1>2. k \in Handler /\ k.pc = "grant" /\ k.then = "run" /\ k.rest = Body /\ ~k.last
  <2>1. Body \in 0..Body
    BY BoundsAssumption
  <2> QED BY <1>1, <2>1 DEF Handler
<1>3. handler' = [handler EXCEPT ![a] = k] /\ asked' = [asked EXCEPT ![a] = Body]
  BY DEF moves, WriteBody
<1>4. UNCHANGED <<peerInitialWindow, isClosed, reader, issued, connIssued, updates, streams,
                  connSendWindow, woken, wire, writeLock>>
  BY DEF shared, peer, WriteBody
<1>5. asked' \in [Ids -> 0..Body] /\ asked'[a] = Body /\ \A i \in Ids \ {a} : asked'[i] = asked[i]
  BY <1>1, <1>3, BoundsAssumption DEF TypeOK
<1> HIDE DEF k
<1>6. ~writing(k) /\ sending(k) /\ k.pc # "wait"
  BY <1>2 DEF writing, sending
<1>7. InHand(k, w, Body)
  BY <1>2, <1>6 DEF InHand
<1>8. Wire(k, w, Body)
  <2>1. ~ended(w) /\ inOrder(w)
    BY <1>1 DEF Response, Wire, mayRun
  <2> QED BY <2>1 DEF Wire
<1>9. open(a) => SlotKnows(streams[a], k, w, Body)
  <2> SUFFICES ASSUME open(a) PROVE SlotKnows(streams[a], k, w, Body)
    OBVIOUS
  <2>1. SlotKnows(streams[a], h, w, n) /\ streams[a].headersSent
    BY <1>1 DEF Response, answered
  <2>2. Body \in Int
    BY BoundsAssumption
  <2> QED BY <1>1, <1>2, <1>6, <2>1, <2>2 DEF SlotKnows
<1> QED BY <1>2, <1>3, <1>4, <1>5, <1>6, <1>7, <1>8, <1>9, Moves

LEMMA FinishStep ==
  ASSUME Inductive, NEW a \in Ids, Finish(a)
  PROVE  Inductive'
<1> DEFINE h == handler[a]
           k == [h EXCEPT !.pc = "grant", !.then = "run", !.rest = 0, !.last = TRUE]
           w == wire[a]
           n == asked[a]
<1>1. h \in Handler /\ TypeOK /\ Response(a) /\ h.pc = "run" /\ answered(a) /\ bytes(w) \in Int
  BY TakenType DEF Inductive, TypeOK, StreamOK, Finish, at
<1>2. k \in Handler /\ k.pc = "grant" /\ k.then = "run" /\ k.rest = 0 /\ k.last
  <2>1. 0 \in 0..Body
    BY BoundsAssumption
  <2> QED BY <1>1, <2>1 DEF Handler
<1>3. handler' = [handler EXCEPT ![a] = k] /\ asked' \in [Ids -> 0..Body]
  BY <1>1 DEF moves, Finish, TypeOK
<1>4. UNCHANGED <<peerInitialWindow, isClosed, reader, issued, connIssued, updates, streams,
                  connSendWindow, woken, wire, asked, writeLock>>
  BY DEF shared, peer, Finish
<1> HIDE DEF k
<1>5. ~writing(k) /\ sending(k) /\ k.pc # "wait"
  BY <1>2 DEF writing, sending
<1>6. InHand(k, w, n)
  BY <1>2, <1>5 DEF InHand
<1>7. Wire(k, w, n)
  BY <1>1, <1>2 DEF Response, Wire
<1>8. open(a) => SlotKnows(streams[a], k, w, n)
  <2> SUFFICES ASSUME open(a) PROVE SlotKnows(streams[a], k, w, n)
    OBVIOUS
  <2>1. SlotKnows(streams[a], h, w, n) /\ streams[a].headersSent
    BY <1>1 DEF Response, answered
  <2> QED BY <1>1, <1>2, <1>5, <2>1 DEF SlotKnows
<1> QED BY <1>2, <1>3, <1>4, <1>5, <1>6, <1>7, <1>8, Moves


(* A step of a handler that writes nothing yet and may take n bytes of its  *)
(* windows for the frame it is about to write.                              *)
LEMMA SlotStep ==
  ASSUME Inductive, NEW a \in Ids,
         UNCHANGED <<peerInitialWindow, isClosed, writeLock, reader, wire, asked, peer>>,
         woken' \in [Ids -> BOOLEAN], \A i \in Ids \ {a} : woken'[i] = woken[i],
         NEW h, handler' = [handler EXCEPT ![a] = h], h \in Handler,
         NEW n \in Nat, ~writing(handler[a]),
         n # 0 => open(a) /\ n <= streams[a].sendWindow /\ n <= connSendWindow,
         connSendWindow' = connSendWindow - n,
         writing(h) => h.frame.bytes <= n,
         \/ streams' = streams /\ n = 0
         \/ streams' = Restrict(streams, DOMAIN streams \ {a}) /\ n = 0
         \/ \E s \in Slot : /\ open(a) /\ streams' = [streams EXCEPT ![a] = s]
                            /\ s.sendWindow = streams[a].sendWindow - n,
         InHand(h, wire[a], asked[a]), Wire(h, wire[a], asked[a]),
         open(a)' => SlotKnows(streams'[a], h, wire[a], asked[a]),
         Asleep(a)'
  PROVE  Inductive'
<1>0. /\ TypeOK /\ StreamOK(a) /\ handler'[a] = h /\ handler[a] \in Handler
      /\ wire[a] \in Seq(Frame)
  BY DEF Inductive, TypeOK
<1>1. UNCHANGED <<issued, connIssued, updates, wire, asked, reader, peerInitialWindow, isClosed,
                  writeLock>>
  BY DEF peer
<1>2. Response(a)'
  BY <1>0, <1>1 DEF Response
<1>3. /\ taken(a) \in Int /\ taken(a)' \in Int /\ taken(a)' <= taken(a) + n
  <2> DEFINE b == bytes(wire[a])
             m == IF writing(h) THEN h.frame.bytes ELSE 0
  <2>1. b \in Int /\ m \in Nat /\ m <= n
    BY <1>0, BytesType, HandlerFields
  <2>2. taken(a) = b + 0 /\ taken(a)' = b + m
    BY <1>0, <1>1 DEF taken, inHand, at, writing, bytes
  <2> HIDE DEF b, m
  <2> QED BY <2>1, <2>2
<1>4. /\ taken(a) <= issued[a] /\ issued[a] \in Int
      /\ open(a) => taken(a) + streams[a].sendWindow <= issued[a]
      /\ open(a) => streams[a].sendWindow \in Int
  BY <1>0, TypedHandler, SlotFields DEF StreamOK, Window, TypeOK
<1>5. open(a)' => /\ open(a) /\ streams'[a].sendWindow = streams[a].sendWindow - n
  <2>1. CASE streams' = streams /\ n = 0
    BY <1>4, <2>1 DEF open
  <2>2. CASE streams' = Restrict(streams, DOMAIN streams \ {a})
    BY <2>2 DEF open, Restrict
  <2>3. ASSUME NEW s \in Slot, open(a), streams' = [streams EXCEPT ![a] = s],
               s.sendWindow = streams[a].sendWindow - n
        PROVE  open(a) /\ streams'[a].sendWindow = streams[a].sendWindow - n
    BY <2>3 DEF open
  <2> QED BY <2>1, <2>2, <2>3
<1>6. Window(a)'
  <2>1. taken(a)' <= issued[a]
    <3>1. CASE n = 0
      BY <1>3, <1>4, <3>1
    <3>2. CASE n # 0
      BY <1>3, <1>4, <3>2
    <3> QED BY <3>1, <3>2
  <2>2. open(a)' => taken(a)' + streams'[a].sendWindow <= issued[a]
    BY <1>3, <1>4, <1>5
  <2> QED BY <1>1, <2>1, <2>2 DEF Window
<1>7. /\ connSendWindow' \in 0..MaxWindow /\ connSendWindow' <= connSendWindow
      /\ taken(a)' + connSendWindow' <= taken(a) + connSendWindow
  <2>1. connSendWindow \in 0..MaxWindow /\ MaxWindow \in Nat
    BY <1>0, BoundsAssumption DEF TypeOK
  <2>2. connSendWindow' \in 0..MaxWindow /\ connSendWindow' <= connSendWindow
    BY <2>1
  <2>3. taken(a)' + connSendWindow' <= taken(a) + connSendWindow
    BY <1>3, <2>1
  <2> QED BY <2>2, <2>3
<1>8. wire' \in [Ids -> Seq(Frame)] /\ asked' \in [Ids -> 0..Body]
  BY <1>0, <1>1 DEF TypeOK
<1>9. \/ streams' = streams
      \/ streams' = Restrict(streams, DOMAIN streams \ {a})
      \/ \E s \in Slot : open(a) /\ streams' = [streams EXCEPT ![a] = s]
  OBVIOUS
<1> QED BY <1>1, <1>2, <1>6, <1>7, <1>8, <1>9, HandlerStep

(* The same, when nothing is taken and nobody falls asleep.                 *)
LEMMA FreeStep ==
  ASSUME Inductive, NEW a \in Ids,
         UNCHANGED <<connSendWindow, peerInitialWindow, isClosed, writeLock, woken, reader, wire,
                     asked, peer>>,
         NEW h, handler' = [handler EXCEPT ![a] = h], h \in Handler,
         ~writing(handler[a]), h.pc # "wait", writing(h) => h.frame.bytes = 0,
         \/ streams' = streams
         \/ streams' = Restrict(streams, DOMAIN streams \ {a})
         \/ \E s \in Slot : /\ open(a) /\ streams' = [streams EXCEPT ![a] = s]
                            /\ s.sendWindow = streams[a].sendWindow,
         InHand(h, wire[a], asked[a]), Wire(h, wire[a], asked[a]),
         open(a)' => SlotKnows(streams'[a], h, wire[a], asked[a])
  PROVE  Inductive'
<1>1. TypeOK /\ handler'[a] = h /\ connSendWindow \in Int
      /\ (open(a) => streams[a].sendWindow \in Int)
  BY TypedHandler, SlotFields DEF Inductive, TypeOK
<1>2. woken' \in [Ids -> BOOLEAN] /\ connSendWindow' = connSendWindow - 0 /\ 0 \in Nat
  BY <1>1 DEF TypeOK
<1>3. \/ streams' = streams
      \/ streams' = Restrict(streams, DOMAIN streams \ {a})
      \/ \E s \in Slot : /\ open(a) /\ streams' = [streams EXCEPT ![a] = s]
                         /\ s.sendWindow = streams[a].sendWindow - 0
  BY <1>1
<1>4. Asleep(a)'
  BY <1>1 DEF Asleep, at
<1>5. writing(h) => h.frame.bytes <= 0
  OBVIOUS
<1> QED BY <1>2, <1>3, <1>4, <1>5, SlotStep

LEMMA RespondStep ==
  ASSUME Inductive, NEW a \in Ids, NEW e \in BOOLEAN, Respond(a, e)
  PROVE  Inductive'
<1> DEFINE h == handler[a]
           w == wire[a]
           n == asked[a]
           s == streams[a]
           f == [kind |-> "HEADERS", bytes |-> 0, end |-> e]
           k == [h EXCEPT !.pc = "lock", !.then = "run", !.rest = 0, !.last = e, !.frame = f]
           t == [s EXCEPT !.headersSent = TRUE, !.localDone = @ \/ e]
<1>1. h \in Handler /\ TypeOK /\ Response(a) /\ h.pc = "run"
  BY DEF Inductive, TypeOK, StreamOK, Respond, at
<1>2. UNCHANGED <<connSendWindow, peerInitialWindow, isClosed, writeLock, woken, reader, wire,
                  asked, peer>>
  BY DEF Respond
<1>3. ~writing(h)
  BY <1>1 DEF writing
<1>4. CASE open(a) /\ ~s.headersSent
  <2>1. handler' = [handler EXCEPT ![a] = k]
    BY <1>4 DEF Respond, moves
  <2>2. s \in Slot
    BY <1>1, <1>4, TypedHandler
  <2>3. t \in Slot /\ t.headersSent /\ t.localDone = (s.localDone \/ e)
        /\ t.sendWindow = s.sendWindow
    BY <2>2 DEF Slot
  <2>4. streams' = [streams EXCEPT ![a] = t]
    BY <1>4 DEF Respond, open
  <2>5. 0 \in 0..Body
    BY BoundsAssumption
  <2>6. f \in Frame /\ f.kind = "HEADERS" /\ f.bytes = 0 /\ f.end = e
    BY <2>5 DEF Frame
  <2> HIDE DEF f
  <2>7. k \in Handler /\ k.pc = "lock" /\ k.then = "run" /\ k.rest = 0 /\ k.last = e /\ k.frame = f
    BY <1>1, <2>5, <2>6 DEF Handler
  <2> HIDE DEF k, t
  <2>8. writing(k) /\ sending(k) /\ mayRun(k)
    BY <2>7 DEF writing, sending, mayRun
  <2>9. SlotKnows(s, h, w, n)
    BY <1>1, <1>4 DEF Response
  <2>10. onlyResets(w) /\ ~ended(w) /\ bytes(w) = 0 /\ n = 0
    BY <1>4, <2>9 DEF SlotKnows
  <2>11. InHand(k, w, n)
    BY <2>6, <2>7, <2>8, <2>10 DEF InHand
  <2>12. Wire(k, w, n)
    BY <1>1, <2>10 DEF Wire, Response
  <2>13. SlotKnows(t, k, w, n)
    BY <2>3, <2>6, <2>7, <2>8, <2>10 DEF SlotKnows
  <2>14. open(a)' => SlotKnows(streams'[a], k, w, n)
    BY <1>4, <2>4, <2>13 DEF open
  <2>15. \E u \in Slot : /\ open(a) /\ streams' = [streams EXCEPT ![a] = u]
                         /\ u.sendWindow = streams[a].sendWindow
    BY <1>4, <2>3, <2>4
  <2>16. k.pc # "wait" /\ k.frame.bytes = 0
    BY <2>6, <2>7
  <2> QED BY <1>2, <1>3, <2>1, <2>7, <2>11, <2>12, <2>14, <2>15, <2>16, FreeStep
<1>5. CASE ~(open(a) /\ ~s.headersSent)
  <2>1. moves(a, [h EXCEPT !.pc = "throw"]) /\ streams' = streams
    BY <1>5 DEF Respond
  <2>2. UNCHANGED <<shared, writeLock, woken, reader, wire, asked, peer>>
    BY <1>2, <2>1 DEF shared
  <2> QED BY <1>3, <2>1, <2>2, GotoStep
<1> QED BY <1>4, <1>5

(* Retiring the stream and writing RST_STREAM.                              *)
LEMMA ResetsStep ==
  ASSUME Inductive, NEW a \in Ids, NEW then \in {"finish", "done"}, resets(a, then),
         ~writing(handler[a]),
         UNCHANGED <<connSendWindow, peerInitialWindow, isClosed, writeLock, woken, reader, wire,
                     asked, peer>>
  PROVE  Inductive'
<1> DEFINE h == handler[a]
           w == wire[a]
           n == asked[a]
           k == [h EXCEPT !.pc = "lock", !.then = then, !.rest = 0, !.frame = RstFrame]
<1>1. h \in Handler /\ TypeOK /\ Response(a)
  BY DEF Inductive, TypeOK, StreamOK
<1>2. handler' = [handler EXCEPT ![a] = k] /\ streams' = Restrict(streams, DOMAIN streams \ {a})
  BY DEF resets, moves, retire
<1>3. 0 \in 0..Body /\ RstFrame \in Frame /\ RstFrame.kind = "RST" /\ RstFrame.bytes = 0
  BY BoundsAssumption, RstFrameType
<1>4. k \in Handler /\ k.pc = "lock" /\ k.then = then /\ k.rest = 0 /\ k.frame = RstFrame
  BY <1>1, <1>3 DEF Handler
<1> HIDE DEF k
<1>5. writing(k) /\ ~mayRun(k)
  BY <1>4 DEF writing, sending, mayRun
<1>6. InHand(k, w, n)
  BY <1>3, <1>4 DEF InHand
<1>7. Wire(k, w, n)
  BY <1>1, <1>5 DEF Wire, Response
<1>8. ~open(a)'
  BY <1>2 DEF open, Restrict
<1>9. k.pc # "wait" /\ k.frame.bytes = 0
  BY <1>3, <1>4
<1> QED BY <1>2, <1>4, <1>6, <1>7, <1>8, <1>9, FreeStep

LEMMA ThrownStep ==
  ASSUME Inductive, NEW a \in Ids, Thrown(a)
  PROVE  Inductive'
<1>1. handler[a].pc = "throw" /\ ~writing(handler[a])
  BY DEF Thrown, at, writing
<1>2. CASE open(a) /\ streams[a].headersSent
  BY <1>1, <1>2, ResetsStep DEF Thrown
<1>3. CASE ~(open(a) /\ streams[a].headersSent)
  <2>1. moves(a, [handler[a] EXCEPT !.pc = "finish"])
        /\ UNCHANGED <<shared, writeLock, woken, reader, wire, asked, peer>>
    BY <1>3 DEF Thrown, goto, shared
  <2> QED BY <1>1, <1>3, <2>1, GotoStep
<1> QED BY <1>2, <1>3

LEMMA StopBodyStep ==
  ASSUME Inductive, NEW a \in Ids, StopBody(a)
  PROVE  Inductive'
<1>1. ~writing(handler[a])
  BY DEF StopBody, at, writing
<1> QED BY <1>1, ResetsStep DEF StopBody

LEMMA RetireFinishedStep ==
  ASSUME Inductive, NEW a \in Ids, RetireFinished(a)
  PROVE  Inductive'
<1> DEFINE h == handler[a]
           k == [h EXCEPT !.pc = "done"]
<1>1. h \in Handler /\ TypeOK /\ Response(a) /\ ~writing(h)
  BY DEF Inductive, TypeOK, StreamOK, RetireFinished, goto, at, writing
<1>2. k \in Handler /\ k.pc = "done"
  BY <1>1 DEF Handler
<1>3. /\ handler' = [handler EXCEPT ![a] = k] /\ streams' = Restrict(streams, DOMAIN streams \ {a})
      /\ UNCHANGED <<connSendWindow, peerInitialWindow, isClosed, writeLock, woken, reader, wire,
                     asked, peer>>
  BY DEF RetireFinished, goto, moves, retire
<1> HIDE DEF k
<1>4. ~sending(k) /\ ~writing(k) /\ ~mayRun(k) /\ k.pc # "wait"
  BY <1>2 DEF sending, writing, mayRun
<1>5. InHand(k, wire[a], asked[a]) /\ Wire(k, wire[a], asked[a])
  BY <1>1, <1>2, <1>4 DEF InHand, Wire, Response
<1>6. ~open(a)'
  BY <1>3 DEF open, Restrict
<1> QED BY <1>1, <1>2, <1>3, <1>4, <1>5, <1>6, FreeStep

LEMMA EndResponseStep ==
  ASSUME Inductive, NEW a \in Ids, EndResponse(a)
  PROVE  Inductive'
<1> DEFINE h == handler[a]
           w == wire[a]
           n == asked[a]
           s == streams[a]
           f == [kind |-> "HEADERS", bytes |-> 0, end |-> TRUE]
           missing == open(a) /\ ~s.headersSent
           unended == open(a) /\ s.headersSent /\ ~s.localDone
<1>1. h \in Handler /\ TypeOK /\ Response(a) /\ h.pc = "finish" /\ ~writing(h) /\ bytes(w) \in Int
  BY TakenType DEF Inductive, TypeOK, StreamOK, EndResponse, at, writing
<1>2. UNCHANGED <<connSendWindow, peerInitialWindow, isClosed, writeLock, woken, reader, wire,
                  asked, peer>>
  BY DEF EndResponse
<1>3. 0 \in 0..Body
  BY BoundsAssumption
<1>4. open(a) => SlotKnows(s, h, w, n)
  BY <1>1 DEF Response
<1>5. CASE missing
  <2> DEFINE k == [h EXCEPT !.pc = "lock", !.then = "look", !.rest = 0, !.frame = f]
             t == [s EXCEPT !.headersSent = TRUE, !.localDone = TRUE]
  <2>1. handler' = [handler EXCEPT ![a] = k] /\ streams' = [streams EXCEPT ![a] = t]
    BY <1>5 DEF EndResponse, moves, open
  <2>2. s \in Slot
    BY <1>1, <1>5, TypedHandler
  <2>3. t \in Slot /\ t.headersSent /\ t.localDone /\ t.sendWindow = s.sendWindow
    BY <2>2 DEF Slot
  <2>4. f \in Frame /\ f.kind = "HEADERS" /\ f.bytes = 0
    BY <1>3 DEF Frame
  <2> HIDE DEF f
  <2>5. k \in Handler /\ k.pc = "lock" /\ k.then = "look" /\ k.rest = 0 /\ k.last = h.last
        /\ k.frame = f
    BY <1>1, <1>3, <2>4 DEF Handler
  <2> HIDE DEF k, t
  <2>6. writing(k) /\ sending(k) /\ ~mayRun(k)
    BY <2>5 DEF writing, sending, mayRun
  <2>7. onlyResets(w) /\ ~ended(w) /\ bytes(w) = 0 /\ n = 0
    BY <1>4, <1>5 DEF SlotKnows
  <2>8. InHand(k, w, n)
    BY <2>4, <2>5, <2>6, <2>7 DEF InHand
  <2>9. Wire(k, w, n)
    BY <1>1, <2>7 DEF Wire, Response
  <2>10. SlotKnows(t, k, w, n)
    BY <2>3, <2>4, <2>5, <2>6 DEF SlotKnows
  <2>11. open(a)' => SlotKnows(streams'[a], k, w, n)
    BY <1>5, <2>1, <2>10 DEF open
  <2>12. \E u \in Slot : /\ open(a) /\ streams' = [streams EXCEPT ![a] = u]
                         /\ u.sendWindow = streams[a].sendWindow
    BY <1>5, <2>1, <2>3
  <2>13. k.pc # "wait" /\ k.frame.bytes = 0
    BY <2>4, <2>5
  <2> QED BY <1>1, <1>2, <2>1, <2>5, <2>8, <2>9, <2>11, <2>12, <2>13, FreeStep
<1>6. CASE unended
  <2> DEFINE k == [h EXCEPT !.pc = "grant", !.then = "look", !.rest = 0, !.last = TRUE]
  <2>1. handler' = [handler EXCEPT ![a] = k] /\ streams' = streams
    BY <1>6 DEF EndResponse, moves
  <2>2. k \in Handler /\ k.pc = "grant" /\ k.then = "look" /\ k.rest = 0
    BY <1>1, <1>3 DEF Handler
  <2> HIDE DEF k
  <2>3. ~writing(k) /\ ~mayRun(k) /\ k.pc # "wait"
    BY <2>2 DEF writing, mayRun
  <2>4. InHand(k, w, n)
    BY <2>2, <2>3 DEF InHand
  <2>5. Wire(k, w, n)
    BY <1>1, <2>3 DEF Wire, Response
  <2>6. SlotKnows(s, k, w, n)
    BY <1>1, <1>4, <1>6, <2>2, <2>3 DEF SlotKnows
  <2>7. open(a)' => SlotKnows(streams'[a], k, w, n)
    BY <2>1, <2>6
  <2> QED BY <1>1, <1>2, <2>1, <2>2, <2>3, <2>4, <2>5, <2>7, FreeStep
<1>7. CASE ~missing /\ ~unended
  <2>1. /\ moves(a, [h EXCEPT !.pc = IF open(a) THEN "look" ELSE "done"])
        /\ UNCHANGED <<shared, writeLock, woken, reader, wire, asked, peer>>
    BY <1>7 DEF EndResponse, shared
  <2> DEFINE pc == IF open(a) THEN "look" ELSE "done"
  <2>2. pc \in {"throw", "finish", "look", "retire", "reset", "done"} /\ pc # "finish"
    OBVIOUS
  <2>3. moves(a, [h EXCEPT !.pc = pc])
    BY <2>1
  <2> HIDE DEF pc
  <2> QED BY <1>1, <2>1, <2>2, <2>3, GotoStep
<1> QED BY <1>5, <1>6, <1>7

LEMMA LesserType ==
  ASSUME NEW m \in Int, NEW n \in Int
  PROVE  Lesser(m, n) \in Int /\ Lesser(m, n) <= m /\ Lesser(m, n) <= n
         /\ (Lesser(m, n) = m \/ Lesser(m, n) = n)
BY DEF Lesser

(* sendData under the state lock: what is granted is taken from both        *)
(* windows, and who is granted nothing leaves its waiter.                   *)
LEMMA GrantStep ==
  ASSUME Inductive, NEW a \in Ids, Grant(a)
  PROVE  Inductive'
<1> DEFINE h == handler[a]
           w == wire[a]
           n == asked[a]
           s == streams[a]
           window == Lesser(s.sendWindow, connSendWindow)
           m == Lesser(h.rest, Lesser(window, MaxFrame))
           end == h.last /\ m = h.rest
           stopped == isClosed \/ ~open(a) \/ s.localDone
           sends == h.rest = 0 \/ window > 0
<1>1. h \in Handler /\ TypeOK /\ Response(a) /\ h.pc = "grant" /\ ~writing(h) /\ sending(h)
      /\ bytes(w) \in Int
  BY TakenType DEF Inductive, TypeOK, StreamOK, Grant, at, writing, sending
<1>2. UNCHANGED <<peerInitialWindow, isClosed, writeLock, reader, wire, asked, peer>>
  BY DEF Grant
<1>3. CASE stopped
  <2>1. moves(a, afterThrow(h)) /\ UNCHANGED <<shared, woken, reader, wire, asked, peer>>
        /\ writeLock' = writeLock
    BY <1>3 DEF Grant, shared
  <2> QED BY <1>1, <2>1, ThrowStep
<1>4. ASSUME ~stopped
      PROVE  /\ s \in Slot /\ SlotKnows(s, h, w, n) /\ InHand(h, w, n) /\ inOrder(w)
             /\ answers(w) /\ ~ended(w) /\ bytes(w) + h.rest = n /\ s.headersSent
  <2>1. s \in Slot /\ SlotKnows(s, h, w, n) /\ InHand(h, w, n) /\ Wire(h, w, n)
    BY <1>1, <1>4, TypedHandler DEF Response
  <2>2. s.headersSent /\ ~s.localDone
    BY <1>1, <1>4, <2>1 DEF SlotKnows
  <2> QED BY <1>1, <2>1, <2>2 DEF SlotKnows, Wire
<1>5. ASSUME ~stopped
      PROVE  /\ {s.sendWindow, connSendWindow, window, m, h.rest} \subseteq Int
             /\ h.rest \in Nat /\ h.rest <= Body /\ Body \in Nat
             /\ m <= h.rest /\ m <= s.sendWindow /\ m <= connSendWindow
             /\ (h.rest # 0 /\ window > 0 => m > 0)
  <2>1. s.sendWindow \in Int /\ connSendWindow \in Int /\ h.rest \in 0..Body /\ Body \in Nat
        /\ MaxFrame \in Nat \ {0}
    <3>1. s.sendWindow \in Int
      BY <1>4, <1>5, SlotFields
    <3>2. h.rest \in 0..Body
      BY <1>1, HandlerFields
    <3>3. connSendWindow \in Int /\ Body \in Nat /\ MaxFrame \in Nat \ {0}
      BY <1>1, BoundsAssumption DEF TypeOK
    <3> QED BY <3>1, <3>2, <3>3
  <2>2. window \in Int /\ window <= s.sendWindow /\ window <= connSendWindow
    BY <2>1, LesserType
  <2> HIDE DEF window
  <2> DEFINE l == Lesser(window, MaxFrame)
  <2>3. l \in Int /\ l <= window /\ (l = window \/ l = MaxFrame)
    BY <2>1, <2>2, LesserType
  <2> HIDE DEF l
  <2>4. m \in Int /\ m <= h.rest /\ m <= l /\ (m = h.rest \/ m = l)
    <3>1. h.rest \in Int
      BY <2>1
    <3> QED BY <2>3, <3>1, LesserType DEF l
  <2> HIDE DEF m
  <2> QED BY <2>1, <2>2, <2>3, <2>4
<1>6. CASE ~stopped /\ sends
  <2> DEFINE size == IF h.rest = 0 THEN 0 ELSE m
             e == IF h.rest = 0 THEN h.last ELSE end
             f == [kind |-> "DATA", bytes |-> size, end |-> e]
             t == [s EXCEPT !.sendWindow = IF h.rest = 0 THEN @ ELSE @ - m, !.localDone = e]
             k == [h EXCEPT !.pc = "lock", !.frame = f]
  <2>1. /\ streams' = [streams EXCEPT ![a] = t]
        /\ connSendWindow' = IF h.rest = 0 THEN connSendWindow ELSE connSendWindow - m
        /\ handler' = [handler EXCEPT ![a] = k] /\ woken' = woken
    BY <1>6 DEF Grant, moves, open
  <2>2. size \in Nat /\ size <= h.rest /\ size \in 0..Body
        /\ (size # 0 => size <= s.sendWindow /\ size <= connSendWindow)
    BY <1>5, <1>6
  <2>3. connSendWindow' = connSendWindow - size
    BY <1>5, <1>6, <2>1
  <2>4. e \in BOOLEAN /\ (e => h.last)
    BY <1>1, HandlerFields
  <2>5. e => h.rest = size
    BY <1>6
  <2>6. t \in Slot /\ t.sendWindow = s.sendWindow - size /\ t.localDone = e /\ t.headersSent
    <3>1. s \in Slot /\ s.sendWindow \in Int /\ m \in Int /\ s.headersSent
      BY <1>4, <1>5, <1>6
    <3>2. (IF h.rest = 0 THEN s.sendWindow ELSE s.sendWindow - m) = s.sendWindow - size
          /\ s.sendWindow - size \in Int
      BY <3>1, <2>2
    <3> HIDE DEF m, e, size
    <3> QED BY <2>4, <3>1, <3>2 DEF Slot
  <2> HIDE DEF size, e
  <2>7. f \in Frame /\ f.kind = "DATA" /\ f.bytes = size /\ f.end = e
    BY <2>2, <2>4 DEF Frame
  <2> HIDE DEF f
  <2>8. k \in Handler /\ k.pc = "lock" /\ k.frame = f /\ k.rest = h.rest /\ k.last = h.last
        /\ k.then = h.then
    BY <1>1, <2>7 DEF Handler
  <2> HIDE DEF k, t
  <2>9. writing(k) /\ sending(k) /\ k.pc # "wait"
    BY <2>8 DEF writing, sending
  <2>10. InHand(k, w, n)
    <3>1. h.then \in {"run", "look"} /\ (h.last => h.rest = 0)
      BY <1>1, <1>4, <1>6 DEF InHand
    <3> QED BY <1>4, <1>6, <2>2, <2>4, <2>5, <2>7, <2>8, <2>9, <3>1 DEF InHand
  <2>11. Wire(k, w, n)
    BY <1>4, <1>6 DEF Wire
  <2>12. SlotKnows(t, k, w, n)
    BY <1>4, <1>6, <2>6, <2>7, <2>8, <2>9 DEF SlotKnows
  <2>13. open(a)' => SlotKnows(streams'[a], k, w, n)
    BY <1>6, <2>1, <2>12 DEF open
  <2>14. \E u \in Slot : /\ open(a) /\ streams' = [streams EXCEPT ![a] = u]
                         /\ u.sendWindow = streams[a].sendWindow - size
    BY <1>6, <2>1, <2>6
  <2>15. Asleep(a)'
    BY <1>1, <2>1, <2>9 DEF Asleep, at, TypeOK
  <2>16. writing(k) => k.frame.bytes <= size
    BY <2>2, <2>7, <2>8
  <2>17. woken' \in [Ids -> BOOLEAN]
    BY <1>1, <2>1 DEF TypeOK
  <2>18. size # 0 => open(a) /\ size <= streams[a].sendWindow /\ size <= connSendWindow
    BY <1>6, <2>2
  <2> QED BY <1>1, <1>2, <2>1, <2>2, <2>3, <2>8, <2>10, <2>11, <2>13, <2>14, <2>15, <2>16, <2>17,
             <2>18, SlotStep
<1>7. CASE ~stopped /\ ~sends
  <2> DEFINE t == [s EXCEPT !.sendWaiter = TRUE]
             k == [h EXCEPT !.pc = "wait"]
  <2>1. /\ streams' = [streams EXCEPT ![a] = t] /\ connSendWindow' = connSendWindow
        /\ handler' = [handler EXCEPT ![a] = k] /\ woken' = [woken EXCEPT ![a] = FALSE]
    BY <1>7 DEF Grant, moves, open
  <2>2. t \in Slot /\ t.sendWindow = s.sendWindow /\ t.localDone = s.localDone
        /\ t.headersSent = s.headersSent /\ t.sendWaiter
    BY <1>4, <1>7 DEF Slot
  <2>3. k \in Handler /\ k.pc = "wait" /\ k.frame = h.frame /\ k.rest = h.rest /\ k.last = h.last
        /\ k.then = h.then
    BY <1>1 DEF Handler
  <2>4. s.sendWindow - 0 = s.sendWindow /\ connSendWindow - 0 = connSendWindow
    BY <1>5, <1>7
  <2>5. window <= 0
    BY <1>5, <1>7
  <2> HIDE DEF k, t
  <2>6. ~writing(k) /\ sending(k)
    BY <2>3 DEF writing, sending
  <2>7. InHand(k, w, n)
    BY <1>1, <1>4, <1>7, <2>3, <2>6 DEF InHand
  <2>8. Wire(k, w, n)
    BY <1>4, <1>7 DEF Wire
  <2>9. SlotKnows(t, k, w, n)
    BY <1>4, <1>7, <2>2, <2>3, <2>6 DEF SlotKnows
  <2>10. open(a)' => SlotKnows(streams'[a], k, w, n)
    BY <1>7, <2>1, <2>9 DEF open
  <2>11. \E u \in Slot : /\ open(a) /\ streams' = [streams EXCEPT ![a] = u]
                         /\ u.sendWindow = streams[a].sendWindow - 0
    BY <1>7, <2>1, <2>2, <2>4
  <2>12. Asleep(a)'
    <3>1. streams'[a] = t /\ ~isClosed'
      BY <1>2, <1>7, <2>1 DEF open
    <3>2. Lesser(t.sendWindow, connSendWindow') <= 0
      BY <2>1, <2>2, <2>5
    <3> QED BY <2>2, <3>1, <3>2 DEF Asleep
  <2>13. woken' \in [Ids -> BOOLEAN] /\ \A i \in Ids \ {a} : woken'[i] = woken[i]
    BY <1>1, <2>1 DEF TypeOK
  <2>14. connSendWindow' = connSendWindow - 0 /\ 0 \in Nat /\ (writing(k) => k.frame.bytes <= 0)
    BY <2>1, <2>4, <2>6
  <2> QED BY <1>1, <1>2, <2>1, <2>3, <2>7, <2>8, <2>10, <2>11, <2>12, <2>13, <2>14, SlotStep
<1> QED BY <1>3, <1>6, <1>7

(* The frame in hand goes onto the wire: nothing more is taken.             *)
LEMMA WriteStep ==
  ASSUME Inductive, NEW a \in Ids, Write(a)
  PROVE  Inductive'
<1> DEFINE h == handler[a]
           w == wire[a]
           n == asked[a]
           f == h.frame
           left == h.rest - f.bytes
           pc == IF left = 0 THEN h.then ELSE "grant"
           k == [h EXCEPT !.rest = left, !.pc = pc]
           v == Append(w, f)
<1>1. h \in Handler /\ TypeOK /\ StreamOK(a) /\ Response(a) /\ h.pc = "write" /\ writing(h)
      /\ sending(h) /\ w \in Seq(Frame) /\ f \in Frame /\ isClosed \in BOOLEAN
  BY HandlerFields DEF Inductive, TypeOK, StreamOK, Write, at, writing, sending
<1>2. /\ UNCHANGED <<peerInitialWindow, isClosed, reader, issued, connIssued, updates, streams,
                     connSendWindow, woken, asked>>
      /\ writeLock' = Nobody /\ handler' = [handler EXCEPT ![a] = k]
      /\ wire' = [wire EXCEPT ![a] = v]
  BY DEF shared, peer, Write, moves
<1>3. /\ InHand(h, w, n) /\ Wire(h, w, n) /\ (open(a) => SlotKnows(streams[a], h, w, n))
  BY <1>1 DEF Response
<1>4. /\ h.rest \in 0..Body /\ f.bytes \in Nat /\ f.bytes <= h.rest /\ Body \in Nat
      /\ bytes(w) \in Int /\ n \in Int
      /\ h.then \in {"run", "finish", "look", "done"}
      /\ f.kind \in {"HEADERS", "DATA", "RST"}
  <2>1. h.rest \in 0..Body /\ f.bytes \in Nat /\ h.then \in {"run", "finish", "look", "done"}
        /\ f.kind \in {"HEADERS", "DATA", "RST"}
    BY <1>1, HandlerFields, FrameFields
  <2>2. f.bytes <= h.rest
    BY <1>1, <1>3 DEF InHand
  <2>3. Body \in Nat /\ n \in Int
    BY <1>1, BoundsAssumption DEF TypeOK
  <2> QED BY <1>1, <2>1, <2>2, <2>3, BytesType
<1>5. left \in 0..Body /\ left \in Int /\ pc \in {"run", "finish", "look", "done", "grant"}
  BY <1>4
<1>6. bytes(v) = bytes(w) + f.bytes
  BY <1>1, BytesAppend
<1>7. /\ v \in Seq(Frame)
      /\ onlyResets(v) <=> onlyResets(w) /\ f.kind = "RST"
      /\ answers(v) <=> answers(w) \/ f.kind = "HEADERS"
      /\ ended(v) <=> ended(w) \/ f.end
      /\ inOrder(v) <=> /\ inOrder(w)
                        /\ f.kind = "HEADERS" => onlyResets(w)
                        /\ f.kind = "DATA" => answers(w) /\ ~ended(w)
  BY <1>1, Appended
<1>8. inOrder(v)
  BY <1>1, <1>3, <1>7 DEF InHand, Wire
<1> HIDE DEF pc
<1>9. k \in Handler /\ k.rest = left /\ k.pc = pc /\ k.last = h.last /\ k.frame = f
      /\ k.then = h.then
  BY <1>1, <1>5 DEF Handler
<1>10. pc = IF left = 0 THEN h.then ELSE "grant"
  BY DEF pc
<1> HIDE DEF k, v
<1>11. ~writing(k) /\ k.pc # "wait" /\ (sending(k) <=> pc = "grant")
       /\ (mayRun(k) => h.then = "run")
  BY <1>5, <1>9, <1>10 DEF writing, sending, mayRun
<1>12. /\ InHand(k, v, n) /\ Wire(k, v, n)
       /\ open(a) => SlotKnows(streams[a], k, v, n)
  <2>1. CASE f.kind = "RST"
    <3>1. f = RstFrame /\ h.rest = 0 /\ h.then \in {"finish", "done"}
      BY <1>1, <1>3, <2>1 DEF InHand
    <3>2. f.bytes = 0 /\ ~f.end
      BY <3>1, RstFrameType
    <3>3. left = 0 /\ bytes(v) = bytes(w) /\ pc = h.then
      BY <1>4, <1>6, <1>10, <3>1, <3>2
    <3>4. ~sending(k) /\ ~mayRun(k)
      BY <1>11, <3>1, <3>3
    <3>5. InHand(k, v, n)
      BY <1>9, <1>11, <3>1, <3>3, <3>4 DEF InHand
    <3>6. Wire(k, v, n)
      BY <1>3, <1>7, <1>8, <3>2, <3>3, <3>4 DEF Wire
    <3>7. ~open(a)
      BY <1>1, <1>3, <2>1 DEF SlotKnows
    <3> QED BY <3>5, <3>6, <3>7
  <2>2. ASSUME f.kind # "RST"
        PROVE  /\ bytes(w) + h.rest = n /\ h.then \in {"run", "look"}
               /\ f.end => h.rest = f.bytes /\ (h.then = "run" => h.last)
               /\ h.last => h.rest = 0
               /\ open(a) => streams[a].headersSent
    BY <1>1, <1>3, <2>2 DEF InHand, SlotKnows
  <2>3. CASE f.kind = "HEADERS"
    <3>1. h.rest = 0
      BY <1>1, <1>3, <2>3 DEF InHand
    <3>2. left = 0 /\ bytes(v) = n /\ pc = h.then
      BY <1>4, <1>6, <1>10, <2>2, <2>3, <3>1
    <3>3. ~sending(k) /\ pc \in {"run", "look"}
      BY <1>11, <2>2, <2>3, <3>2
    <3>4. InHand(k, v, n)
      BY <1>9, <1>11, <3>3 DEF InHand
    <3>5. mayRun(k) => mayRun(h)
      BY <1>1, <1>11 DEF mayRun
    <3>6. Wire(k, v, n)
      BY <1>3, <1>7, <1>8, <1>9, <1>11, <2>2, <2>3, <3>2, <3>5 DEF Wire
    <3>7. ASSUME open(a) PROVE SlotKnows(streams[a], k, v, n)
      <4>1. SlotKnows(streams[a], h, w, n) /\ streams[a].headersSent
        BY <1>3, <2>2, <2>3, <3>7
      <4>2. ~streams[a].localDone => ~ended(v)
        BY <1>1, <1>7, <4>1 DEF SlotKnows
      <4> QED BY <1>7, <1>9, <1>11, <2>3, <3>2, <3>3, <4>1, <4>2 DEF SlotKnows
    <3> QED BY <3>4, <3>6, <3>7
  <2>4. CASE f.kind = "DATA"
    <3>1. answers(w) /\ ~ended(w)
      BY <1>1, <1>3, <2>4 DEF InHand
    <3>2. bytes(v) + left = n
      BY <1>4, <1>6, <2>2, <2>4
    <3>3. ended(v) => left = 0 /\ (h.then = "run" => h.last)
      BY <1>4, <1>7, <2>2, <2>4, <3>1
    <3>4. h.last => left = 0
      BY <1>4, <2>2, <2>4
    <3>5. bytes(v) \in Int
      BY <1>7, BytesType
    <3>6. left = 0 => bytes(v) = n
      BY <1>5, <3>2, <3>5
    <3>7. pc = IF left = 0 THEN h.then ELSE "grant"
      BY <1>10
    <3> HIDE DEF left
    <3>8. InHand(k, v, n)
      BY <1>9, <1>11, <2>2, <2>4, <3>4, <3>7 DEF InHand
    <3>9. Wire(k, v, n)
      BY <1>8, <1>9, <1>11, <3>3, <3>6 DEF Wire
    <3>10. ASSUME open(a) PROVE SlotKnows(streams[a], k, v, n)
      <4>1. SlotKnows(streams[a], h, w, n) /\ streams[a].headersSent
        BY <1>3, <2>2, <2>4, <3>10
      <4>2. ~streams[a].localDone => ~ended(v)
        BY <1>1, <1>7, <4>1 DEF SlotKnows
      <4>3. answers(v)
        BY <1>7, <3>1
      <4>4. k.pc = "grant" => k.rest = left /\ bytes(v) + left = n
        BY <1>9, <3>2
      <4>5. k.pc \in {"run", "finish"} => left = 0
        BY <1>9, <3>7
      <4> QED BY <1>9, <1>11, <3>6, <4>1, <4>2, <4>3, <4>4, <4>5 DEF SlotKnows
    <3> QED BY <3>8, <3>9, <3>10
  <2> QED BY <1>4, <2>1, <2>3, <2>4
<1>13. /\ handler'[a] = k /\ wire'[a] = v /\ streams' = streams
       /\ wire' \in [Ids -> Seq(Frame)] /\ \A i \in Ids \ {a} : wire'[i] = wire[i]
  BY <1>1, <1>2, <1>7 DEF TypeOK
<1>14. Response(a)'
  BY <1>2, <1>12, <1>13 DEF Response, open
<1>15. taken(a)' = taken(a)
  <2>1. taken(a)' = bytes(v) + 0
    BY <1>11, <1>13 DEF taken, inHand, at, writing, bytes
  <2>2. taken(a) = bytes(w) + f.bytes
    BY <1>1 DEF taken, inHand, at
  <2>3. bytes(v) \in Int
    BY <1>7, BytesType
  <2> QED BY <1>6, <2>1, <2>2, <2>3
<1>16. Window(a)'
  BY <1>1, <1>2, <1>15 DEF StreamOK, Window, open
<1>17. Asleep(a)'
  BY <1>11, <1>13 DEF Asleep, at
<1>18. /\ connSendWindow' \in 0..MaxWindow /\ connSendWindow' <= connSendWindow
       /\ taken(a)' + connSendWindow' <= taken(a) + connSendWindow
  <2>1. connSendWindow' = connSendWindow /\ connSendWindow \in 0..MaxWindow /\ MaxWindow \in Nat
        /\ taken(a) \in Int
    BY <1>1, <1>2, TakenType, BoundsAssumption DEF TypeOK
  <2> QED BY <1>15, <2>1
<1>19. woken' \in [Ids -> BOOLEAN] /\ asked' \in [Ids -> 0..Body]
  BY <1>1, <1>2 DEF TypeOK
<1> QED BY <1>2, <1>9, <1>13, <1>14, <1>16, <1>17, <1>18, <1>19, HandlerStep

-----------------------------------------------------------------------------
(* The reader's steps.                                                      *)
LEMMA ReaderStep ==
  ASSUME Inductive, TypeOK', Quiet', \A i \in Ids : StreamOK(i)',
         \A i \in Ids : taken(i)' = taken(i),
         connSendWindow' + connIssued <= connSendWindow + connIssued'
  PROVE  Inductive'
<1>1. TypeOK /\ ConnWindowOK
  BY DEF Inductive
<1>2. PICK a \in Ids : TRUE
  BY BoundsAssumption
<1>3. taken(a)' + connSendWindow' + connIssued <= taken(a) + connSendWindow + connIssued'
  <2> DEFINE t == taken(a)
  <2>0. connSendWindow \in Int /\ connIssued \in Int
    BY <1>1 DEF TypeOK
  <2>1. {connSendWindow, connIssued, t} \subseteq Int
    BY <1>1, <2>0, TakenType
  <2>2. connSendWindow' \in Int /\ connIssued' \in Int
    BY DEF TypeOK
  <2>3. taken(a)' = t
    OBVIOUS
  <2> HIDE DEF t
  <2>4. t + connSendWindow' + connIssued <= t + connSendWindow + connIssued'
    BY <2>1, <2>2
  <2> QED BY <2>3, <2>4 DEF t
<1>4. ConnWindowOK'
  BY <1>1, <1>3, TakenSum
<1> QED BY <1>4 DEF Inductive

(* Streams are left as they are or retired, and waiters only woken.         *)
LEMMA CalmStep ==
  ASSUME Inductive, TypeOK', Quiet',
         UNCHANGED <<connSendWindow, connIssued, isClosed, issued, handler, wire, asked>>,
         \A i \in Ids : woken[i] => woken'[i],
         \A i \in Ids : open(i)' => open(i) /\ streams'[i] = streams[i]
  PROVE  Inductive'
<1>1. \A i \in Ids : taken(i)' = taken(i)
  BY StillTaken
<1>2. \A i \in Ids : StreamOK(i)'
  <2> SUFFICES ASSUME NEW i \in Ids PROVE StreamOK(i)'
    OBVIOUS
  <2>0. connSendWindow' \in Int
    BY DEF TypeOK
  <2>1. TypeOK /\ StreamOK(i) /\ connSendWindow' \in Int
    BY <2>0 DEF Inductive
  <2>2. CASE open(i)'
    <3>1. open(i) /\ streams'[i] = streams[i]
      BY <2>2
    <3>2. connSendWindow' <= connSendWindow
      BY <2>1
    <3>3. Still(i)
      BY <2>2, <3>1, <3>2 DEF Still
    <3> QED BY <2>1, <3>3, StillOK
  <2>3. CASE ~open(i)'
    BY <1>1, <2>1, <2>3 DEF StreamOK, Response, Window, Asleep
  <2> QED BY <2>2, <2>3
<1>3. connSendWindow' + connIssued <= connSendWindow + connIssued'
  <2>1. TypeOK
    BY DEF Inductive
  <2>2. connSendWindow \in Int /\ connIssued \in Int
    BY <2>1 DEF TypeOK
  <2> QED BY <2>2
<1> QED BY <1>1, <1>2, <1>3, ReaderStep

LEMMA ReaderFields ==
  ASSUME TypeOK
  PROVE  /\ reader.id \in Ids /\ reader.waiter \in BOOLEAN
         /\ reader.then \in {"next", "wake", "close"}
         /\ reader.pc \in {"next", "rst", "lock", "write", "wake", "goaway", "close", "stopped"}
BY DEF TypeOK

(* A reader that takes a step has not stopped: the connection is open.      *)
LEMMA StillOpen == ASSUME Inductive, reader.pc # "stopped" PROVE ~isClosed
BY DEF Inductive, Quiet

LEMMA NextFrameStep ==
  ASSUME TypeOK, NextFrame
  PROVE  updates' \in 0..MaxUpdates /\ reader.pc = "next"
BY BoundsAssumption DEF TypeOK, NextFrame

LEMMA ReaderLockStep ==
  ASSUME Inductive, EndOfInput \/ ReaderTakesLock \/ ReaderWriteFails
  PROVE  Inductive'
<1>1. TypeOK /\ ~isClosed
  BY StillOpen DEF Inductive, EndOfInput, ReaderTakesLock, ReaderWriteFails
<1>2. UNCHANGED <<streams, connSendWindow, peerInitialWindow, isClosed, handler, woken, wire, asked,
                  issued, connIssued, updates>>
  BY DEF EndOfInput, ReaderTakesLock, ReaderWriteFails, shared, peer
<1>3. writeLock' \in Ids \cup {Reader, Nobody}
  BY <1>1 DEF EndOfInput, ReaderTakesLock, ReaderWriteFails, TypeOK
<1>4. reader' \in [pc : {"next", "rst", "lock", "write", "wake", "goaway", "close", "stopped"},
                   id : Ids, waiter : BOOLEAN, then : {"next", "wake", "close"}]
  <2>1. CASE EndOfInput
    BY <1>1, <2>1 DEF TypeOK, EndOfInput, Stop
  <2>2. CASE ReaderTakesLock
    BY <1>1, <2>2 DEF TypeOK, ReaderTakesLock
  <2>3. CASE ReaderWriteFails
    BY <1>1, <2>3 DEF TypeOK, ReaderWriteFails
  <2> QED BY <2>1, <2>2, <2>3
<1>5. TypeOK'
  BY <1>1, <1>2, <1>3, <1>4 DEF TypeOK
<1>6. Quiet'
  BY <1>1, <1>2 DEF Quiet
<1>7. \A i \in Ids : open(i)' => open(i) /\ streams'[i] = streams[i]
  BY <1>2 DEF open
<1> QED BY <1>2, <1>5, <1>6, <1>7, CalmStep

LEMMA RstStreamStep ==
  ASSUME Inductive, NEW a \in Ids, RstStream(a)
  PROVE  Inductive'
<1>1. TypeOK /\ ~isClosed
  BY StillOpen DEF Inductive, RstStream
<1>2. UNCHANGED <<streams, connSendWindow, peerInitialWindow, isClosed, handler, woken, wire, asked,
                  issued, connIssued, updates, writeLock>>
  BY DEF RstStream, shared, peer
<1>3. streams[a].sendWaiter \in BOOLEAN
  BY <1>1, TypedHandler, SlotFields DEF RstStream, active
<1>4. reader' \in [pc : {"next", "rst", "lock", "write", "wake", "goaway", "close", "stopped"},
                   id : Ids, waiter : BOOLEAN, then : {"next", "wake", "close"}]
  BY <1>1, <1>3 DEF TypeOK, RstStream
<1>5. TypeOK'
  BY <1>1, <1>2, <1>4 DEF TypeOK
<1>6. Quiet'
  BY <1>1, <1>2 DEF Quiet
<1>7. \A i \in Ids : open(i)' => open(i) /\ streams'[i] = streams[i]
  BY <1>2 DEF open
<1> QED BY <1>2, <1>5, <1>6, <1>7, CalmStep

LEMMA WakeStep ==
  ASSUME Inductive, Wake
  PROVE  Inductive'
<1>1. TypeOK /\ ~isClosed
  BY StillOpen DEF Inductive, Wake
<1>2. UNCHANGED <<streams, connSendWindow, peerInitialWindow, isClosed, handler, wire, asked,
                  issued, connIssued, updates, writeLock>>
  BY DEF Wake, shared, peer
<1>3. woken' \in [Ids -> BOOLEAN] /\ \A i \in Ids : woken[i] => woken'[i]
  BY <1>1, ReaderFields, Zenon DEF Wake, TypeOK
<1>4. reader' \in [pc : {"next", "rst", "lock", "write", "wake", "goaway", "close", "stopped"},
                   id : Ids, waiter : BOOLEAN, then : {"next", "wake", "close"}]
  BY <1>1 DEF TypeOK, Wake
<1>5. TypeOK'
  BY <1>1, <1>2, <1>3, <1>4 DEF TypeOK
<1>6. Quiet'
  BY <1>1, <1>2 DEF Quiet
<1>7. \A i \in Ids : open(i)' => open(i) /\ streams'[i] = streams[i]
  BY <1>2 DEF open
<1> QED BY <1>2, <1>3, <1>5, <1>6, <1>7, CalmStep

(* A stream that has been retired is nobody's to send on.                   *)
LEMMA RetireStep ==
  ASSUME Inductive, NEW a \in Ids, retire(a), ~isClosed,
         UNCHANGED <<connSendWindow, peerInitialWindow, isClosed, writeLock, handler, wire, asked,
                     issued, connIssued>>,
         updates' \in 0..MaxUpdates,
         woken' \in [Ids -> BOOLEAN], \A i \in Ids : woken[i] => woken'[i],
         reader' \in [pc : {"next", "rst", "lock", "write", "wake", "goaway", "close", "stopped"},
                      id : Ids, waiter : BOOLEAN, then : {"next", "wake", "close"}]
  PROVE  Inductive'
<1>1. TypeOK
  BY DEF Inductive
<1>2. /\ DOMAIN streams' \subseteq Ids /\ \A i \in DOMAIN streams' : streams'[i] \in Slot
      /\ \A i \in Ids : open(i)' => open(i) /\ streams'[i] = streams[i]
  <2>1. DOMAIN streams \subseteq Ids /\ \A i \in DOMAIN streams : streams[i] \in Slot
    BY <1>1 DEF TypeOK
  <2> QED BY <2>1 DEF retire, open, Restrict
<1>3. TypeOK'
  BY <1>1, <1>2 DEF TypeOK
<1>4. Quiet'
  BY DEF Quiet
<1> QED BY <1>2, <1>3, <1>4, CalmStep

LEMMA RstRetireStep ==
  ASSUME Inductive, RstRetire
  PROVE  Inductive'
<1>1. TypeOK /\ ~isClosed
  BY StillOpen DEF Inductive, RstRetire
<1>2. UNCHANGED <<connSendWindow, peerInitialWindow, isClosed, writeLock, handler, wire, asked,
                  issued, connIssued, updates>>
  BY DEF RstRetire, peer
<1>3. PICK a \in Ids : a = reader.id
  BY <1>1, ReaderFields
<1>4. woken' \in [Ids -> BOOLEAN] /\ \A i \in Ids : woken[i] => woken'[i]
  BY <1>1, ReaderFields, Zenon DEF RstRetire, TypeOK
<1>5. reader' \in [pc : {"next", "rst", "lock", "write", "wake", "goaway", "close", "stopped"},
                   id : Ids, waiter : BOOLEAN, then : {"next", "wake", "close"}]
  BY <1>1 DEF TypeOK, RstRetire
<1>6. retire(a) /\ updates' \in 0..MaxUpdates
  BY <1>1, <1>2, <1>3 DEF RstRetire, TypeOK
<1> QED BY <1>1, <1>2, <1>4, <1>5, <1>6, RetireStep

LEMMA StreamErrorStep ==
  ASSUME Inductive, NEW a \in Ids, retire(a), open(a), reader.pc = "next",
         reader' = [pc |-> "lock", id |-> a, waiter |-> streams[a].sendWaiter, then |-> "wake"],
         UNCHANGED <<connSendWindow, peerInitialWindow, isClosed, writeLock, handler, wire, asked,
                     issued, connIssued, woken>>,
         updates' \in 0..MaxUpdates
  PROVE  Inductive'
<1>1. TypeOK /\ ~isClosed
  BY StillOpen DEF Inductive
<1>2. streams[a].sendWaiter \in BOOLEAN
  BY <1>1, TypedHandler, SlotFields
<1>3. reader' \in [pc : {"next", "rst", "lock", "write", "wake", "goaway", "close", "stopped"},
                   id : Ids, waiter : BOOLEAN, then : {"next", "wake", "close"}]
  BY <1>2
<1>4. woken' \in [Ids -> BOOLEAN]
  BY <1>1 DEF TypeOK
<1> QED BY <1>1, <1>3, <1>4, RetireStep

(* sendQuietly's bytes: RST_STREAM changes nothing a response is made of.   *)
LEMMA RstAppended ==
  ASSUME NEW h, NEW w \in Seq(Frame), NEW n
  PROVE  LET v == Append(w, RstFrame) IN
         /\ v \in Seq(Frame) /\ bytes(v) = bytes(w)
         /\ InHand(h, w, n) => InHand(h, v, n)
         /\ Wire(h, w, n) => Wire(h, v, n)
         /\ \A s : SlotKnows(s, h, w, n) => SlotKnows(s, h, v, n)
<1> DEFINE v == Append(w, RstFrame)
<1>1. RstFrame \in Frame /\ RstFrame.kind = "RST" /\ RstFrame.bytes = 0 /\ ~RstFrame.end
  BY RstFrameType
<1>2. /\ v \in Seq(Frame)
      /\ onlyResets(v) <=> onlyResets(w)
      /\ answers(v) <=> answers(w)
      /\ ended(v) <=> ended(w)
      /\ inOrder(v) <=> inOrder(w)
  BY <1>1, Appended
<1>3. bytes(v) = bytes(w)
  <2>1. bytes(v) = bytes(w) + RstFrame.bytes
    BY <1>1, BytesAppend
  <2>2. bytes(w) \in Int
    BY BytesType
  <2> QED BY <1>1, <2>1, <2>2
<1> HIDE DEF v
<1>4. InHand(h, w, n) => InHand(h, v, n)
  BY <1>2, <1>3 DEF InHand
<1>5. Wire(h, w, n) => Wire(h, v, n)
  BY <1>2, <1>3 DEF Wire
<1>6. ASSUME NEW s, SlotKnows(s, h, w, n) PROVE SlotKnows(s, h, v, n)
  BY <1>2, <1>3, <1>6 DEF SlotKnows
<1> QED BY <1>2, <1>3, <1>4, <1>5, <1>6 DEF v

LEMMA ReaderWritesStep ==
  ASSUME Inductive, ReaderWrites
  PROVE  Inductive'
<1>1. TypeOK /\ ~isClosed
  BY StillOpen DEF Inductive, ReaderWrites
<1>2. UNCHANGED <<streams, connSendWindow, peerInitialWindow, isClosed, handler, asked, woken,
                  issued, connIssued, updates>>
  BY DEF ReaderWrites, shared, peer
<1>3. PICK a \in Ids : a = reader.id
  BY <1>1, ReaderFields
<1>4. \/ wire' = wire
      \/ wire' = [wire EXCEPT ![a] = Append(wire[a], RstFrame)]
  BY <1>3 DEF ReaderWrites
<1>5. \A i \in Ids : /\ wire[i] \in Seq(Frame)
                     /\ wire'[i] = wire[i] \/ wire'[i] = Append(wire[i], RstFrame)
  BY <1>1, <1>4 DEF TypeOK
<1>6. \A i \in Ids : /\ wire'[i] \in Seq(Frame)
                     /\ bytes(wire'[i]) = bytes(wire[i])
                     /\ \A h, n : InHand(h, wire[i], n) => InHand(h, wire'[i], n)
                     /\ \A h, n : Wire(h, wire[i], n) => Wire(h, wire'[i], n)
                     /\ \A s, h, n : SlotKnows(s, h, wire[i], n) => SlotKnows(s, h, wire'[i], n)
  <2> SUFFICES ASSUME NEW i \in Ids
      PROVE  /\ wire'[i] \in Seq(Frame)
             /\ bytes(wire'[i]) = bytes(wire[i])
             /\ \A h, n : InHand(h, wire[i], n) => InHand(h, wire'[i], n)
             /\ \A h, n : Wire(h, wire[i], n) => Wire(h, wire'[i], n)
             /\ \A s, h, n : SlotKnows(s, h, wire[i], n) => SlotKnows(s, h, wire'[i], n)
    OBVIOUS
  <2>1. CASE wire'[i] = wire[i]
    BY <1>5, <2>1
  <2>2. CASE wire'[i] = Append(wire[i], RstFrame)
    BY <1>5, <2>2, RstAppended
  <2> QED BY <1>5, <2>1, <2>2
<1>7. wire' \in [Ids -> Seq(Frame)]
  BY <1>1, <1>4, <1>6 DEF TypeOK
<1>8. reader' \in [pc : {"next", "rst", "lock", "write", "wake", "goaway", "close", "stopped"},
                   id : Ids, waiter : BOOLEAN, then : {"next", "wake", "close"}]
  BY <1>1, ReaderFields DEF TypeOK, ReaderWrites
<1>9. writeLock' \in Ids \cup {Reader, Nobody}
  BY DEF ReaderWrites
<1>10. TypeOK'
  BY <1>1, <1>2, <1>7, <1>8, <1>9 DEF TypeOK
<1>11. Quiet'
  BY <1>1, <1>2 DEF Quiet
<1>12. \A i \in Ids : taken(i)' = taken(i)
  BY <1>2, <1>6 DEF taken, inHand, at, bytes
<1>13. \A i \in Ids : StreamOK(i)'
  <2> SUFFICES ASSUME NEW i \in Ids PROVE StreamOK(i)'
    OBVIOUS
  <2>1. StreamOK(i)
    BY DEF Inductive
  <2>2. Response(i)'
    BY <1>2, <1>6, <2>1 DEF StreamOK, Response, open
  <2>3. Window(i)'
    BY <1>2, <1>12, <2>1 DEF StreamOK, Window, open
  <2>4. Asleep(i)'
    BY <1>2, <2>1 DEF StreamOK, Asleep, open, at
  <2> QED BY <2>2, <2>3, <2>4 DEF StreamOK
<1>14. connSendWindow' + connIssued <= connSendWindow + connIssued'
  <2>1. connSendWindow \in Int /\ connIssued \in Int
    BY <1>1 DEF TypeOK
  <2> QED BY <1>2, <2>1
<1> QED BY <1>10, <1>11, <1>12, <1>13, <1>14, ReaderStep

LEMMA CloseStep ==
  ASSUME Inductive, close
  PROVE  Inductive'
<1>1. TypeOK
  BY DEF Inductive
<1>2. /\ UNCHANGED <<streams, connSendWindow, peerInitialWindow, writeLock, handler, wire, asked,
                     issued, connIssued, updates>>
      /\ isClosed' = TRUE /\ writeLock = Nobody
      /\ woken' = [i \in Ids |-> woken[i] \/ i \in waiting]
  BY DEF close, peer
<1>3. woken' \in [Ids -> BOOLEAN] /\ \A i \in Ids : woken'[i] = (woken[i] \/ i \in waiting)
  BY <1>2
<1>4. reader' \in [pc : {"next", "rst", "lock", "write", "wake", "goaway", "close", "stopped"},
                   id : Ids, waiter : BOOLEAN, then : {"next", "wake", "close"}]
      /\ reader'.pc = "stopped"
  BY <1>1 DEF TypeOK, close
<1>5. TypeOK'
  BY <1>1, <1>2, <1>3, <1>4 DEF TypeOK
<1>6. Quiet'
  BY <1>2, <1>4 DEF Quiet
<1>7. \A i \in Ids : taken(i)' = taken(i)
  BY <1>2, StillTaken
<1>8. \A i \in Ids : StreamOK(i)'
  <2> SUFFICES ASSUME NEW i \in Ids PROVE StreamOK(i)'
    OBVIOUS
  <2>1. open(i) /\ streams[i].sendWaiter => i \in waiting
    BY DEF open, waiting
  <2>2. Still(i)
    BY <1>2, <1>3, <2>1 DEF Still, open
  <2>3. StreamOK(i) /\ connSendWindow' \in Int
    BY <1>1, <1>2 DEF Inductive, TypeOK
  <2> QED BY <1>1, <2>2, <2>3, StillOK
<1>9. connSendWindow' + connIssued <= connSendWindow + connIssued'
  <2>1. connSendWindow \in Int /\ connIssued \in Int
    BY <1>1 DEF TypeOK
  <2> QED BY <1>2, <2>1
<1> QED BY <1>5, <1>6, <1>7, <1>8, <1>9, ReaderStep

LEMMA ConnUpdateStep ==
  ASSUME Inductive, NEW inc \in 1..2, ConnUpdate(inc)
  PROVE  Inductive'
<1>1. TypeOK /\ ~isClosed /\ updates' \in 0..MaxUpdates
  BY StillOpen, NextFrameStep DEF Inductive, ConnUpdate, NextFrame
<1>2. UNCHANGED <<streams, peerInitialWindow, isClosed, writeLock, handler, wire, asked, issued>>
  BY DEF ConnUpdate
<1>3. {connSendWindow, connIssued, inc} \subseteq Nat /\ MaxWindow \in Nat
      /\ connSendWindow \in 0..MaxWindow
  <2>1. connSendWindow \in 0..MaxWindow /\ connIssued \in Nat /\ MaxWindow \in Nat
    BY <1>1, BoundsAssumption DEF TypeOK
  <2> QED BY <2>1
<1>4. CASE connSendWindow + inc > MaxWindow
  <2>1. UNCHANGED <<connSendWindow, connIssued, woken>> /\ Stop
    BY <1>4 DEF ConnUpdate
  <2>2. reader' \in [pc : {"next", "rst", "lock", "write", "wake", "goaway", "close", "stopped"},
                     id : Ids, waiter : BOOLEAN, then : {"next", "wake", "close"}]
    BY <1>1, <2>1 DEF TypeOK, Stop
  <2>3. TypeOK'
    BY <1>1, <1>2, <2>1, <2>2 DEF TypeOK
  <2>4. Quiet'
    BY <1>1, <1>2 DEF Quiet
  <2>5. \A i \in Ids : open(i)' => open(i) /\ streams'[i] = streams[i]
    BY <1>2 DEF open
  <2> QED BY <1>2, <2>1, <2>3, <2>4, <2>5, CalmStep
<1>5. CASE ~(connSendWindow + inc > MaxWindow)
  <2>1. /\ connSendWindow' = connSendWindow + inc /\ connIssued' = connIssued + inc
        /\ woken' = [i \in Ids |-> woken[i] \/ i \in waiting] /\ reader' = reader
    BY <1>5 DEF ConnUpdate
  <2>2. woken' \in [Ids -> BOOLEAN] /\ \A i \in Ids : woken'[i] = (woken[i] \/ i \in waiting)
    BY <2>1
  <2>3. connSendWindow' \in 0..MaxWindow /\ connIssued' \in Nat /\ connSendWindow' \in Int
        /\ connSendWindow' + connIssued <= connSendWindow + connIssued'
    BY <1>3, <1>5, <2>1
  <2>4. TypeOK'
    BY <1>1, <1>2, <2>1, <2>2, <2>3 DEF TypeOK
  <2>5. Quiet'
    BY <1>1, <1>2 DEF Quiet
  <2>6. \A i \in Ids : taken(i)' = taken(i)
    BY <1>2, StillTaken
  <2>7. \A i \in Ids : StreamOK(i)'
    <3> SUFFICES ASSUME NEW i \in Ids PROVE StreamOK(i)'
      OBVIOUS
    <3>1. open(i) /\ streams[i].sendWaiter => i \in waiting
      BY DEF open, waiting
    <3>2. Still(i)
      BY <1>2, <2>2, <3>1 DEF Still, open
    <3>3. StreamOK(i)
      BY DEF Inductive
    <3> QED BY <1>1, <2>3, <3>2, <3>3, StillOK
  <2> QED BY <2>3, <2>4, <2>5, <2>6, <2>7, ReaderStep
<1> QED BY <1>4, <1>5

LEMMA LargerType ==
  ASSUME NEW m \in Nat, NEW n \in Int
  PROVE  Larger(m, n) \in Nat /\ Larger(m, n) >= m /\ Larger(m, n) >= n
BY DEF Larger

(* A window moved by the peer, which then allows what it leaves and what    *)
(* has been taken.                                                          *)
LEMMA WindowMoves ==
  ASSUME TypeOK, TypeOK', NEW i \in Ids, StreamOK(i), open(i)' = open(i), NEW x \in Int,
         handler'[i] = handler[i], wire'[i] = wire[i], asked'[i] = asked[i],
         open(i) => streams'[i] = [streams[i] EXCEPT !.sendWindow = x],
         issued'[i] = IF open(i) THEN Larger(issued[i], allowed(i, x)) ELSE issued[i],
         open(i) /\ streams[i].sendWaiter => woken'[i], woken[i] => woken'[i]
  PROVE  StreamOK(i)'
<1>1. taken(i)' = taken(i) /\ taken(i) \in Int /\ issued[i] \in Nat
  BY TakenType, StillTaken DEF TypeOK
<1>2. open(i) => /\ streams[i] \in Slot /\ streams'[i].sendWindow = x
                 /\ streams'[i].headersSent = streams[i].headersSent
                 /\ streams'[i].localDone = streams[i].localDone
  BY TypedHandler DEF Slot
<1>3. Response(i) /\ Window(i) /\ Asleep(i)
  BY DEF StreamOK
<1>4. Response(i)'
  <2>1. open(i) => SlotKnows(streams'[i], handler[i], wire[i], asked[i])
    BY <1>2, <1>3 DEF Response, SlotKnows
  <2> QED BY <1>3, <2>1 DEF Response
<1>5. Window(i)'
  <2>1. CASE open(i)
    <3> DEFINE t == taken(i)
               z == issued[i]
    <3>1. t \in Int /\ z \in Nat /\ t <= z /\ x + t \in Int
      BY <1>1, <1>3 DEF Window
    <3>2. issued'[i] = Larger(z, x + t)
      BY <2>1 DEF allowed
    <3> HIDE DEF t, z
    <3>3. issued'[i] \in Nat /\ issued'[i] >= z /\ issued'[i] >= x + t
      BY <3>1, <3>2, LargerType
    <3>4. t <= issued'[i] /\ t + x <= issued'[i]
      BY <3>1, <3>3
    <3> QED BY <1>1, <1>2, <2>1, <3>4 DEF Window, t
  <2>2. CASE ~open(i)
    BY <1>1, <1>3, <2>2 DEF Window
  <2> QED BY <2>1, <2>2
<1>6. Asleep(i)'
  BY <1>3 DEF Asleep, at
<1> QED BY <1>4, <1>5, <1>6 DEF StreamOK

LEMMA StreamUpdateStep ==
  ASSUME Inductive, NEW a \in Ids, NEW inc \in 1..2, StreamUpdate(a, inc)
  PROVE  Inductive'
<1> DEFINE x == streams[a].sendWindow + inc
<1>1. TypeOK /\ ~isClosed /\ updates' \in 0..MaxUpdates /\ reader.pc = "next"
  BY StillOpen, NextFrameStep DEF Inductive, StreamUpdate, NextFrame
<1>2. UNCHANGED <<connSendWindow, peerInitialWindow, isClosed, writeLock, handler, wire, asked,
                  connIssued>>
  BY DEF StreamUpdate
<1>3. Quiet'
  BY <1>1, <1>2 DEF Quiet
<1>4. CASE ~active(a)
  <2>1. UNCHANGED <<streams, reader, woken, issued>>
    BY <1>4 DEF StreamUpdate
  <2>2. TypeOK'
    BY <1>1, <1>2, <2>1 DEF TypeOK
  <2>3. \A i \in Ids : open(i)' => open(i) /\ streams'[i] = streams[i]
    BY <2>1 DEF open
  <2> QED BY <1>2, <1>3, <2>1, <2>2, <2>3, CalmStep
<1>5. CASE active(a) /\ x > MaxWindow
  BY <1>1, <1>2, <1>5, StreamErrorStep DEF StreamUpdate, active
<1>6. CASE active(a) /\ ~(x > MaxWindow)
  <2> DEFINE t == [streams[a] EXCEPT !.sendWindow = x]
  <2>1. /\ streams' = [streams EXCEPT ![a] = t] /\ reader' = reader
        /\ issued' = [issued EXCEPT ![a] = Larger(issued[a], allowed(a, x))]
        /\ woken' = [woken EXCEPT ![a] = woken[a] \/ streams[a].sendWaiter]
        /\ a \in DOMAIN streams
    BY <1>6 DEF StreamUpdate, active, open
  <2>2. streams[a] \in Slot /\ x \in Int /\ issued[a] \in Nat
    BY <1>1, <2>1, SlotFields DEF TypeOK
  <2>3. t \in Slot
    BY <2>2 DEF Slot
  <2>4. allowed(a, x) \in Int
    <3>1. taken(a) \in Int
      BY <1>1, TakenType
    <3> HIDE DEF x
    <3> QED BY <2>2, <3>1 DEF allowed
  <2>5. issued' \in [Ids -> Nat]
    BY <1>1, <2>1, <2>2, <2>4, LargerType DEF TypeOK
  <2>6. woken' \in [Ids -> BOOLEAN] /\ \A i \in Ids : woken[i] => woken'[i]
    BY <1>1, <2>1, <2>2, SlotFields, Zenon DEF TypeOK
  <2>7. woken'[a] = (woken[a] \/ streams[a].sendWaiter)
    BY <1>1, <2>1 DEF TypeOK
  <2>8. DOMAIN streams' \subseteq Ids /\ \A i \in DOMAIN streams' : streams'[i] \in Slot
    <3>1. DOMAIN streams \subseteq Ids /\ \A i \in DOMAIN streams : streams[i] \in Slot
      BY <1>1 DEF TypeOK
    <3> HIDE DEF t
    <3> QED BY <2>1, <2>3, <3>1
  <2>9. TypeOK'
    BY <1>1, <1>2, <2>1, <2>5, <2>6, <2>8 DEF TypeOK
  <2>10. \A i \in Ids : taken(i)' = taken(i)
    BY <1>2, StillTaken
  <2>11. \A i \in Ids : StreamOK(i)'
    <3> SUFFICES ASSUME NEW i \in Ids PROVE StreamOK(i)'
      OBVIOUS
    <3>1. StreamOK(i)
      BY DEF Inductive
    <3>2. CASE i = a
      <4>1. open(a)' = open(a) /\ streams'[a] = t /\ open(a)
            /\ issued'[a] = Larger(issued[a], allowed(a, x))
        BY <1>1, <2>1 DEF open, TypeOK
      <4>2. handler'[a] = handler[a] /\ wire'[a] = wire[a] /\ asked'[a] = asked[a]
        BY <1>2
      <4>3. StreamOK(a) /\ TypeOK /\ x \in Int
        BY <1>1, <2>2, <3>1, <3>2
      <4> HIDE DEF x
      <4>4. StreamOK(a)'
        BY <2>6, <2>7, <2>9, <4>1, <4>2, <4>3, WindowMoves
      <4> QED BY <3>2, <4>4
    <3>3. CASE i # a
      <4>1. Still(i)
        BY <1>1, <1>2, <2>1, <2>6, <3>3 DEF Still, open, TypeOK
      <4>2. connSendWindow' \in Int
        BY <1>1, <1>2 DEF TypeOK
      <4> QED BY <1>1, <3>1, <4>1, <4>2, StillOK
    <3> QED BY <3>2, <3>3
  <2>12. connSendWindow' + connIssued <= connSendWindow + connIssued'
    <3>1. connSendWindow \in Int /\ connIssued \in Int
      BY <1>1 DEF TypeOK
    <3> QED BY <1>2, <3>1
  <2> QED BY <1>3, <2>9, <2>10, <2>11, <2>12, ReaderStep
<1> QED BY <1>4, <1>5, <1>6

LEMMA SettingsStep ==
  ASSUME Inductive, NEW initial \in Initials, Settings(initial)
  PROVE  Inductive'
<1> DEFINE moved(i) == streams[i].sendWindow + initial - peerInitialWindow
<1>1. TypeOK /\ ~isClosed /\ updates' \in 0..MaxUpdates /\ reader.pc = "next"
  BY StillOpen, NextFrameStep DEF Inductive, Settings, NextFrame
<1>2. UNCHANGED <<connSendWindow, isClosed, writeLock, handler, wire, asked, connIssued>>
  BY DEF Settings
<1>3. Quiet'
  BY <1>1, <1>2 DEF Quiet
<1>4. /\ streams' = [i \in DOMAIN streams |-> [streams[i] EXCEPT !.sendWindow = moved(i)]]
      /\ issued' = [i \in Ids |-> IF open(i) THEN Larger(issued[i], allowed(i, moved(i)))
                                             ELSE issued[i]]
      /\ peerInitialWindow' = initial
      /\ woken' = [i \in Ids |-> woken[i] \/ i \in waiting]
  BY DEF Settings
<1>5. peerInitialWindow' \in 0..MaxWindow /\ {initial, peerInitialWindow} \subseteq Int
  <2>1. initial \in 0..MaxWindow /\ peerInitialWindow \in 0..MaxWindow
    BY <1>1, BoundsAssumption DEF TypeOK
  <2> QED BY <1>4, <2>1
<1>6. \A i \in DOMAIN streams : streams[i] \in Slot /\ moved(i) \in Int
  <2> SUFFICES ASSUME NEW i \in DOMAIN streams PROVE streams[i] \in Slot /\ moved(i) \in Int
    OBVIOUS
  <2>1. streams[i] \in Slot
    BY <1>1 DEF TypeOK
  <2>2. streams[i].sendWindow \in Int
    BY <2>1, SlotFields
  <2> QED BY <1>5, <2>1, <2>2
<1>7. DOMAIN streams' = DOMAIN streams
      /\ \A i \in DOMAIN streams : streams'[i] = [streams[i] EXCEPT !.sendWindow = moved(i)]
  BY <1>4
<1>8. \A i \in Ids : /\ woken'[i] = (woken[i] \/ i \in waiting)
                     /\ issued'[i] = IF open(i) THEN Larger(issued[i], allowed(i, moved(i)))
                                                ELSE issued[i]
  BY <1>4
<1>9. \A i \in Ids : issued[i] \in Nat /\ (open(i) => allowed(i, moved(i)) \in Int)
  <2> SUFFICES ASSUME NEW i \in Ids
      PROVE  issued[i] \in Nat /\ (open(i) => allowed(i, moved(i)) \in Int)
    OBVIOUS
  <2>1. issued[i] \in Nat /\ taken(i) \in Int
    BY <1>1, TakenType DEF TypeOK
  <2>2. open(i) => moved(i) \in Int
    BY <1>6 DEF open
  <2> HIDE DEF moved
  <2> QED BY <2>1, <2>2 DEF allowed
<1>10. reader' \in [pc : {"next", "rst", "lock", "write", "wake", "goaway", "close", "stopped"},
                    id : Ids, waiter : BOOLEAN, then : {"next", "wake", "close"}]
  <2>1. \/ reader' = [reader EXCEPT !.pc = "goaway"]
        \/ reader' = [reader EXCEPT !.pc = "lock", !.waiter = FALSE, !.then = "next"]
    BY DEF Settings, Stop
  <2> QED BY <1>1, <2>1 DEF TypeOK
<1> HIDE DEF moved
<1>11. woken' \in [Ids -> BOOLEAN]
  BY <1>4
<1>12. issued' \in [Ids -> Nat]
  BY <1>4, <1>8, <1>9, LargerType
<1>13. \A i \in DOMAIN streams' : streams'[i] \in Slot
  BY <1>6, <1>7 DEF Slot
<1>14. DOMAIN streams' \subseteq Ids
  BY <1>1, <1>7 DEF TypeOK
<1>15. TypeOK'
  BY <1>1, <1>2, <1>5, <1>10, <1>11, <1>12, <1>13, <1>14 DEF TypeOK
<1>16. \A i \in Ids : taken(i)' = taken(i)
  BY <1>2, StillTaken
<1>17. \A i \in Ids : StreamOK(i)'
  <2> SUFFICES ASSUME NEW i \in Ids PROVE StreamOK(i)'
    OBVIOUS
  <2>1. StreamOK(i)
    BY DEF Inductive
  <2>2. open(i)' = open(i)
    BY <1>7 DEF open
  <2>3. handler'[i] = handler[i] /\ wire'[i] = wire[i] /\ asked'[i] = asked[i]
    BY <1>2
  <2>4. (woken[i] => woken'[i]) /\ (open(i) /\ streams[i].sendWaiter => woken'[i])
    BY <1>8 DEF waiting, open
  <2>5. CASE open(i)
    <3>1. moved(i) \in Int /\ streams'[i] = [streams[i] EXCEPT !.sendWindow = moved(i)]
      BY <1>6, <1>7, <2>5 DEF open
    <3>2. issued'[i] = IF open(i) THEN Larger(issued[i], allowed(i, moved(i))) ELSE issued[i]
      BY <1>8
    <3> QED BY <1>1, <1>15, <2>1, <2>2, <2>3, <2>4, <3>1, <3>2, WindowMoves
  <2>6. CASE ~open(i)
    <3>1. 0 \in Int /\ issued'[i] = IF open(i) THEN Larger(issued[i], allowed(i, 0)) ELSE issued[i]
      BY <1>8, <2>6
    <3> QED BY <1>1, <1>15, <2>1, <2>2, <2>3, <2>4, <2>6, <3>1, WindowMoves
  <2> QED BY <2>5, <2>6
<1>18. connSendWindow' + connIssued <= connSendWindow + connIssued'
  <2>1. connSendWindow \in Int /\ connIssued \in Int
    BY <1>1 DEF TypeOK
  <2> QED BY <1>2, <2>1
<1> QED BY <1>3, <1>15, <1>16, <1>17, <1>18, ReaderStep

-----------------------------------------------------------------------------
(* Every step keeps the invariant, and it holds at the start.               *)
LEMMA InductiveInit == Init => Inductive
<1> SUFFICES ASSUME Init PROVE Inductive
  OBVIOUS
<1> DEFINE idle == [pc |-> "run", rest |-> 0, last |-> FALSE, frame |-> RstFrame, then |-> "run"]
<1>1. peerInitialWindow \in 0..MaxWindow /\ peerInitialWindow \in Nat /\ MaxWindow \in Nat
  BY BoundsAssumption DEF Init
<1>2. \A r \in BOOLEAN : /\ newSlot(r) \in Slot /\ newSlot(r).sendWindow = peerInitialWindow
                         /\ ~newSlot(r).headersSent /\ ~newSlot(r).localDone
  BY <1>1 DEF newSlot, Slot
<1>3. DOMAIN streams = Ids /\ \A i \in Ids : \E r \in BOOLEAN : streams[i] = newSlot(r)
  BY DEF Init
<1>4. \A i \in Ids : /\ streams[i] \in Slot /\ streams[i].sendWindow = peerInitialWindow
                     /\ ~streams[i].headersSent /\ ~streams[i].localDone
  BY <1>2, <1>3
<1>5. idle \in Handler /\ idle.pc = "run" /\ ~idle.last
  BY RstFrameType, BoundsAssumption DEF Handler
<1>6. \A i \in Ids : handler[i] = idle /\ wire[i] = <<>> /\ asked[i] = 0
                     /\ issued[i] = peerInitialWindow
  BY DEF Init
<1>7. (CHOOSE i \in Ids : TRUE) \in Ids
  BY BoundsAssumption
<1>8. TypeOK
  <2>1. handler \in [Ids -> Handler] /\ wire \in [Ids -> Seq(Frame)]
    BY <1>5 DEF Init
  <2>2. reader \in [pc : {"next", "rst", "lock", "write", "wake", "goaway", "close", "stopped"},
                    id : Ids, waiter : BOOLEAN, then : {"next", "wake", "close"}]
    BY <1>7 DEF Init
  <2>3. asked \in [Ids -> 0..Body] /\ issued \in [Ids -> Nat] /\ woken \in [Ids -> BOOLEAN]
    BY <1>1, BoundsAssumption DEF Init
  <2>4. connSendWindow \in 0..MaxWindow /\ connIssued \in Nat /\ updates \in 0..MaxUpdates
    BY BoundsAssumption DEF Init
  <2>5. isClosed \in BOOLEAN /\ writeLock \in Ids \cup {Reader, Nobody}
    BY DEF Init
  <2> QED BY <1>1, <1>3, <1>4, <2>1, <2>2, <2>3, <2>4, <2>5 DEF TypeOK
<1>9. \A i \in Ids : taken(i) = 0
  <2> SUFFICES ASSUME NEW i \in Ids PROVE taken(i) = 0
    OBVIOUS
  <2>1. bytes(wire[i]) = 0 /\ inHand(i) = 0
    BY <1>5, <1>6, BytesEmpty DEF inHand, at
  <2> QED BY <2>1 DEF taken
<1> HIDE DEF idle
<1>10. \A i \in Ids : StreamOK(i)
  <2> SUFFICES ASSUME NEW i \in Ids PROVE StreamOK(i)
    OBVIOUS
  <2>1. ~writing(idle) /\ ~sending(idle)
    BY <1>5 DEF writing, sending
  <2>2. InHand(idle, <<>>, 0)
    BY <1>5, <2>1 DEF InHand
  <2>3. Wire(idle, <<>>, 0)
    BY EmptyWire DEF Wire
  <2>4. SlotKnows(streams[i], idle, <<>>, 0)
    BY <1>4, <1>5, <2>1, EmptyWire, BytesEmpty DEF SlotKnows
  <2>5. Response(i)
    BY <1>6, <2>2, <2>3, <2>4 DEF Response
  <2>6. Window(i)
    BY <1>1, <1>4, <1>6, <1>9 DEF Window
  <2>7. Asleep(i)
    BY <1>5, <1>6 DEF Asleep, at
  <2> QED BY <2>5, <2>6, <2>7 DEF StreamOK
<1>11. ConnWindowOK
  <2> DEFINE f == [i \in Ids |-> taken(i)]
  <2>1. \A i \in Ids : f[i] = 0
    BY <1>9
  <2> HIDE DEF f
  <2>2. SumFunctionOnSet(f, Ids) = 0
    BY <2>1, BoundsAssumption, SumZero
  <2>3. connSendWindow = ConnWindow /\ connIssued = ConnWindow /\ ConnWindow \in Nat
    BY BoundsAssumption DEF Init
  <2> QED BY <2>2, <2>3 DEF ConnWindowOK, f
<1>12. Quiet
  BY DEF Init, Quiet
<1> QED BY <1>8, <1>10, <1>11, <1>12 DEF Inductive

LEMMA InductiveStep == Inductive /\ [Next]_vars => Inductive'
<1> SUFFICES ASSUME Inductive, [Next]_vars PROVE Inductive'
  OBVIOUS
<1>1. CASE readerStep
  BY <1>1, RstRetireStep, WakeStep, ReaderLockStep, ReaderWritesStep, CloseStep DEF readerStep
<1>2. CASE fromPeer
  <2>1. ASSUME NEW inc \in 1..2, ConnUpdate(inc) PROVE Inductive'
    BY <2>1, ConnUpdateStep
  <2>2. ASSUME NEW inc \in 1..2, NEW i \in Ids, StreamUpdate(i, inc) PROVE Inductive'
    BY <2>2, StreamUpdateStep
  <2>3. ASSUME NEW initial \in Initials, Settings(initial) PROVE Inductive'
    BY <2>3, SettingsStep
  <2>4. ASSUME NEW i \in Ids, RstStream(i) PROVE Inductive'
    BY <2>4, RstStreamStep
  <2>5. ASSUME NEW i \in Ids, streamError(i) PROVE Inductive'
    <3>1. updates' \in 0..MaxUpdates
      BY <2>5 DEF Inductive, TypeOK, streamError, peer
    <3> QED BY <2>5, <3>1, StreamErrorStep DEF streamError, peer
  <2>6. CASE EndOfInput
    BY <2>6, ReaderLockStep
  <2> QED BY <1>2, <2>1, <2>2, <2>3, <2>4, <2>5, <2>6 DEF fromPeer
<1>3. ASSUME NEW i \in Ids, handlerStep(i) PROVE Inductive'
  BY <1>3, GrantStep, WokenStep, WaitTimesOutStep, TakeLockStep, WriteStep, ThrownStep,
     EndResponseStep, ReturnStep, RetireFinishedStep, StopBodyStep DEF handlerStep
<1>4. ASSUME NEW i \in Ids, application(i) PROVE Inductive'
  BY <1>4, WriteBodyStep, FinishStep, ReturnStep, RespondStep DEF application
<1>5. CASE UNCHANGED vars
  <2>1. UNCHANGED <<streams, connSendWindow, peerInitialWindow, isClosed, writeLock, handler, woken,
                    reader, wire, asked, issued, connIssued, updates>>
    BY <1>5 DEF vars, shared, peer
  <2>2. TypeOK /\ Quiet
    BY DEF Inductive
  <2>3. TypeOK'
    BY <2>1, <2>2 DEF TypeOK
  <2>4. Quiet'
    BY <2>1, <2>2 DEF Quiet
  <2>5. \A i \in Ids : open(i)' => open(i) /\ streams'[i] = streams[i]
    BY <2>1 DEF open
  <2> QED BY <2>1, <2>3, <2>4, <2>5, CalmStep
<1> QED BY <1>1, <1>2, <1>3, <1>4, <1>5 DEF Next

LEMMA Invariance == Spec => []Inductive
BY InductiveInit, InductiveStep, PTL DEF Spec

(* However WINDOW_UPDATE and SETTINGS race the handlers, no stream sends    *)
(* more than the peer has at some time allowed on it, all of them together  *)
(* no more than the connection allows, and no variable leaves its type.     *)
THEOREM WindowsAreRespected == Spec => []WindowsRespected
<1>1. Inductive => WindowsRespected
  <2> SUFFICES ASSUME Inductive PROVE WindowsRespected
    OBVIOUS
  <2>1. TypeOK /\ ConnWindowOK /\ \A i \in Ids : Window(i)
    BY DEF Inductive, StreamOK
  <2>2. \A i \in Ids : taken(i) <= issued[i]
    BY <2>1 DEF Window
  <2> DEFINE f == [i \in Ids |-> taken(i)]
             F == SumFunctionOnSet(f, Ids)
  <2>3. F + connSendWindow <= connIssued
    BY <2>1 DEF ConnWindowOK
  <2>4. \A i \in Ids : f[i] \in Int
    BY <2>1, TakenType
  <2> HIDE DEF f
  <2>5. F \in Int
    BY <2>4, BoundsAssumption, SumType
  <2>6. connSendWindow \in 0..MaxWindow /\ connIssued \in Nat /\ MaxWindow \in Nat
    BY <2>1, BoundsAssumption DEF TypeOK
  <2> HIDE DEF F
  <2>7. F <= connIssued
    BY <2>3, <2>5, <2>6
  <2> QED BY <2>1, <2>2, <2>7 DEF WindowsRespected, F, f
<1> QED BY <1>1, Invariance, PTL

(* HEADERS once and first, END_STREAM last and only after every byte the    *)
(* application wrote, however the stream is reset, failed or finished.      *)
THEOREM ResponsesAreWhole == Spec => []WholeResponses
<1>1. Inductive => WholeResponses
  <2> SUFFICES ASSUME Inductive PROVE WholeResponses
    OBVIOUS
  <2>1. \A i \in Ids : Wire(handler[i], wire[i], asked[i])
    BY DEF Inductive, StreamOK, Response
  <2>2. ResponseOrder
    BY <2>1 DEF Wire, inOrder, ResponseOrder
  <2>3. EndMeansComplete
    BY <2>1 DEF Wire, ended, EndMeansComplete
  <2> QED BY <2>2, <2>3 DEF WholeResponses
<1> QED BY <1>1, Invariance, PTL

(* No wake-up of sendData is lost: a handler asleep for window on an open   *)
(* stream has none, and the next WINDOW_UPDATE, SETTINGS or close finds it. *)
THEOREM NobodySleeps == Spec => []NobodySleepsOnWindow
<1>1. Inductive => NobodySleepsOnWindow
  BY DEF Inductive, StreamOK, Asleep, NobodySleepsOnWindow, TypeOK, open
<1> QED BY <1>1, Invariance, PTL

(* The write lock is free for good once Conn.close has marked the           *)
(* connection closed.                                                       *)
THEOREM ClosedIsQuiet == Spec => []QuietAfterClose
<1>1. Inductive => QuietAfterClose
  BY DEF Inductive, Quiet, QuietAfterClose
<1> QED BY <1>1, Invariance, PTL
=============================================================================
