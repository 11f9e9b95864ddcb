------------------------- MODULE HTTP2ReceiveProofs -------------------------
(***************************************************************************)
(* Proofs about HTTP2Receive, for any streams, windows and limits and any  *)
(* number of frames: bodies arrive intact, receive windows are accounted   *)
(* for, nobody sleeps on data, no stream id is used twice.                 *)
(*                                                                         *)
(* The inductive invariant has one part per stream - where its handler and *)
(* its slot are in their lives (Life), what its inbox holds (Body), what   *)
(* its window, its unread bytes and those in the threads' hands add up to  *)
(* (Credit), what a sleeping handler knows (Asleep) - and one for the      *)
(* connection (ConnBooks), whose window is what remains when the credits   *)
(* of all streams are summed.                                              *)
(***************************************************************************)
EXTENDS HTTP2Receive, DataLemmas, TLAPS

(* Between its sections the reader owes a frame's bytes to somebody.        *)
ReaderType == [pc : ReaderAt, id : Ids \cup {0}, content : 0..1, hand : 0..2,
               endStream : BOOLEAN, credit : Nat, waiter : BOOLEAN]

ReaderShape ==
  /\ reader.pc \notin {"status", "deliver", "padding", "stopped"} => reader.hand = 0
  /\ reader.pc \in {"status", "deliver"} => reader.hand - reader.content \in 0..1
  /\ reader.pc \notin {"next", "stopped"} => reader.id \in Ids

Life(id) ==
  /\ id \in closed => ~open(id)
  /\ open(id) => hpc[id] # "none"
  /\ hpc[id] # "none" => open(id) \/ id \in closed
  /\ hpc[id] = "none" => got[id] = <<>> /\ ~sawEnd[id]
  /\ hand[id] = IF hpc[id] = "return" THEN 1 ELSE 0

(* The inbox of a slot holds the last pieces received, in order; what the   *)
(* handler has not read of them is at its end.                              *)
Inbox(s, read) ==
  /\ s.inboxHead <= Len(s.inbox)
  /\ \A k \in 1..Len(s.inbox) : s.inbox[k] = s.received - Len(s.inbox) + k
  /\ Len(read) + unread(s) = s.received

Body(id) ==
  /\ got[id] = [i \in 1..Len(got[id]) |-> i]
  /\ open(id) =>
       /\ Inbox(streams[id], got[id])
       /\ sawEnd[id] => streams[id].remoteDone /\ unread(streams[id]) = 0
       /\ reader.pc = "deliver" /\ reader.id = id => ~streams[id].remoteDone

(* Bytes of a frame the reader has delivered and not yet returned, and the  *)
(* frames whose bytes go back without having been charged to the stream.    *)
padding(r, id) == IF r.pc = "padding" /\ r.id = id THEN r.hand ELSE 0
resetting(r, id) == r.pc \in {"error", "stopped"} /\ r.id = id

Credit(id) ==
  open(id) /\ ~resetting(reader, id)
    => streams[id].recvWindow + streams[id].unacked + unread(streams[id])
         + hand[id] + padding(reader, id) = InitialWindow

Asleep(id) ==
  open(id) /\ hpc[id] = "wait" /\ ~woken[id] =>
      unread(streams[id]) = 0 /\ ~streams[id].remoteDone /\ ~isClosed
        /\ streams[id].bodyWaiter

StreamOK(id) == Life(id) /\ Body(id) /\ Credit(id) /\ Asleep(id)

Streams == TypeOK /\ ReaderShape /\ \A id \in Ids : StreamOK(id)

-----------------------------------------------------------------------------
(* What a step does to the slots.                                           *)
Becomes(a, t) ==
  /\ a \in DOMAIN streams /\ DOMAIN streams' = DOMAIN streams
  /\ streams'[a] = t
  /\ \A i \in DOMAIN streams \ {a} : streams'[i] = streams[i]

Gone(a) ==
  /\ DOMAIN streams' = DOMAIN streams \ {a}
  /\ \A i \in DOMAIN streams \ {a} : streams'[i] = streams[i]

(* Nothing that concerns stream id changes but the reader's progress, and   *)
(* promises are only resolved.                                              *)
Still(id) ==
  /\ open(id)' = open(id)
  /\ open(id) => streams'[id] = streams[id]
  /\ (id \in closed') = (id \in closed)
  /\ hpc'[id] = hpc[id] /\ hand'[id] = hand[id] /\ got'[id] = got[id]
  /\ sawEnd'[id] = sawEnd[id]
  /\ woken[id] => woken'[id]
  /\ isClosed' => isClosed \/ (open(id) /\ streams[id].bodyWaiter => woken'[id])

(* The reader stays where it is, or moves on without having touched id.     *)
ReaderPasses(id) ==
  open(id) =>
    /\ reader'.pc = "deliver" /\ reader'.id = id => ~streams[id].remoteDone
    /\ \/ resetting(reader', id)
       \/ ~resetting(reader, id) /\ padding(reader', id) = padding(reader, id)

LEMMA StillOK ==
  ASSUME NEW id \in Ids, StreamOK(id), Still(id), ReaderPasses(id)
  PROVE  StreamOK(id)'
<1> USE DEF Still, ReaderPasses, StreamOK, open
<1>1. Life(id)'
  BY DEF Life
<1>2. Body(id)'
  BY DEF Body, Inbox, unread
<1>3. Credit(id)'
  <2>1. CASE ~open(id) \/ resetting(reader', id)
    BY <2>1 DEF Credit, resetting
  <2>2. CASE /\ open(id) /\ ~resetting(reader, id)
             /\ padding(reader', id) = padding(reader, id)
    <3>1. padding(reader, id)' = padding(reader, id)
      BY <2>2 DEF padding
    <3> QED BY <2>2, <3>1 DEF Credit, unread
  <2> QED BY <2>1, <2>2
<1>4. Asleep(id)'
  BY DEF Asleep, unread
<1> QED BY <1>1, <1>2, <1>3, <1>4

LEMMA SlotFields ==
  ASSUME NEW s \in Slot
  PROVE  /\ s.inbox \in Seq(Nat) /\ Len(s.inbox) \in Nat
         /\ {s.inboxHead, s.received, s.unacked} \subseteq Nat
         /\ s.recvWindow \in Int
         /\ {s.remoteDone, s.bodyWaiter, s.headersSent, s.localDone} \subseteq BOOLEAN
         /\ s.contentLength \in Lengths
BY DEF Slot

LEMMA CreditedSlot ==
  ASSUME NEW s \in Slot, NEW bytes \in Nat
  PROVE  LET t == credited(s, bytes) IN
         /\ t \in Slot
         /\ t.inbox = s.inbox /\ t.inboxHead = s.inboxHead /\ t.received = s.received
         /\ t.remoteDone = s.remoteDone /\ t.bodyWaiter = s.bodyWaiter
         /\ t.recvWindow + t.unacked = s.recvWindow + s.unacked + bytes
<1> DEFINE due == s.unacked + bytes
           r == IF ~s.remoteDone /\ due >= InitialWindow \div 2 THEN s.recvWindow + due ELSE s.recvWindow
           u == IF ~s.remoteDone /\ due >= InitialWindow \div 2 THEN 0 ELSE due
           t == credited(s, bytes)
<1>1. r \in Int /\ u \in Nat /\ r + u = s.recvWindow + s.unacked + bytes
  BY SlotFields
<1>2. t = [s EXCEPT !.recvWindow = r, !.unacked = u]
  BY DEF credited, Slot
<1> HIDE DEF r, u, t
<1>3. t \in Slot
  BY <1>1, <1>2 DEF Slot
<1>4. /\ t.inbox = s.inbox /\ t.inboxHead = s.inboxHead /\ t.received = s.received
      /\ t.remoteDone = s.remoteDone /\ t.bodyWaiter = s.bodyWaiter
      /\ t.recvWindow = r /\ t.unacked = u
  BY <1>2 DEF Slot
<1> QED BY <1>1, <1>3, <1>4 DEF t

LEMMA NewSlotType ==
  ASSUME NEW e \in BOOLEAN, NEW l \in Lengths
  PROVE  newSlot(e, l) \in Slot
<1>1. <<>> \in Seq(Nat) /\ InitialWindow \in Int
  BY ConfigAssumption
<1> QED BY <1>1 DEF newSlot, Slot

LEMMA RetireEffect ==
  ASSUME TypeOK, NEW a \in Ids, NEW credit \in Nat, NEW byUs, NEW byPeer,
         retire(a, credit, byUs, byPeer)
  PROVE  /\ Gone(a) /\ closed' = closed \cup {a}
         /\ {closed', resetByUs', resetByPeer'} \subseteq SUBSET Ids
         /\ connUnacked' \in Nat /\ unsettled' \in Int
         /\ connUnacked' + unsettled' = connUnacked + unsettled + owed(a)
<1>1. Gone(a)
  BY DEF retire, Gone, Restrict
<1>2. owed(a) \in Int
  BY SlotFields DEF TypeOK, owed, open, unread
<1> QED BY <1>1, <1>2 DEF retire, TypeOK

LEMMA ReturnEffect ==
  ASSUME TypeOK, NEW a \in Ids, NEW bytes \in Nat, returnWindow(a, bytes)
  PROVE  /\ open(a) => Becomes(a, credited(streams[a], bytes))
         /\ ~open(a) => streams' = streams
         /\ connRecvWindow' \in Int /\ connUnacked' \in Nat /\ unsettled' = unsettled
         /\ connRecvWindow' + connUnacked' = connRecvWindow + connUnacked + bytes
<1>1. open(a) => Becomes(a, credited(streams[a], bytes))
  BY DEF returnWindow, Becomes, open
<1>2. ~open(a) => streams' = streams
  BY DEF returnWindow
<1> QED BY <1>1, <1>2, ConfigAssumption DEF returnWindow, TypeOK

LEMMA DeliveredSlot ==
  ASSUME NEW s \in Slot, NEW r \in ReaderType
  PROVE  LET t == delivered(s, r.content, r.hand, r.endStream) IN
         /\ t \in Slot
         /\ t.inbox = IF r.content = 0 THEN s.inbox ELSE Append(s.inbox, s.received + 1)
         /\ t.inboxHead = s.inboxHead /\ t.received = s.received + r.content
         /\ t.remoteDone = r.endStream /\ t.bodyWaiter = FALSE
         /\ t.recvWindow = s.recvWindow - r.hand /\ t.unacked = s.unacked
<1> DEFINE n == r.content
           h == r.hand
           e == r.endStream
           i == IF n = 0 THEN s.inbox ELSE Append(s.inbox, s.received + 1)
           c == s.received + n
           w == s.recvWindow - h
           t == [s EXCEPT !.inbox = i, !.received = c, !.remoteDone = e, !.recvWindow = w,
                          !.bodyWaiter = FALSE]
<1>1. i \in Seq(Nat) /\ c \in Nat /\ w \in Int /\ e \in BOOLEAN
  BY SlotFields DEF ReaderType
<1>4. delivered(s, n, h, e) = t
  BY DEF delivered
<1> HIDE DEF i, c, w
<1>2. t \in Slot
  BY <1>1 DEF Slot
<1>3. /\ t.inbox = i /\ t.inboxHead = s.inboxHead /\ t.received = c
      /\ t.remoteDone = e /\ t.bodyWaiter = FALSE /\ t.recvWindow = w
      /\ t.unacked = s.unacked
  BY DEF Slot
<1> HIDE DEF t
<1> QED BY <1>2, <1>3, <1>4 DEF i, c, w

LEMMA ReadSlot ==
  ASSUME NEW s \in Slot, unread(s) > 0, NEW read \in Seq(Nat), Inbox(s, read)
  PROVE  LET t == taken(s)
             p == s.inbox[s.inboxHead + 1] IN
         /\ t \in Slot /\ p = Len(read) + 1
         /\ Inbox(t, Append(read, p)) /\ unread(t) = unread(s) - 1
         /\ t.remoteDone = s.remoteDone /\ t.bodyWaiter = s.bodyWaiter
         /\ t.recvWindow = s.recvWindow /\ t.unacked = s.unacked
<1> DEFINE t == taken(s)
           head == s.inboxHead
           len == Len(s.inbox)
           n == Len(read)
<1>0. /\ head \in Nat /\ len \in Nat /\ n \in Nat /\ s.received = n + len - head
      /\ head < len /\ unread(s) = len - head
  BY SlotFields DEF Inbox, unread
<1>1. /\ t.inbox = IF len - head = 1 THEN <<>> ELSE s.inbox
      /\ t.inboxHead = IF len - head = 1 THEN 0 ELSE head + 1
      /\ t.received = s.received
      /\ t.remoteDone = s.remoteDone /\ t.bodyWaiter = s.bodyWaiter
      /\ t.recvWindow = s.recvWindow /\ t.unacked = s.unacked
  BY <1>0 DEF Slot, taken
<1>2. t \in Slot
  <2>1. <<>> \in Seq(Nat)
    OBVIOUS
  <2>2. CASE unread(s) = 1
    BY <2>1, <2>2 DEF Slot, taken
  <2>3. CASE unread(s) # 1
    <3>1. t = [s EXCEPT !.inboxHead = head + 1] /\ head + 1 \in Nat
      BY <1>0, <2>3 DEF taken
    <3> HIDE DEF t, head
    <3> QED BY <3>1 DEF Slot
  <2> QED BY <2>2, <2>3
<1>3. \A k \in 1..len : s.inbox[k] = s.received - len + k
  BY DEF Inbox
<1> HIDE DEF t, head, len, n
<1>4. s.inbox[head + 1] = n + 1
  <2>1. head + 1 \in 1..len
    BY <1>0
  <2> QED BY <1>0, <1>3, <2>1
<1>5. unread(t) = unread(s) - 1
  <2>1. CASE len - head = 1
    <3>1. t.inbox = <<>> /\ t.inboxHead = 0
      BY <1>1, <2>1
    <3> QED BY <1>0, <2>1, <3>1 DEF unread
  <2>2. CASE len - head # 1
    <3>1. t.inbox = s.inbox /\ t.inboxHead = head + 1
      BY <1>1, <2>2
    <3> QED BY <1>0, <3>1 DEF unread, len
  <2> QED BY <2>1, <2>2
<1>6. Inbox(t, Append(read, n + 1))
  <2>1. Len(Append(read, n + 1)) = n + 1
    BY DEF n
  <2>2. CASE len - head = 1
    <3>1. t.inbox = <<>> /\ t.inboxHead = 0 /\ t.received = n + 1
      BY <1>0, <1>1, <2>2
    <3> QED BY <2>1, <3>1, <1>0 DEF Inbox, unread
  <2>3. CASE len - head # 1
    <3>1. t.inbox = s.inbox /\ t.inboxHead = head + 1 /\ t.received = s.received
      BY <1>1, <2>3
    <3>2. t.inboxHead <= Len(t.inbox)
      BY <1>0, <2>3, <3>1 DEF len
    <3>3. Len(Append(read, n + 1)) + unread(t) = t.received
      BY <1>0, <1>5, <2>1, <3>1
    <3> QED BY <1>3, <3>1, <3>2, <3>3 DEF Inbox, len
  <2> QED BY <2>2, <2>3
<1> QED BY <1>0, <1>1, <1>2, <1>4, <1>5, <1>6 DEF t, head, n

-----------------------------------------------------------------------------
(* How the parts of the invariant follow from what a step does.             *)
Inductive == Streams /\ ConnBooks

LEMMA SlotsType ==
  ASSUME TypeOK, NEW a \in Ids,
         \/ \E t \in Slot : Becomes(a, t)
         \/ Gone(a)
         \/ streams' = streams
  PROVE  DOMAIN streams' \subseteq Ids /\ \A i \in DOMAIN streams' : streams'[i] \in Slot
BY DEF TypeOK, Becomes, Gone

LEMMA UnreadType == \A s \in Slot : unread(s) \in Int
BY SlotFields DEF unread

LEMMA BytesType ==
  /\ TypeOK => {connRecvWindow, connUnacked, reader.hand, unsettled} \subseteq Int
  /\ TypeOK' => {connRecvWindow', connUnacked', reader'.hand, unsettled'} \subseteq Int
<1>1. TypeOK => {connRecvWindow, connUnacked, reader.hand, unsettled} \subseteq Int
  BY DEF TypeOK
<1>2. TypeOK' => {connRecvWindow', connUnacked', reader'.hand, unsettled'} \subseteq Int
  BY DEF TypeOK
<1> QED BY <1>1, <1>2

LEMMA OwedType == ASSUME TypeOK, NEW i \in Ids PROVE owed(i) \in Int /\ hand[i] \in Int
BY UnreadType DEF TypeOK, owed, open

LEMMA StillOwed ==
  ASSUME NEW i \in Ids, Still(i)
  PROVE  owed(i)' = owed(i) /\ hand'[i] = hand[i]
BY DEF Still, owed, open, unread

LEMMA ReaderStays == ASSUME NEW i \in Ids, StreamOK(i), reader' = reader PROVE ReaderPasses(i)
BY DEF ReaderPasses, StreamOK, Body, resetting, padding, open

(* A step on one stream keeps the invariant if it keeps that stream's part, *)
(* leaves the others alone and moves as many bytes as it removes.           *)
LEMMA OneStream ==
  ASSUME Inductive, NEW a \in Ids, TypeOK', ReaderShape', StreamOK(a)',
         \A i \in Ids \ {a} : Still(i) /\ ReaderPasses(i),
         connRecvWindow' + connUnacked' + reader'.hand + unsettled' + owed(a)' + hand'[a]
           = connRecvWindow + connUnacked + reader.hand + unsettled + owed(a) + hand[a]
  PROVE  Inductive'
<1> USE DEF Inductive
<1>1. Streams'
  BY StillOK DEF Streams
<1>2. ConnBooks'
  <2> DEFINE f == [i \in Ids |-> owed(i) + hand[i]]
             g == [i \in Ids |-> owed(i)' + hand'[i]]
             F == SumFunctionOnSet(f, Ids)
             G == SumFunctionOnSet(g, Ids)
  <2>1. \A i \in Ids : owed(i) \in Int /\ hand[i] \in Int
    BY OwedType DEF Streams
  <2>2. \A i \in Ids : owed(i)' \in Int /\ hand'[i] \in Int
    <3> SUFFICES ASSUME NEW i \in Ids PROVE owed(i)' \in Int /\ hand'[i] \in Int
      OBVIOUS
    <3>1. hand'[i] \in Int
      BY DEF TypeOK
    <3>2. i \in DOMAIN streams' => streams'[i] \in Slot
      BY DEF TypeOK
    <3>3. owed(i)' = IF i \in DOMAIN streams' THEN unread(streams'[i]) ELSE 0
      BY DEF owed, open, unread
    <3> QED BY <3>1, <3>2, <3>3, UnreadType
  <2>3. \A i \in Ids \ {a} : f[i] = g[i]
    BY StillOwed
  <2>4. \A i \in Ids : f[i] \in Int /\ g[i] \in Int
    BY <2>1, <2>2
  <2>5. f[a] = owed(a) + hand[a] /\ g[a] = owed(a)' + hand'[a]
    OBVIOUS
  <2> HIDE DEF f, g
  <2> HIDE DEF Inductive
  <2>6. F \in Int /\ G \in Int /\ G = F - (owed(a) + hand[a]) + (owed(a)' + hand'[a])
    <3>1. IsFiniteSet(Ids)
      BY ConfigAssumption
    <3>2. F \in Int /\ G \in Int
      BY <2>4, <3>1, SumType
    <3>3. G = F - f[a] + g[a]
      BY <2>3, <2>4, <3>1, SumChange
    <3> QED BY <2>5, <3>2, <3>3
  <2> USE DEF Inductive
  <2> HIDE DEF F, G
  <2>7. /\ {connRecvWindow, connUnacked, reader.hand, unsettled} \subseteq Int
        /\ {connRecvWindow', connUnacked', reader'.hand, unsettled'} \subseteq Int
    BY BytesType DEF Streams
  <2>8. connRecvWindow + connUnacked + reader.hand + F + unsettled = ConnWindow
    BY DEF ConnBooks, ConnCredit, F, f
  <2> HIDE DEF Inductive
  <2>9. connRecvWindow' + connUnacked' + reader'.hand + G + unsettled' = ConnWindow
    <3> DEFINE p == connRecvWindow + connUnacked + reader.hand + unsettled
               q == owed(a) + hand[a]
               p1 == connRecvWindow' + connUnacked' + reader'.hand + unsettled'
               q1 == owed(a)' + hand'[a]
    <3>1. {p, q, p1, q1} \subseteq Int
      BY <2>1, <2>2, <2>7
    <3>2. p1 + q1 = p + q
      BY <2>1, <2>2, <2>7
    <3>3. p + F = ConnWindow
      BY <2>6, <2>7, <2>8
    <3>4. G = F - q + q1 /\ F \in Int /\ G \in Int
      BY <2>6
    <3>5. connRecvWindow' + connUnacked' + reader'.hand + G + unsettled' = p1 + G
      BY <2>6, <2>7
    <3> HIDE DEF p, q, p1, q1
    <3> QED BY <3>1, <3>2, <3>3, <3>4, <3>5
  <2> QED BY <2>9 DEF ConnBooks, ConnCredit, G, g
<1> QED BY <1>1, <1>2

LEMMA NoStream ==
  ASSUME Inductive, TypeOK', ReaderShape', \A i \in Ids : Still(i) /\ ReaderPasses(i),
         connRecvWindow' + connUnacked' + reader'.hand + unsettled'
           = connRecvWindow + connUnacked + reader.hand + unsettled
  PROVE  Inductive'
<1>1. CASE Ids = {}
  <2>1. Streams'
    BY <1>1 DEF Streams
  <2>3. ASSUME NEW f PROVE SumFunctionOnSet(f, Ids) = 0
    BY <1>1, SumEmpty
  <2>4. ConnCredit + unsettled = ConnWindow
    BY DEF Inductive, ConnBooks
  <2>5. ConnCredit' + unsettled' = ConnWindow
    BY <2>3, <2>4, BytesType DEF ConnCredit, Inductive, Streams
  <2> QED BY <2>1, <2>5 DEF Inductive, ConnBooks
<1>2. ASSUME NEW a \in Ids PROVE Inductive'
  <2>1. StreamOK(a)'
    BY StillOK DEF Inductive, Streams
  <2>2. owed(a)' = owed(a) /\ hand'[a] = hand[a] /\ owed(a) \in Int /\ hand[a] \in Int
    BY StillOwed, OwedType DEF Inductive, Streams
  <2>3. /\ {connRecvWindow, connUnacked, reader.hand, unsettled} \subseteq Int
        /\ {connRecvWindow', connUnacked', reader'.hand, unsettled'} \subseteq Int
    BY BytesType DEF Streams, Inductive
  <2>4. connRecvWindow' + connUnacked' + reader'.hand + unsettled' + owed(a)' + hand'[a]
          = connRecvWindow + connUnacked + reader.hand + unsettled + owed(a) + hand[a]
    BY <2>2, <2>3
  <2> QED BY <2>1, <2>4, OneStream
<1> QED BY <1>1, <1>2

LEMMA GoneOK ==
  ASSUME NEW a \in Ids, StreamOK(a), ~open(a)',
         a \in closed' \/ hpc'[a] = "none", got'[a] = got[a],
         sawEnd'[a] = sawEnd[a], hpc'[a] = "none" => hpc[a] = "none",
         hand'[a] = IF hpc'[a] = "return" THEN 1 ELSE 0
  PROVE  StreamOK(a)'
BY DEF StreamOK, Life, Body, Credit, Asleep, open

(* A slot of which only what is sent has changed.                           *)
Like(t, s) ==
  /\ t.inbox = s.inbox /\ t.inboxHead = s.inboxHead /\ t.received = s.received
  /\ t.remoteDone = s.remoteDone /\ t.recvWindow = s.recvWindow
  /\ t.unacked = s.unacked /\ t.bodyWaiter = s.bodyWaiter

LEMMA HandlerMoves ==
  ASSUME NEW a \in Ids, StreamOK(a), open(a)' = open(a),
         open(a) => Like(streams'[a], streams[a]), closed' = closed,
         hpc[a] \notin {"none", "return"}, hpc'[a] \notin {"none", "return", "wait"},
         hand'[a] = hand[a], got'[a] = got[a], sawEnd'[a] = sawEnd[a], reader' = reader
  PROVE  StreamOK(a)'
<1> USE DEF StreamOK, open
<1>1. Life(a)'
  BY DEF Life
<1>2. Body(a)'
  BY DEF Body, Inbox, Like, unread
<1>3. Credit(a)'
  BY DEF Credit, Like, unread, resetting, padding
<1>4. Asleep(a)'
  BY DEF Asleep
<1> QED BY <1>1, <1>2, <1>3, <1>4

-----------------------------------------------------------------------------
(* The reader's steps.                                                      *)
LEMMA StatusOpen ==
  ASSUME NEW id \in Ids
  PROVE  /\ streamStatus(id) = "idle" => ~open(id) /\ id \notin closed
         /\ streamStatus(id) = "active" => open(id)
         /\ streamStatus(id) \in {"idle", "active", "resetByUs", "resetByPeer",
                                  "closedNormally"}
BY DEF streamStatus, open

(* A closed connection: every waiter that is in a slot is woken.            *)
LEMMA CloseKeeps ==
  ASSUME TypeOK, close, NEW id \in Ids, UNCHANGED <<streams, closed, hpc, hand, got, sawEnd>>
  PROVE  Still(id) /\ ReaderPasses(id) /\ reader'.hand = reader.hand /\ ReaderShape'
         /\ reader'.pc = "stopped"
<1>1. reader'.pc = "stopped" /\ reader'.id = reader.id /\ reader'.hand = reader.hand
  BY DEF close, TypeOK
<1>2. Still(id)
  BY DEF Still, close, open, TypeOK
<1>3. ReaderPasses(id)
  BY <1>1 DEF ReaderPasses, resetting, padding
<1>4. ReaderShape'
  BY <1>1 DEF ReaderShape
<1> QED BY <1>1, <1>2, <1>3, <1>4

LEMMA CloseType ==
  ASSUME TypeOK, close
  PROVE  /\ isClosed' \in BOOLEAN /\ woken' \in [Ids -> BOOLEAN]
         /\ reader' \in ReaderType
BY DEF TypeOK, close, ReaderAt, open, ReaderType

LEMMA IdleType ==
  IdleReader \in ReaderType /\ IdleReader.pc = "next" /\ IdleReader.hand = 0
BY DEF IdleReader, ReaderAt, ReaderType

LEMMA AtType ==
  ASSUME NEW pc \in ReaderAt, NEW id \in Ids
  PROVE  /\ at(pc, id) \in ReaderType
         /\ at(pc, id).pc = pc /\ at(pc, id).id = id /\ at(pc, id).hand = 0
BY IdleType DEF at, ReaderType

LEMMA OpenStep ==
  ASSUME Inductive, NEW id \in Ids, NEW e \in BOOLEAN, NEW l \in Lengths, NEW fate,
         OpenStream(id, e, l, fate)
  PROVE  Inductive'
<1>0. /\ ~open(id) /\ id \notin closed /\ reader' = reader /\ TypeOK /\ ReaderShape
      /\ reader.pc = "next" /\ frames' \in 0..MaxFrames /\ ReaderShape' /\ owed(id) = 0
      /\ \A i \in Ids : StreamOK(i) /\ ReaderPasses(i)
  <2>1. reader' = reader /\ reader.pc = "next" /\ frames' \in 0..MaxFrames
    BY ConfigAssumption DEF OpenStream, NextFrame, Inductive, Streams, TypeOK
  <2>2. ~open(id) /\ id \notin closed /\ owed(id) = 0
    BY StatusOpen DEF OpenStream, owed
  <2>3. ReaderShape'
    BY <2>1 DEF ReaderShape, Inductive, Streams
  <2> QED BY <2>1, <2>2, <2>3, ReaderStays DEF Inductive, Streams
<1>1. CASE goingAway
  <2>1. UNCHANGED <<streams, conn, window, handlers>>
    BY <1>1 DEF OpenStream
  <2>2. TypeOK'
    BY <1>0, <2>1 DEF TypeOK, conn, window, handlers
  <2>3. \A i \in Ids : Still(i)
    BY <2>1 DEF Still, conn, window, handlers, open
  <2> QED BY <1>0, <2>1, <2>2, <2>3, NoStream DEF window
<1>2. CASE ~goingAway
  <2>0. /\ UNCHANGED <<clientResets, isClosed, goingAway, connRecvWindow, woken, hand, got,
                       sawEnd>>
        /\ lastClientStream' = id
    BY <1>2 DEF OpenStream
  <2>1. ASSUME NEW u \in BOOLEAN, retire(id, 0, u, FALSE), UNCHANGED hpc
        PROVE  Inductive'
    <3>0. TypeOK /\ 0 \in Nat /\ retire(id, 0, u, FALSE)
      BY <1>0, <2>1
    <3>1. /\ Gone(id) /\ closed' = closed \cup {id}
          /\ {closed', resetByUs', resetByPeer'} \subseteq SUBSET Ids
          /\ connUnacked' \in Nat /\ unsettled' \in Int
          /\ connUnacked' + unsettled' = connUnacked + unsettled + owed(id)
      BY ONLY <3>0, RetireEffect
    <3>2. DOMAIN streams' \subseteq Ids /\ \A i \in DOMAIN streams' : streams'[i] \in Slot
      BY <1>0, <3>1, SlotsType
    <3>3. TypeOK'
      BY <1>0, <2>0, <2>1, <3>1, <3>2, ConfigAssumption DEF TypeOK
    <3>4. \A i \in Ids \ {id} : Still(i)
      BY <2>0, <2>1, <3>1 DEF Still, Gone, open
    <3>5. StreamOK(id)'
      BY <1>0, <2>0, <2>1, <3>1, GoneOK DEF Gone, open, StreamOK, Life
    <3>6. owed(id)' = 0
      BY <3>1 DEF Gone, owed, open
    <3> QED BY <1>0, <2>0, <3>1, <3>3, <3>4, <3>5, <3>6, OneStream, BytesType, OwedType
  <2>2. ASSUME streams' = [i \in DOMAIN streams \cup {id} |->
                             IF i = id THEN newSlot(e, l) ELSE streams[i]],
               hpc' = [hpc EXCEPT ![id] = "run"],
               UNCHANGED <<closed, resetByUs, resetByPeer, connUnacked, unsettled>>
        PROVE  Inductive'
    <3>1. TypeOK'
      BY <1>0, <2>0, <2>2, NewSlotType, ConfigAssumption DEF TypeOK, HandlerAt
    <3>2. \A i \in Ids \ {id} : Still(i)
      BY <1>0, <2>0, <2>2 DEF Still, open, TypeOK
    <3>3. hpc[id] = "none" /\ hpc'[id] = "run" /\ got[id] = <<>> /\ hand[id] = 0 /\ ~sawEnd[id]
      BY <1>0, <2>2 DEF StreamOK, Life, TypeOK
    <3>4. open(id)' /\ streams'[id] = newSlot(e, l)
      BY <2>2 DEF open
    <3>5. Life(id)'
      BY <1>0, <2>0, <2>2, <3>3, <3>4 DEF Life
    <3>6. Inbox(newSlot(e, l), <<>>) /\ unread(newSlot(e, l)) = 0
      BY DEF newSlot, unread, Inbox
    <3>7. Body(id)'
      BY <1>0, <2>0, <3>3, <3>4, <3>6 DEF Body, Inbox, unread
    <3>8. Credit(id)'
      <4>1. /\ newSlot(e, l).recvWindow = InitialWindow /\ newSlot(e, l).unacked = 0
            /\ padding(reader, id)' = 0 /\ InitialWindow \in Int
        BY <1>0, ConfigAssumption DEF newSlot, padding
      <4> QED BY <2>0, <3>3, <3>4, <3>6, <4>1 DEF Credit, unread
    <3>9. Asleep(id)'
      BY <3>3 DEF Asleep
    <3>10. owed(id)' = 0
      BY <3>4, <3>6 DEF owed, unread
    <3> QED BY <1>0, <2>0, <2>2, <3>1, <3>2, <3>5, <3>7, <3>8, <3>9, <3>10, OneStream
            DEF StreamOK
  <2> QED BY <1>2, <2>1, <2>2 DEF OpenStream
<1> QED BY <1>1, <1>2

(* The reader moves on, or is still where it was on another stream.         *)
LEMMA Passes ==
  ASSUME NEW i, reader'.pc \notin {"deliver", "padding"},
         reader.pc \notin {"padding", "error", "stopped"} \/ reader.id # i
  PROVE  ReaderPasses(i)
BY DEF ReaderPasses, resetting, padding

(* Only the reader moves.                                                   *)
LEMMA ReaderOnly ==
  ASSUME Inductive, UNCHANGED <<streams, closed, resetByUs, resetByPeer, connUnacked, unsettled,
                                clientResets, isClosed, woken, hpc, hand, got, sawEnd>>,
         lastClientStream' \in Nat, goingAway' \in BOOLEAN, frames' \in 0..MaxFrames,
         connRecvWindow' \in Int, reader' \in ReaderType, ReaderShape',
         connRecvWindow' + reader'.hand = connRecvWindow + reader.hand,
         \A i \in Ids : ReaderPasses(i)
  PROVE  Inductive'
<1>1. TypeOK /\ TypeOK'
  BY DEF Inductive, Streams, TypeOK, ReaderType
<1>2. \A i \in Ids : Still(i)
  BY DEF Still, open
<1>3. connRecvWindow' + connUnacked' + reader'.hand + unsettled'
        = connRecvWindow + connUnacked + reader.hand + unsettled
  BY <1>1, BytesType
<1> QED BY <1>1, <1>2, <1>3, NoStream

(* The connection is closed.                                                *)
LEMMA CloseStep ==
  ASSUME Inductive, close, frames' \in 0..MaxFrames,
         UNCHANGED <<streams, lastClientStream, closed, resetByUs, resetByPeer, clientResets,
                     goingAway, window, hpc, hand, got, sawEnd>>
  PROVE  Inductive'
<1>1. TypeOK
  BY DEF Inductive, Streams
<1>2. UNCHANGED <<streams, closed, hpc, hand, got, sawEnd, connRecvWindow, connUnacked, unsettled>>
  BY DEF window
<1>3. TypeOK'
  BY <1>1, <1>2, CloseType DEF TypeOK, ReaderType
<1>4. reader'.hand = reader.hand /\ ReaderShape'
  <2>1. reader'.pc = "stopped" /\ reader'.hand = reader.hand
    BY <1>1 DEF close, TypeOK
  <2> QED BY <2>1 DEF ReaderShape
<1>5. \A i \in Ids : Still(i) /\ ReaderPasses(i)
  BY <1>1, <1>2, CloseKeeps
<1> QED BY <1>2, <1>3, <1>4, <1>5, NoStream

LEMMA FrameTaken ==
  ASSUME Inductive, NextFrame
  PROVE  /\ reader.pc = "next" /\ reader.hand = 0 /\ frames' \in 0..MaxFrames
         /\ TypeOK /\ connRecvWindow \in Int /\ reader \in ReaderType /\ ReaderShape
         /\ goingAway \in BOOLEAN /\ lastClientStream \in Nat
BY ConfigAssumption DEF NextFrame, Inductive, Streams, TypeOK, ReaderShape, ReaderType

LEMMA ReaderAtStep ==
  ASSUME Inductive, NextFrame, NEW id \in Ids,
         NEW pc \in {"error", "trailers", "rst"},
         reader' \in ReaderType, reader'.pc = pc, reader'.id = id, reader'.hand = 0,
         UNCHANGED <<streams, closed, resetByUs, resetByPeer, window,
                     clientResets, isClosed, goingAway, woken, hpc, hand, got, sawEnd>>,
         lastClientStream' \in Nat
  PROVE  Inductive'
<1>1. ReaderShape'
  BY DEF ReaderShape
<1>2. \A i \in Ids : ReaderPasses(i)
  BY FrameTaken, Passes
<1> QED BY <1>1, <1>2, FrameTaken, ReaderOnly DEF window

LEMMA Ignored ==
  ASSUME Inductive, NextFrame, UNCHANGED <<streams, closed, resetByUs, resetByPeer, window, reader,
                     lastClientStream, clientResets, isClosed, woken, hpc, hand, got, sawEnd>>,
         goingAway' \in BOOLEAN
  PROVE  Inductive'
<1>1. ReaderShape'
  BY FrameTaken DEF ReaderShape
<1>2. \A i \in Ids : ReaderPasses(i)
  BY ReaderStays DEF Inductive, Streams
<1> QED BY <1>1, <1>2, FrameTaken, ReaderOnly DEF window

LEMMA LateHeadersStep ==
  ASSUME Inductive, NEW id \in Ids, NEW e \in BOOLEAN, LateHeaders(id, e)
  PROVE  Inductive'
<1>0. /\ NextFrame /\ frames' \in 0..MaxFrames /\ TypeOK
      /\ UNCHANGED <<streams, lastClientStream, closed, resetByUs, resetByPeer, clientResets,
                     goingAway, window, hpc, hand, got, sawEnd>>
      /\ lastClientStream' \in Nat /\ goingAway' \in BOOLEAN
  BY FrameTaken DEF LateHeaders
<1>1. CASE close
  BY <1>0, <1>1, CloseStep
<1>2. CASE streamStatus(id) = "active"
  <2>1. PICK pc \in {"error", "trailers"} : reader' = at(pc, id)
    BY <1>2 DEF LateHeaders
  <2>2. UNCHANGED <<isClosed, woken>>
    BY <1>2 DEF LateHeaders
  <2>3. /\ reader' \in ReaderType /\ reader'.pc = pc /\ reader'.id = id /\ reader'.hand = 0
        /\ pc \in {"error", "trailers", "rst"}
    BY <2>1, AtType DEF ReaderAt
  <2> QED BY <1>0, <2>2, <2>3, ReaderAtStep
<1>3. CASE UNCHANGED <<reader, isClosed, woken>>
  BY <1>0, <1>3, Ignored
<1> QED BY <1>1, <1>2, <1>3 DEF LateHeaders

LEMMA BadFrameStep ==
  ASSUME Inductive, NEW id \in Ids, BadFrame(id)
  PROVE  Inductive'
<1>1. NextFrame /\ lastClientStream \in Nat /\ id \in Nat
  BY FrameTaken, ConfigAssumption DEF BadFrame
<1>2. lastClientStream' \in Nat
  BY <1>1 DEF BadFrame
<1>3. /\ reader' \in ReaderType /\ reader'.pc = "error" /\ reader'.id = id /\ reader'.hand = 0
  BY AtType DEF ReaderAt, BadFrame
<1> QED BY <1>1, <1>2, <1>3, ReaderAtStep DEF BadFrame, handlers

LEMMA RstStreamStep ==
  ASSUME Inductive, NEW id \in Ids, RstStream(id)
  PROVE  Inductive'
<1>0. /\ NextFrame /\ frames' \in 0..MaxFrames /\ TypeOK
      /\ UNCHANGED <<streams, lastClientStream, closed, resetByUs, resetByPeer, clientResets,
                     goingAway, window, hpc, hand, got, sawEnd>>
      /\ lastClientStream' \in Nat /\ goingAway' \in BOOLEAN
  BY FrameTaken DEF RstStream
<1>1. CASE close
  BY <1>0, <1>1, CloseStep
<1>2. CASE streamStatus(id) = "active"
  <2>1. /\ UNCHANGED <<isClosed, woken>>
        /\ reader' = [at("rst", id) EXCEPT !.credit = Len(streams[id].inbox),
                                           !.waiter = streams[id].bodyWaiter]
    BY <1>2 DEF RstStream
  <2>2. Len(streams[id].inbox) \in Nat /\ streams[id].bodyWaiter \in BOOLEAN
    BY <1>0, <1>2, StatusOpen, SlotFields DEF TypeOK, open
  <2>3. at("rst", id) \in ReaderType /\ at("rst", id).pc = "rst" /\ at("rst", id).id = id
        /\ at("rst", id).hand = 0
    BY AtType DEF ReaderAt
  <2>4. /\ reader' \in ReaderType /\ reader'.pc = "rst" /\ reader'.id = id /\ reader'.hand = 0
    BY <2>1, <2>2, <2>3 DEF ReaderType
  <2> QED BY <1>0, <2>1, <2>4, ReaderAtStep
<1>3. CASE UNCHANGED <<reader, isClosed, woken>>
  BY <1>0, <1>3, Ignored
<1> QED BY <1>1, <1>2, <1>3 DEF RstStream

LEMMA DataStep ==
  ASSUME Inductive, NEW id \in Ids, NEW content \in 0..1, NEW pad \in 0..1, NEW e \in BOOLEAN,
         Data(id, content, pad, e)
  PROVE  Inductive'
<1>0. /\ NextFrame /\ frames' \in 0..MaxFrames /\ TypeOK /\ reader.hand = 0
      /\ UNCHANGED <<streams, lastClientStream, closed, resetByUs, resetByPeer, clientResets,
                     goingAway, connUnacked, unsettled, hpc, hand, got, sawEnd>>
      /\ lastClientStream' \in Nat /\ goingAway' \in BOOLEAN /\ connRecvWindow \in Int
      /\ reader.pc = "next"
  BY FrameTaken DEF Data
<1>1. CASE content + pad > connRecvWindow
  BY <1>0, <1>1, CloseStep DEF Data, window
<1>2. CASE ~(content + pad > connRecvWindow)
  <2>1. /\ connRecvWindow' = connRecvWindow - (content + pad)
        /\ reader' = [at("status", id) EXCEPT !.content = content, !.hand = content + pad,
                                              !.endStream = e]
        /\ UNCHANGED <<isClosed, woken>>
    BY <1>2 DEF Data
  <2>2. at("status", id) \in ReaderType /\ at("status", id).pc = "status"
        /\ at("status", id).id = id
    BY AtType DEF ReaderAt
  <2>3. content + pad \in 0..2
    OBVIOUS
  <2>4. /\ reader' \in ReaderType /\ reader'.pc = "status" /\ reader'.id = id
        /\ reader'.hand = content + pad /\ reader'.content = content
    BY <2>1, <2>2, <2>3 DEF ReaderType
  <2>5. ReaderShape'
    BY <2>4 DEF ReaderShape
  <2>6. \A i \in Ids : ReaderPasses(i)
    BY <1>0, <2>4, Passes
  <2> QED BY <1>0, <2>1, <2>4, <2>5, <2>6, ReaderOnly
<1> QED BY <1>1, <1>2

(* What a returned byte does to the streams.                                *)
LEMMA Returned ==
  ASSUME TypeOK, NEW a \in Ids, NEW bytes \in Nat, returnWindow(a, bytes)
  PROVE  /\ DOMAIN streams' \subseteq Ids /\ \A i \in DOMAIN streams' : streams'[i] \in Slot
         /\ \A i \in Ids : open(i)' = open(i) /\ (open(i) /\ i # a => streams'[i] = streams[i])
         /\ open(a) => LET s == streams[a]
                           t == streams'[a] IN
              /\ s \in Slot /\ t \in Slot
              /\ t.inbox = s.inbox /\ t.inboxHead = s.inboxHead /\ t.received = s.received
              /\ t.remoteDone = s.remoteDone /\ t.bodyWaiter = s.bodyWaiter
              /\ t.recvWindow + t.unacked = s.recvWindow + s.unacked + bytes
         /\ owed(a)' = owed(a)
         /\ connRecvWindow' \in Int /\ connUnacked' \in Nat /\ unsettled' = unsettled
         /\ connRecvWindow' + connUnacked' = connRecvWindow + connUnacked + bytes
<1> DEFINE t == credited(streams[a], bytes)
<1>1. /\ open(a) => Becomes(a, t)
      /\ ~open(a) => streams' = streams
      /\ connRecvWindow' \in Int /\ connUnacked' \in Nat /\ unsettled' = unsettled
      /\ connRecvWindow' + connUnacked' = connRecvWindow + connUnacked + bytes
  BY ReturnEffect
<1>2. open(a) => /\ streams[a] \in Slot /\ t \in Slot
                 /\ t.inbox = streams[a].inbox /\ t.inboxHead = streams[a].inboxHead
                 /\ t.received = streams[a].received
                 /\ t.remoteDone = streams[a].remoteDone /\ t.bodyWaiter = streams[a].bodyWaiter
                 /\ t.recvWindow + t.unacked = streams[a].recvWindow + streams[a].unacked + bytes
  BY CreditedSlot DEF TypeOK, open
<1> HIDE DEF t
<1>3. DOMAIN streams' \subseteq Ids /\ \A i \in DOMAIN streams' : streams'[i] \in Slot
  BY <1>1, <1>2, SlotsType
<1>4. \A i \in Ids : open(i)' = open(i) /\ (open(i) /\ i # a => streams'[i] = streams[i])
  BY <1>1 DEF Becomes, open
<1>5. open(a) => streams'[a] = t
  BY <1>1 DEF Becomes
<1>6. owed(a)' = owed(a)
  BY <1>2, <1>4, <1>5 DEF owed, unread
<1> QED BY <1>1, <1>2, <1>3, <1>4, <1>5, <1>6

(* Bytes the reader returns for stream a.                                   *)
LEMMA ReaderReturns ==
  ASSUME Inductive, NEW a \in Ids, returnWindow(a, reader.hand), reader.id = a,
         reader.pc \in {"status", "padding"}, reader' \in ReaderType, ReaderShape',
         reader'.hand = 0, reader'.pc \notin {"deliver", "padding"},
         open(a) => IF reader.pc = "padding" THEN ~resetting(reader', a) ELSE resetting(reader', a),
         UNCHANGED <<lastClientStream, closed, resetByUs, resetByPeer, clientResets,
                     goingAway, hpc, hand, got, sawEnd, frames>>,
         isClosed' \in BOOLEAN, woken' \in [Ids -> BOOLEAN],
         \A i \in Ids : /\ woken[i] => woken'[i]
                        /\ isClosed' => isClosed \/ (open(i) /\ streams[i].bodyWaiter => woken'[i])
  PROVE  Inductive'
<1>1. /\ TypeOK /\ ReaderShape /\ reader.hand \in Nat /\ StreamOK(a)
      /\ hand[a] \in Int /\ owed(a) \in Int
  BY OwedType DEF Inductive, Streams, TypeOK
<1>2. /\ DOMAIN streams' \subseteq Ids /\ \A i \in DOMAIN streams' : streams'[i] \in Slot
      /\ \A i \in Ids : open(i)' = open(i) /\ (open(i) /\ i # a => streams'[i] = streams[i])
      /\ owed(a)' = owed(a)
      /\ connRecvWindow' \in Int /\ connUnacked' \in Nat /\ unsettled' = unsettled
      /\ connRecvWindow' + connUnacked' = connRecvWindow + connUnacked + reader.hand
  BY <1>1, Returned
<1>3. open(a) => LET s == streams[a]
                     t == streams'[a] IN
              /\ s \in Slot /\ t \in Slot
              /\ t.inbox = s.inbox /\ t.inboxHead = s.inboxHead /\ t.received = s.received
              /\ t.remoteDone = s.remoteDone /\ t.bodyWaiter = s.bodyWaiter
              /\ t.recvWindow + t.unacked = s.recvWindow + s.unacked + reader.hand
  BY <1>1, Returned
<1>4. TypeOK'
  BY <1>1, <1>2 DEF TypeOK, ReaderType
<1>5. \A i \in Ids \ {a} : Still(i) /\ ReaderPasses(i)
  BY <1>2, Passes DEF Still
<1>6. StreamOK(a)'
  <2>1. Life(a)'
    BY <1>1, <1>2 DEF StreamOK, Life
  <2>2. Body(a)'
    BY <1>1, <1>2, <1>3 DEF StreamOK, Body, Inbox, unread
  <2>3. Credit(a)'
    <3>1. CASE open(a) /\ reader.pc = "padding"
      <4>1. /\ padding(reader, a) = reader.hand /\ padding(reader, a)' = 0
            /\ ~resetting(reader, a) /\ unread(streams'[a]) = unread(streams[a])
        BY <1>1, <1>3, <3>1 DEF padding, resetting, unread
      <4>2. streams[a].recvWindow + streams[a].unacked + unread(streams[a])
               + hand[a] + reader.hand = InitialWindow
        BY <1>1, <3>1, <4>1 DEF StreamOK, Credit
      <4>3. /\ {streams[a].recvWindow, streams[a].unacked, streams'[a].recvWindow,
                streams'[a].unacked, unread(streams[a])} \subseteq Int
            /\ InitialWindow \in Int
        BY <1>3, <3>1, SlotFields, UnreadType, ConfigAssumption
      <4>4. streams'[a].recvWindow + streams'[a].unacked + unread(streams'[a])
               + hand[a] + 0 = InitialWindow
        BY <1>1, <1>3, <3>1, <4>1, <4>2, <4>3
      <4> QED BY <4>1, <4>4 DEF Credit, unread
    <3>2. CASE ~open(a) \/ reader.pc # "padding"
      BY <1>2, <3>2 DEF Credit, resetting
    <3> QED BY <3>1, <3>2
  <2>4. Asleep(a)'
    <3>1. open(a) => unread(streams'[a]) = unread(streams[a])
      BY <1>3 DEF unread
    <3> QED BY <1>1, <1>2, <1>3, <3>1 DEF StreamOK, Asleep, unread
  <2> QED BY <2>1, <2>2, <2>3, <2>4 DEF StreamOK
<1>7. connRecvWindow' + connUnacked' + reader'.hand + unsettled' + owed(a)' + hand'[a]
        = connRecvWindow + connUnacked + reader.hand + unsettled + owed(a) + hand[a]
  <2>1. {connRecvWindow, connUnacked, unsettled} \subseteq Int
    BY <1>1, BytesType
  <2> QED BY <1>1, <1>2, <2>1
<1> QED BY <1>4, <1>5, <1>6, <1>7, OneStream

LEMMA DataStatusStep ==
  ASSUME Inductive, DataStatus
  PROVE  Inductive'
<1> DEFINE id == reader.id
           bad == /\ streamStatus(id) = "active"
                  /\ \/ streams[id].remoteDone
                     \/ reader.hand > streams[id].recvWindow
                     \/ wrongLength(streams[id], streams[id].received + reader.content,
                                    reader.endStream)
<1>0. /\ reader.pc = "status" /\ id \in Ids /\ TypeOK /\ reader \in ReaderType /\ ReaderShape
      /\ UNCHANGED <<lastClientStream, closed, resetByUs, resetByPeer, clientResets, goingAway,
                     hpc, hand, got, sawEnd, frames>>
      /\ isClosed \in BOOLEAN /\ woken \in [Ids -> BOOLEAN] /\ frames \in 0..MaxFrames
      /\ StreamOK(id) /\ goingAway \in BOOLEAN
      /\ lastClientStream \in Nat /\ connRecvWindow \in Int
  BY DEF DataStatus, Inductive, Streams, TypeOK, ReaderShape, ReaderType
<1>1. CASE streamStatus(id) = "idle"
  <2>1. close /\ UNCHANGED <<streams, window>>
    BY <1>1 DEF DataStatus
  <2> QED BY <1>0, <2>1, CloseStep
<1>2. CASE streamStatus(id) = "active" /\ ~bad
  <2>1. /\ reader' = [reader EXCEPT !.pc = "deliver"]
        /\ UNCHANGED <<streams, window, isClosed, woken>>
    BY <1>2 DEF DataStatus
  <2>2. /\ reader' \in ReaderType /\ reader'.pc = "deliver" /\ reader'.id = id
        /\ reader'.hand = reader.hand /\ reader'.content = reader.content
    BY <1>0, <2>1 DEF ReaderType, ReaderAt
  <2>3. ReaderShape'
    BY <1>0, <2>2 DEF ReaderShape
  <2>4. \A i \in Ids : ReaderPasses(i)
    BY <1>0, <1>2, <2>2 DEF ReaderPasses, resetting, padding
  <2> QED BY <1>0, <2>1, <2>2, <2>3, <2>4, ReaderOnly DEF window
<1>3. CASE bad
  <2>1. /\ returnWindow(id, reader.hand)
        /\ reader' = [reader EXCEPT !.pc = "error", !.hand = 0]
        /\ UNCHANGED <<isClosed, woken>>
    BY <1>3 DEF DataStatus
  <2>2. reader' \in ReaderType /\ reader'.pc = "error" /\ reader'.id = id /\ reader'.hand = 0
    <3>1. "error" \in ReaderAt /\ 0 \in 0..2
      BY DEF ReaderAt
    <3> QED BY <1>0, <2>1, <3>1 DEF ReaderType
  <2>3. ReaderShape' /\ resetting(reader', id)
    BY <1>0, <2>2 DEF ReaderShape, resetting
  <2> HIDE DEF bad, id
  <2> QED BY <1>0, <2>1, <2>2, <2>3, ReaderReturns DEF id
<1>4. CASE streamStatus(id) \in {"resetByUs", "resetByPeer"}
  <2>1. /\ returnWindow(id, reader.hand)
        /\ reader' = IdleReader
        /\ UNCHANGED <<isClosed, woken>>
    BY <1>4 DEF DataStatus
  <2>2. ~open(id)
    BY <1>4 DEF streamStatus
  <2>3. ReaderShape'
    BY <2>1, IdleType DEF ReaderShape
  <2>4. reader' \in ReaderType /\ reader'.pc = "next" /\ reader'.hand = 0
    BY <2>1, IdleType
  <2> HIDE DEF bad, id
  <2> QED BY <1>0, <2>1, <2>2, <2>3, <2>4, ReaderReturns DEF id
<1>5. CASE streamStatus(id) = "closedNormally"
  <2>1. /\ returnWindow(id, reader.hand)
        /\ isClosed' = TRUE
        /\ reader' = [reader EXCEPT !.pc = "stopped", !.hand = 0]
        /\ woken' = [i \in Ids |-> woken[i] \/ (open(i) /\ streams[i].bodyWaiter)]
    BY <1>5 DEF DataStatus
  <2>2. reader' \in ReaderType /\ reader'.pc = "stopped" /\ reader'.id = id /\ reader'.hand = 0
    <3>1. "stopped" \in ReaderAt /\ 0 \in 0..2
      BY DEF ReaderAt
    <3> QED BY <1>0, <2>1, <3>1 DEF ReaderType
  <2>3. ReaderShape' /\ resetting(reader', id)
    BY <1>0, <2>2 DEF ReaderShape, resetting
  <2>4. /\ isClosed' \in BOOLEAN /\ woken' \in [Ids -> BOOLEAN]
        /\ \A i \in Ids : /\ woken[i] => woken'[i]
                          /\ open(i) /\ streams[i].bodyWaiter => woken'[i]
    BY <1>0, <2>1 DEF TypeOK, open
  <2> HIDE DEF bad, id
  <2> QED BY <1>0, <2>1, <2>2, <2>3, <2>4, ReaderReturns DEF id
<1> QED BY <1>0, <1>1, <1>2, <1>3, <1>4, <1>5, StatusOpen

LEMMA PaddingStep ==
  ASSUME Inductive, Padding
  PROVE  Inductive'
<1> DEFINE id == reader.id
<1>0. /\ reader.pc = "padding" /\ id \in Ids /\ TypeOK /\ reader \in ReaderType /\ ReaderShape
      /\ UNCHANGED <<lastClientStream, closed, resetByUs, resetByPeer, clientResets, goingAway,
                     isClosed, woken, hpc, hand, got, sawEnd, frames>>
      /\ isClosed \in BOOLEAN /\ woken \in [Ids -> BOOLEAN] /\ frames \in 0..MaxFrames
      /\ StreamOK(id) /\ goingAway \in BOOLEAN
      /\ lastClientStream \in Nat /\ connRecvWindow \in Int
  BY DEF Padding, Inductive, Streams, TypeOK, ReaderShape, ReaderType, conn, handlers
<1>1. reader' = [reader EXCEPT !.pc = "settle", !.hand = 0]
  BY DEF Padding
<1>2. reader' \in ReaderType /\ reader'.pc = "settle" /\ reader'.id = id /\ reader'.hand = 0
  <2>1. "settle" \in ReaderAt /\ 0 \in 0..2
    BY DEF ReaderAt
  <2> QED BY <1>0, <1>1, <2>1 DEF ReaderType
<1>3. ReaderShape' /\ ~resetting(reader', id)
  BY <1>0, <1>2 DEF ReaderShape, resetting
<1>4. CASE reader.hand > 0
  <2>1. returnWindow(id, reader.hand)
    BY <1>4 DEF Padding
  <2> HIDE DEF id
  <2> QED BY <1>0, <1>2, <1>3, <2>1, ReaderReturns DEF id
<1>5. CASE ~(reader.hand > 0)
  <2>1. UNCHANGED <<streams, window>> /\ reader.hand = 0
    BY <1>0, <1>5 DEF Padding, ReaderType
  <2>2. \A i \in Ids : ReaderPasses(i)
    BY <1>0, <1>2, <2>1 DEF ReaderPasses, resetting, padding
  <2> QED BY <1>0, <1>2, <1>3, <2>1, <2>2, ReaderOnly DEF window
<1> QED BY <1>4, <1>5

LEMMA DeliverStep ==
  ASSUME Inductive, Deliver
  PROVE  Inductive'
<1>id. PICK id \in Ids : id = reader.id
  BY DEF Deliver, Inductive, Streams, ReaderShape
<1> DEFINE n == reader.content
           h == reader.hand
<1>0. /\ reader.pc = "deliver" /\ id = reader.id /\ TypeOK /\ reader \in ReaderType /\ ReaderShape
      /\ UNCHANGED <<lastClientStream, closed, resetByUs, resetByPeer, clientResets, goingAway,
                     isClosed, connRecvWindow, connUnacked, hpc, hand, got, sawEnd, frames>>
      /\ StreamOK(id) /\ n \in 0..1 /\ h \in Nat /\ h - n \in 0..1 /\ reader.endStream \in BOOLEAN
      /\ woken \in [Ids -> BOOLEAN] /\ unsettled \in Int
  BY <1>id DEF Deliver, Inductive, Streams, TypeOK, ReaderShape, ReaderType, conn
<1>1. reader' = [reader EXCEPT !.pc = "padding", !.hand = h - n]
  BY DEF Deliver
<1>2. reader' \in ReaderType /\ reader'.pc = "padding" /\ reader'.id = id /\ reader'.hand = h - n
  <2>1. "padding" \in ReaderAt /\ h - n \in 0..2
    BY <1>0 DEF ReaderAt
  <2> QED BY <1>0, <1>1, <2>1 DEF ReaderType
<1>3. ReaderShape'
  BY <1>0, <1>2 DEF ReaderShape
<1>4. \A i \in Ids \ {id} : ReaderPasses(i)
  BY <1>0, <1>2 DEF ReaderPasses, resetting, padding
<1>5. CASE ~open(id)
  <2>1. unsettled' = unsettled + n /\ UNCHANGED <<streams, woken>>
    BY <1>id, <1>5 DEF Deliver
  <2>2. TypeOK'
    BY <1>0, <1>2, <2>1 DEF TypeOK, ReaderType
  <2>3. \A i \in Ids : Still(i)
    BY <1>0, <2>1 DEF Still, open
  <2>4. \A i \in Ids : ReaderPasses(i)
    BY <1>4, <1>5 DEF ReaderPasses
  <2>5. {connRecvWindow, connUnacked} \subseteq Int
    BY <1>0 DEF TypeOK
  <2>6. connRecvWindow' + connUnacked' + reader'.hand + unsettled'
          = connRecvWindow + connUnacked + reader.hand + unsettled
    BY <1>0, <1>2, <2>1, <2>5
  <2> QED BY <1>3, <2>2, <2>3, <2>4, <2>6, NoStream
<1>6. CASE open(id)
  <2> DEFINE s == streams[id]
             e == reader.endStream
             t == delivered(s, n, h, e)
  <2>0. /\ Becomes(id, t) /\ unsettled' = unsettled
        /\ woken' = IF s.bodyWaiter THEN [woken EXCEPT ![id] = TRUE] ELSE woken
    <3>1. /\ streams' = [streams EXCEPT ![id] = t] /\ unsettled' = unsettled
          /\ woken' = IF s.bodyWaiter THEN [woken EXCEPT ![id] = TRUE] ELSE woken
      <4>1. streams' = [streams EXCEPT ![id] = t]
        BY <1>id, <1>6 DEF Deliver, delivered
      <4>2. /\ unsettled' = unsettled
            /\ woken' = IF s.bodyWaiter THEN [woken EXCEPT ![id] = TRUE] ELSE woken
        BY <1>id, <1>6 DEF Deliver, wake
      <4> QED BY <4>1, <4>2
    <3> HIDE DEF t
    <3> QED BY <1>6, <3>1 DEF Becomes, open
  <2>1. s \in Slot
    BY <1>0, <1>6 DEF TypeOK, open
  <2>2. /\ t \in Slot
        /\ t.inbox = IF n = 0 THEN s.inbox ELSE Append(s.inbox, s.received + 1)
        /\ t.inboxHead = s.inboxHead /\ t.received = s.received + n
        /\ t.remoteDone = e /\ t.bodyWaiter = FALSE
        /\ t.recvWindow = s.recvWindow - h /\ t.unacked = s.unacked
    BY <1>0, <2>1, DeliveredSlot
  <2> HIDE DEF t
  <2>3. DOMAIN streams' \subseteq Ids /\ \A i \in DOMAIN streams' : streams'[i] \in Slot
    BY <1>0, <2>0, <2>2, SlotsType
  <2>4. TypeOK'
    BY <1>0, <1>2, <2>0, <2>3 DEF TypeOK, ReaderType
  <2>5. \A i \in Ids \ {id} : Still(i)
    BY <1>0, <2>0 DEF Still, Becomes, open
  <2>6. open(id)' /\ streams'[id] = t
    BY <2>0 DEF Becomes, open
  <2>7. Inbox(s, got[id]) /\ ~s.remoteDone /\ ~sawEnd[id]
    BY <1>0, <1>6 DEF StreamOK, Body
  <2>8. Len(got[id]) \in Nat /\ unread(s) \in Int
    BY <1>0, <2>1, UnreadType DEF TypeOK
  <2>9. unread(t) = unread(s) + n /\ Inbox(t, got[id])
    <3>1. CASE n = 0
      <4>1. t.inbox = s.inbox /\ t.inboxHead = s.inboxHead /\ t.received = s.received
        BY <2>1, <2>2, <3>1, SlotFields
      <4> QED BY <2>7, <2>8, <3>1, <4>1 DEF Inbox, unread
    <3>2. CASE n = 1
      <4> DEFINE len == Len(s.inbox)
      <4>1. /\ s.inbox \in Seq(Nat) /\ len \in Nat /\ s.received \in Nat /\ s.inboxHead \in Nat
        BY <2>1, SlotFields
      <4>2. /\ t.inbox = Append(s.inbox, s.received + 1) /\ t.inboxHead = s.inboxHead
            /\ t.received = s.received + 1
        BY <2>2, <3>2
      <4>3. Len(t.inbox) = len + 1
        BY <4>1, <4>2
      <4>4. unread(t) = unread(s) + 1
        BY <4>1, <4>2, <4>3 DEF unread
      <4>5. \A k \in 1..(len + 1) : t.inbox[k] = IF k <= len THEN s.inbox[k] ELSE s.received + 1
        BY <4>1, <4>2
      <4>6. \A k \in 1..(len + 1) : t.inbox[k] = t.received - (len + 1) + k
        <5>1. \A k \in 1..len : s.inbox[k] = s.received - len + k
          BY <2>7 DEF Inbox
        <5> DEFINE r == s.received
        <5>2. t.received = r + 1 /\ r \in Nat /\ len \in Nat
          BY <4>1, <4>2
        <5> HIDE DEF len, r
        <5>3. \A k \in 1..len : s.inbox[k] = r - len + k
          BY <5>1 DEF r
        <5>4. \A k \in 1..(len + 1) : t.inbox[k] = IF k <= len THEN s.inbox[k] ELSE r + 1
          BY <4>5 DEF r
        <5>5. \A k \in 1..(len + 1) : t.inbox[k] = r + 1 - (len + 1) + k
          BY <5>2, <5>3, <5>4
        <5> QED BY <5>2, <5>5
      <4>7. Len(got[id]) + unread(t) = t.received
        <5>1. Len(got[id]) + unread(s) = s.received
          BY <2>7 DEF Inbox
        <5>2. t.received = s.received + 1
          BY <4>2
        <5> HIDE DEF s
        <5> QED BY <2>8, <4>1, <4>4, <5>1, <5>2
      <4>8. t.inboxHead <= Len(t.inbox)
        BY <2>7, <4>1, <4>2, <4>3 DEF Inbox
      <4> QED BY <3>2, <4>3, <4>4, <4>6, <4>7, <4>8 DEF Inbox
    <3> QED BY <1>0, <3>1, <3>2
  <2>10. StreamOK(id)'
    <3>1. Life(id)'
      BY <1>0, <1>6, <2>6 DEF StreamOK, Life
    <3>2. Body(id)'
      BY <1>0, <1>2, <2>6, <2>7, <2>9 DEF StreamOK, Body, Inbox, unread
    <3>3. Credit(id)'
      <4>1. s.recvWindow + s.unacked + unread(s) + hand[id] + 0 = InitialWindow
        <5>1. ~resetting(reader, id) /\ padding(reader, id) = 0
          BY <1>0 DEF resetting, padding
        <5> QED BY <1>0, <1>6, <5>1 DEF StreamOK, Credit
      <4>2. padding(reader', id) = h - n
        BY <1>2 DEF padding
      <4>3. s.recvWindow \in Int /\ s.unacked \in Int /\ hand[id] \in Int
        BY <1>0, <2>1, SlotFields, OwedType
      <4>4. t.recvWindow + t.unacked + unread(t) + hand[id] + (h - n) = InitialWindow
        <5>1. t.recvWindow = s.recvWindow - h /\ t.unacked = s.unacked /\ unread(t) = unread(s) + n
          BY <2>2, <2>9
        <5>2. n \in Int /\ h \in Int
          BY <1>0
        <5> HIDE DEF n, h, s
        <5> QED BY <2>8, <4>1, <4>3, <5>1, <5>2
      <4> QED BY <1>0, <2>6, <4>2, <4>4 DEF Credit, unread, padding
    <3>4. Asleep(id)'
      BY <1>0, <1>6, <2>0 DEF StreamOK, Asleep, TypeOK
    <3> QED BY <3>1, <3>2, <3>3, <3>4 DEF StreamOK
  <2>11. owed(id) = unread(s) /\ owed(id)' = unread(s) + n
    BY <1>6, <2>6, <2>9 DEF owed, unread
  <2>12. connRecvWindow' + connUnacked' + reader'.hand + unsettled' + owed(id)' + hand'[id]
           = connRecvWindow + connUnacked + reader.hand + unsettled + owed(id) + hand[id]
    <3>1. {connRecvWindow, connUnacked, hand[id]} \subseteq Int
      BY <1>0, OwedType DEF TypeOK
    <3>2. reader'.hand = h - n /\ reader.hand = h
      BY <1>2
    <3> HIDE DEF n, h
    <3>3. n \in Int /\ h \in Int /\ unread(s) \in Int /\ unsettled \in Int
      BY <1>0, <2>8
    <3> QED BY <1>0, <2>0, <2>11, <3>1, <3>2, <3>3
  <2> QED BY <1>0, <1>3, <1>4, <2>4, <2>5, <2>10, <2>12, OneStream
<1> QED BY <1>5, <1>6

LEMMA TrailersStep ==
  ASSUME Inductive, Trailers
  PROVE  Inductive'
<1>id. PICK id \in Ids : id = reader.id
  BY DEF Trailers, Inductive, Streams, ReaderShape
<1>0. /\ reader.pc = "trailers" /\ id = reader.id /\ TypeOK /\ reader \in ReaderType /\ ReaderShape
      /\ UNCHANGED <<lastClientStream, closed, resetByUs, resetByPeer, clientResets, goingAway,
                     isClosed, window, hpc, hand, got, sawEnd, frames>>
      /\ StreamOK(id) /\ reader.hand = 0 /\ woken \in [Ids -> BOOLEAN]
      /\ UNCHANGED <<connRecvWindow, connUnacked, unsettled>>
  BY <1>id DEF Trailers, Inductive, Streams, TypeOK, ReaderShape, ReaderType, conn, window
<1>1. CASE ~open(id)
  <2>1. reader' = IdleReader /\ UNCHANGED <<streams, woken>>
    BY <1>id, <1>1 DEF Trailers
  <2>2. ReaderShape'
    BY <2>1, IdleType DEF ReaderShape
  <2>3. \A i \in Ids : ReaderPasses(i)
    BY <1>0, <2>1, IdleType, Passes
  <2> QED BY <1>0, <2>1, <2>2, <2>3, IdleType, ReaderOnly DEF TypeOK
<1>2. CASE open(id)
  <2> DEFINE s == streams[id]
             t == [s EXCEPT !.remoteDone = TRUE]
  <2>0. /\ Becomes(id, t)
        /\ woken' = IF s.bodyWaiter THEN [woken EXCEPT ![id] = TRUE] ELSE woken
        /\ reader' = IdleReader \/ reader' = [reader EXCEPT !.pc = "error"]
    BY <1>id, <1>2 DEF Trailers, Becomes, open, wake
  <2>1. s \in Slot
    BY <1>0, <1>2 DEF TypeOK, open
  <2>2. /\ t \in Slot /\ t.inbox = s.inbox /\ t.inboxHead = s.inboxHead
        /\ t.received = s.received /\ t.remoteDone = TRUE /\ t.recvWindow = s.recvWindow
        /\ t.unacked = s.unacked /\ t.bodyWaiter = s.bodyWaiter
    BY <2>1 DEF Slot
  <2>3. \/ reader' \in ReaderType /\ reader'.pc = "next" /\ reader'.hand = 0
        \/ /\ reader' \in ReaderType /\ reader'.pc = "error" /\ reader'.hand = 0
           /\ reader'.id = id
    <3>1. "error" \in ReaderAt
      BY DEF ReaderAt
    <3>2. CASE reader' = [reader EXCEPT !.pc = "error"]
      BY <1>0, <3>1, <3>2 DEF ReaderType
    <3> QED BY <2>0, <3>2, IdleType
  <2>4. ReaderShape' /\ \A i \in Ids : ReaderPasses(i)
    <3>1. reader'.pc \in {"next", "error"}
      BY <2>3
    <3> QED BY <1>0, <2>3, <3>1, Passes DEF ReaderShape
  <2> HIDE DEF t
  <2>5. DOMAIN streams' \subseteq Ids /\ \A i \in DOMAIN streams' : streams'[i] \in Slot
    BY <1>0, <2>0, <2>2, SlotsType
  <2>6. TypeOK'
    BY <1>0, <2>0, <2>3, <2>5 DEF TypeOK, ReaderType
  <2>7. \A i \in Ids \ {id} : Still(i)
    BY <1>0, <2>0 DEF Still, Becomes, open
  <2>8. open(id)' /\ streams'[id] = t
    BY <2>0 DEF Becomes, open
  <2>9. StreamOK(id)'
    <3>1. Life(id)'
      BY <1>0, <1>2, <2>8 DEF StreamOK, Life
    <3>2. Body(id)'
      BY <1>0, <1>2, <2>2, <2>3, <2>8 DEF StreamOK, Body, Inbox, unread
    <3>3. Credit(id)'
      <4>1. CASE reader'.pc = "error" /\ reader'.id = id
        BY <4>1 DEF Credit, resetting
      <4>2. CASE reader'.pc = "next"
        <5>1. /\ padding(reader, id) = 0 /\ padding(reader, id)' = 0
              /\ ~resetting(reader, id)
          BY <1>0, <4>2 DEF padding, resetting
        <5> QED BY <1>0, <1>2, <2>2, <2>8, <5>1 DEF StreamOK, Credit, unread
      <4> QED BY <2>3, <4>1, <4>2
    <3>4. Asleep(id)'
      BY <1>0, <1>2, <2>0 DEF StreamOK, Asleep, TypeOK
    <3> QED BY <3>1, <3>2, <3>3, <3>4 DEF StreamOK
  <2>10. owed(id)' = owed(id)
    BY <1>2, <2>2, <2>8 DEF owed, unread
  <2>11. reader'.hand = 0
    BY <2>3
  <2> QED BY <1>0, <2>4, <2>6, <2>7, <2>9, <2>10, <2>11, OneStream
<1> QED BY <1>1, <1>2

(* A stream is retired: what it still held moves to the connection.         *)
LEMMA RetireStep ==
  ASSUME Inductive, NEW a \in Ids, NEW credit \in Nat, NEW byUs, NEW byPeer,
         retire(a, credit, byUs, byPeer),
         reader' \in ReaderType, ReaderShape', reader'.hand = reader.hand,
         \A i \in Ids \ {a} : ReaderPasses(i),
         UNCHANGED <<connRecvWindow, lastClientStream, goingAway, got, sawEnd, hand, frames>>,
         clientResets' \in Nat, isClosed' \in BOOLEAN, woken' \in [Ids -> BOOLEAN],
         \A i \in Ids \ {a} : /\ woken[i] => woken'[i]
                              /\ isClosed' => isClosed \/ (open(i) /\ streams[i].bodyWaiter => woken'[i]),
         hpc' \in [Ids -> HandlerAt], \A i \in Ids \ {a} : hpc'[i] = hpc[i],
         hpc'[a] = hpc[a] \/ {hpc[a], hpc'[a]} \cap {"none", "return"} = {}
  PROVE  Inductive'
<1>0. TypeOK /\ ReaderShape /\ StreamOK(a)
  BY DEF Inductive, Streams
<1>1. /\ Gone(a) /\ closed' = closed \cup {a}
      /\ {closed', resetByUs', resetByPeer'} \subseteq SUBSET Ids
      /\ connUnacked' \in Nat /\ unsettled' \in Int
      /\ connUnacked' + unsettled' = connUnacked + unsettled + owed(a)
  BY <1>0, RetireEffect
<1>2. DOMAIN streams' \subseteq Ids /\ \A i \in DOMAIN streams' : streams'[i] \in Slot
  BY <1>0, <1>1, SlotsType
<1>3. TypeOK'
  BY <1>0, <1>1, <1>2 DEF TypeOK, ReaderType
<1>4. \A i \in Ids \ {a} : Still(i)
  BY <1>1 DEF Still, Gone, open
<1>5. ~open(a)' /\ owed(a)' = 0
  BY <1>1 DEF Gone, open, owed
<1>6. StreamOK(a)'
  <2>1. hand'[a] = IF hpc'[a] = "return" THEN 1 ELSE 0
    BY <1>0 DEF StreamOK, Life
  <2> QED BY <1>0, <1>1, <1>5, <2>1, GoneOK
<1>7. connRecvWindow' + connUnacked' + reader'.hand + unsettled' + owed(a)' + hand'[a]
        = connRecvWindow + connUnacked + reader.hand + unsettled + owed(a) + hand[a]
  BY <1>0, <1>1, <1>5, BytesType, OwedType
<1> QED BY <1>3, <1>4, <1>6, <1>7, OneStream

LEMMA SettleStep ==
  ASSUME Inductive, Settle
  PROVE  Inductive'
<1>id. PICK id \in Ids : id = reader.id
  BY DEF Settle, Inductive, Streams, ReaderShape
<1>0. /\ reader.pc = "settle" /\ id = reader.id /\ TypeOK /\ reader.hand = 0
      /\ UNCHANGED <<lastClientStream, clientResets, goingAway, got, sawEnd, hand, hpc,
                     isClosed, connRecvWindow, woken, frames>>
      /\ reader' = IdleReader
  BY <1>id DEF Settle, Inductive, Streams, TypeOK, ReaderShape, handlers
<1>1. ReaderShape' /\ reader' \in ReaderType /\ reader'.hand = reader.hand
      /\ \A i \in Ids : ReaderPasses(i)
  BY <1>0, IdleType, Passes DEF ReaderShape
<1>2. CASE retire(id, 0, FALSE, FALSE)
  <2>1. 0 \in Nat /\ clientResets \in Nat /\ isClosed \in BOOLEAN /\ woken \in [Ids -> BOOLEAN]
        /\ hpc \in [Ids -> HandlerAt]
    BY <1>0 DEF TypeOK
  <2> QED BY <1>0, <1>1, <1>2, <2>1, RetireStep
<1>3. CASE UNCHANGED <<streams, closed, resetByUs, resetByPeer, connUnacked, unsettled>>
  <2>1. /\ lastClientStream \in Nat /\ goingAway \in BOOLEAN
        /\ frames \in 0..MaxFrames /\ connRecvWindow \in Int
    BY <1>0 DEF TypeOK
  <2> QED BY <1>0, <1>1, <1>3, <2>1, ReaderOnly
<1> QED BY <1>id, <1>2, <1>3 DEF Settle

LEMMA RstRetireStep ==
  ASSUME Inductive, RstRetire
  PROVE  Inductive'
<1>id. PICK id \in Ids : id = reader.id
  BY DEF RstRetire, Inductive, Streams, ReaderShape
<1> DEFINE others == [i \in Ids |-> woken[i] \/ (i = id /\ reader.waiter)]
<1>0. /\ reader.pc = "rst" /\ id = reader.id /\ TypeOK /\ reader.hand = 0
      /\ UNCHANGED <<lastClientStream, goingAway, connRecvWindow, hpc, hand, got, sawEnd, frames>>
      /\ retire(id, reader.credit, FALSE, TRUE) /\ clientResets' = clientResets + 1
      /\ reader.credit \in Nat /\ clientResets' \in Nat /\ hpc \in [Ids -> HandlerAt]
      /\ reader.waiter \in BOOLEAN /\ woken \in [Ids -> BOOLEAN]
  <2>1. /\ reader.pc = "rst" /\ TypeOK /\ reader.hand = 0
    BY DEF RstRetire, Inductive, Streams, ReaderShape
  <2>2. /\ reader.credit \in Nat /\ clientResets \in Nat /\ hpc \in [Ids -> HandlerAt]
        /\ reader.waiter \in BOOLEAN /\ woken \in [Ids -> BOOLEAN]
    BY <2>1 DEF TypeOK
  <2>3. /\ UNCHANGED <<lastClientStream, goingAway, connRecvWindow, hpc, hand, got, sawEnd, frames>>
        /\ clientResets' = clientResets + 1
    BY DEF RstRetire
  <2>4. retire(id, reader.credit, FALSE, TRUE)
    BY <1>id DEF RstRetire, retire
  <2>5. clientResets' \in Nat
    BY <2>2, <2>3
  <2> QED BY <1>id, <2>1, <2>2, <2>3, <2>4, <2>5, Zenon
<1>1. others \in [Ids -> BOOLEAN] /\ \A i \in Ids : woken[i] => others[i]
  BY <1>0
<1>2. /\ reader' \in ReaderType /\ reader'.pc \in {"stopped", "next"} /\ reader'.hand = 0
      /\ isClosed' \in BOOLEAN /\ woken' \in [Ids -> BOOLEAN]
      /\ \A i \in Ids \ {id} :
           /\ woken[i] => woken'[i]
           /\ isClosed' => isClosed \/ (open(i) /\ streams[i].bodyWaiter => woken'[i])
  <2>1. CASE clientResets' > MaxClientResets
    <3>1. /\ isClosed' = TRUE /\ reader' = at("stopped", id)
          /\ woken' = [i \in Ids |-> others[i] \/ (open(i) /\ i # id /\ streams[i].bodyWaiter)]
      BY <1>id, <2>1 DEF RstRetire
    <3>2. at("stopped", id) \in ReaderType /\ at("stopped", id).pc = "stopped"
          /\ at("stopped", id).hand = 0
      BY <1>0, AtType DEF ReaderAt
    <3> HIDE DEF others
    <3>3. woken' \in [Ids -> BOOLEAN]
      <4>1. \A i \in Ids : open(i) /\ i # id => streams[i].bodyWaiter \in BOOLEAN
        BY <1>0, SlotFields DEF TypeOK, open
      <4> QED BY <1>1, <3>1, <4>1 DEF open
    <3>4. \A i \in Ids \ {id} : /\ woken[i] => woken'[i]
                                /\ open(i) /\ streams[i].bodyWaiter => woken'[i]
      BY <1>1, <3>1
    <3> QED BY <3>1, <3>2, <3>3, <3>4
  <2>2. CASE ~(clientResets' > MaxClientResets)
    <3>1. reader' = IdleReader /\ woken' = others /\ isClosed' = isClosed
      BY <1>id, <2>2 DEF RstRetire
    <3> HIDE DEF others
    <3> QED BY <1>0, <1>1, <3>1, IdleType DEF TypeOK
  <2> QED BY <2>1, <2>2
<1>3. ReaderShape' /\ reader'.hand = reader.hand /\ \A i \in Ids : ReaderPasses(i)
  BY <1>0, <1>2, Passes DEF ReaderShape
<1> QED BY <1>0, <1>2, <1>3, RetireStep

LEMMA ResetEffect ==
  ASSUME TypeOK, NEW a \in Ids, resetStream(a)
  PROVE  /\ woken' \in [Ids -> BOOLEAN] /\ \A i \in Ids : woken[i] => woken'[i]
         /\ \/ retire(a, Len(streams[a].inbox), TRUE, FALSE) /\ Len(streams[a].inbox) \in Nat
            \/ /\ ~open(a)
               /\ UNCHANGED <<streams, closed, resetByUs, resetByPeer, connUnacked, unsettled,
                              woken>>
<1>1. woken \in [Ids -> BOOLEAN]
  BY DEF TypeOK
<1>2. woken' \in {woken, [woken EXCEPT ![a] = TRUE]}
  BY DEF resetStream, wake
<1>3. open(a) => Len(streams[a].inbox) \in Nat
  BY SlotFields DEF TypeOK, open
<1>4. woken' \in [Ids -> BOOLEAN] /\ \A i \in Ids : woken[i] => woken'[i]
  BY <1>1, <1>2
<1> QED BY <1>3, <1>4 DEF resetStream

LEMMA StreamErrorStep ==
  ASSUME Inductive, streamError
  PROVE  Inductive'
<1>id. PICK id \in Ids : id = reader.id
  BY DEF streamError, Inductive, Streams, ReaderShape
<1>0. /\ reader.pc = "error" /\ id = reader.id /\ TypeOK /\ reader.hand = 0
      /\ UNCHANGED <<lastClientStream, clientResets, isClosed, goingAway, connRecvWindow,
                     hpc, hand, got, sawEnd, frames>>
      /\ reader' = IdleReader
  BY <1>id DEF streamError, Inductive, Streams, ReaderShape
<1>1. ReaderShape' /\ reader' \in ReaderType /\ reader'.hand = reader.hand
      /\ \A i \in Ids \ {id} : ReaderPasses(i)
  BY <1>0, IdleType, Passes DEF ReaderShape
<1>2. resetStream(id)
  BY <1>id DEF streamError
<1>3. woken' \in [Ids -> BOOLEAN] /\ \A i \in Ids : woken[i] => woken'[i]
  BY <1>0, <1>2, ResetEffect
<1>4. /\ clientResets \in Nat /\ isClosed \in BOOLEAN /\ hpc \in [Ids -> HandlerAt]
      /\ lastClientStream \in Nat /\ goingAway \in BOOLEAN
      /\ frames \in 0..MaxFrames /\ connRecvWindow \in Int
  BY <1>0 DEF TypeOK
<1>5. CASE retire(id, Len(streams[id].inbox), TRUE, FALSE) /\ Len(streams[id].inbox) \in Nat
  BY <1>0, <1>1, <1>3, <1>4, <1>5, RetireStep
<1>6. CASE /\ ~open(id)
           /\ UNCHANGED <<streams, closed, resetByUs, resetByPeer, connUnacked, unsettled, woken>>
  <2>1. \A i \in Ids : ReaderPasses(i)
    BY <1>1, <1>6 DEF ReaderPasses
  <2> QED BY <1>0, <1>1, <1>4, <1>6, <2>1, ReaderOnly
<1> QED BY <1>0, <1>2, <1>5, <1>6, ResetEffect

LEMMA GoawayStep ==
  ASSUME Inductive, Goaway
  PROVE  Inductive'
<1>1. NextFrame /\ goingAway' \in BOOLEAN
  BY DEF Goaway
<1> QED BY <1>1, Ignored DEF Goaway, handlers

LEMMA StopStep ==
  ASSUME Inductive, Stop
  PROVE  Inductive'
<1>1. frames' \in 0..MaxFrames
  BY DEF Stop, Inductive, Streams, TypeOK
<1> QED BY <1>1, CloseStep DEF Stop

-----------------------------------------------------------------------------
(* The handlers' steps.                                                     *)

(* A handler moves on, and its response may start or end.                   *)
LEMMA HandlerStep ==
  ASSUME Inductive, NEW a \in Ids,
         UNCHANGED <<conn, window, reader, woken, hand, got, sawEnd, frames>>,
         hpc' \in [Ids -> HandlerAt], \A i \in Ids \ {a} : hpc'[i] = hpc[i],
         hpc[a] \notin {"none", "return"}, hpc'[a] \notin {"none", "return", "wait"},
         streams' = streams \/ \E t \in Slot : Becomes(a, t) /\ Like(t, streams[a])
  PROVE  Inductive'
<1>0. TypeOK /\ ReaderShape /\ \A i \in Ids : StreamOK(i)
  BY DEF Inductive, Streams
<1>1. UNCHANGED <<closed, connRecvWindow, connUnacked, unsettled, isClosed>>
  BY DEF conn, window
<1>2. DOMAIN streams' \subseteq Ids /\ \A i \in DOMAIN streams' : streams'[i] \in Slot
  BY <1>0, SlotsType
<1>3. TypeOK'
  BY <1>0, <1>2 DEF TypeOK, conn, window
<1>4. ReaderShape'
  BY <1>0 DEF ReaderShape
<1>5. /\ \A i \in Ids : open(i)' = open(i)
      /\ \A i \in Ids \ {a} : open(i) => streams'[i] = streams[i]
      /\ open(a) => Like(streams'[a], streams[a])
  BY DEF Becomes, open, Like
<1>6. \A i \in Ids \ {a} : Still(i) /\ ReaderPasses(i)
  BY <1>0, <1>1, <1>5, ReaderStays DEF Still
<1>7. StreamOK(a)'
  BY <1>0, <1>1, <1>5, HandlerMoves
<1>8. owed(a)' = owed(a)
  BY <1>5 DEF owed, Like, unread, open
<1>9. connRecvWindow' + connUnacked' + reader'.hand + unsettled' + owed(a)' + hand'[a]
        = connRecvWindow + connUnacked + reader.hand + unsettled + owed(a) + hand[a]
  BY <1>1, <1>8
<1> QED BY <1>3, <1>4, <1>6, <1>7, <1>9, OneStream

LEMMA GotoType ==
  ASSUME TypeOK, NEW a \in Ids, NEW from, NEW to \in HandlerAt, goto(a, from, to)
  PROVE  /\ hpc' \in [Ids -> HandlerAt] /\ \A i \in Ids \ {a} : hpc'[i] = hpc[i]
         /\ hpc[a] = from /\ hpc'[a] = to
BY DEF goto, TypeOK

LEMMA CallStep ==
  ASSUME Inductive, NEW a \in Ids, Call(a) \/ Woken(a) \/ WaitTimesOut(a) \/ Look(a)
  PROVE  Inductive'
<1>1. /\ UNCHANGED <<streams, conn, window, reader, woken, hand, got, sawEnd, frames>>
      /\ \E from \in {"run", "wait", "look"},
            to \in {"read", "throw", "finish", "done", "retire", "reset"} : goto(a, from, to)
  BY DEF Call, Woken, WaitTimesOut, Look
<1>2. TypeOK
  BY DEF Inductive, Streams
<1>3. /\ hpc' \in [Ids -> HandlerAt] /\ \A i \in Ids \ {a} : hpc'[i] = hpc[i]
      /\ hpc[a] \notin {"none", "return"} /\ hpc'[a] \notin {"none", "return", "wait"}
  BY <1>1, <1>2, GotoType DEF HandlerAt
<1> QED BY <1>1, <1>3, HandlerStep

LEMMA RespondStep ==
  ASSUME Inductive, NEW a \in Ids, EndResponse(a) \/ \E e \in BOOLEAN : Respond(a, e)
  PROVE  Inductive'
<1>1. TypeOK /\ UNCHANGED <<conn, window, reader, woken, hand, got, sawEnd, frames>>
  BY DEF EndResponse, Respond, Inductive, Streams
<1>2. /\ hpc' \in [Ids -> HandlerAt] /\ \A i \in Ids \ {a} : hpc'[i] = hpc[i]
      /\ hpc[a] \notin {"none", "return"} /\ hpc'[a] \notin {"none", "return", "wait"}
  <2>1. \/ \E from \in {"run", "finish"}, to \in {"throw", "look", "done"} : goto(a, from, to)
        \/ hpc[a] = "run" /\ hpc' = hpc
    BY DEF EndResponse, Respond
  <2>2. hpc \in [Ids -> HandlerAt]
    BY <1>1 DEF TypeOK
  <2> QED BY <1>1, <2>1, <2>2, GotoType DEF HandlerAt
<1>3. \/ streams' = streams
      \/ /\ open(a)
         /\ \E e \in BOOLEAN :
              streams' = [streams EXCEPT ![a].headersSent = TRUE, ![a].localDone = @ \/ e]
      \/ /\ open(a)
         /\ streams' = [streams EXCEPT ![a].headersSent = TRUE, ![a].localDone = TRUE]
  BY DEF EndResponse, Respond
<1>4. ASSUME open(a), NEW d \in BOOLEAN,
             streams' = [streams EXCEPT ![a] = [streams[a] EXCEPT !.headersSent = TRUE,
                                                                  !.localDone = d]]
      PROVE  \E t \in Slot : Becomes(a, t) /\ Like(t, streams[a])
  <2> DEFINE t == [streams[a] EXCEPT !.headersSent = TRUE, !.localDone = d]
  <2>1. streams[a] \in Slot
    BY <1>1, <1>4 DEF TypeOK, open
  <2>2. t \in Slot /\ Like(t, streams[a])
    BY <2>1 DEF Slot, Like
  <2> HIDE DEF t
  <2>3. streams' = [streams EXCEPT ![a] = t]
    BY <1>4 DEF t
  <2>4. Becomes(a, t)
    BY <1>4, <2>3 DEF Becomes, open
  <2> QED BY <2>2, <2>4
<1>5. streams' = streams \/ \E t \in Slot : Becomes(a, t) /\ Like(t, streams[a])
  <2>1. ASSUME open(a), NEW e \in BOOLEAN,
               streams' = [streams EXCEPT ![a].headersSent = TRUE, ![a].localDone = @ \/ e]
        PROVE  \E d \in BOOLEAN : streams' = [streams EXCEPT ![a] =
                  [streams[a] EXCEPT !.headersSent = TRUE, !.localDone = d]]
    <3>1. streams[a] \in Slot
      BY <1>1, <2>1 DEF TypeOK, open
    <3>2. streams[a].localDone \/ e \in BOOLEAN
      BY <3>1, SlotFields
    <3> QED BY <2>1, <3>1, <3>2 DEF Slot
  <2>2. ASSUME open(a),
               streams' = [streams EXCEPT ![a].headersSent = TRUE, ![a].localDone = TRUE]
        PROVE  streams' = [streams EXCEPT ![a] =
                  [streams[a] EXCEPT !.headersSent = TRUE, !.localDone = TRUE]]
    <3>1. streams[a] \in Slot
      BY <1>1, <2>2 DEF TypeOK, open
    <3> QED BY <2>2, <3>1 DEF Slot
  <2> QED BY <1>3, <1>4, <2>1, <2>2
<1> QED BY <1>1, <1>2, <1>5, HandlerStep

LEMMA ThrownStep ==
  ASSUME Inductive, NEW a \in Ids, Thrown(a) \/ StopBody(a) \/ RetireFinished(a)
  PROVE  Inductive'
<1>0. /\ TypeOK /\ ReaderShape /\ \A i \in Ids : StreamOK(i)
      /\ UNCHANGED <<lastClientStream, clientResets, isClosed, goingAway, connRecvWindow, reader,
                     hand, got, sawEnd, frames>>
      /\ clientResets \in Nat /\ isClosed \in BOOLEAN /\ reader \in ReaderType
  BY DEF Thrown, StopBody, RetireFinished, Inductive, Streams, TypeOK, ReaderType
<1>1. ReaderShape' /\ \A i \in Ids : ReaderPasses(i)
  BY <1>0, ReaderStays DEF ReaderShape
<1>2. /\ hpc' \in [Ids -> HandlerAt] /\ \A i \in Ids \ {a} : hpc'[i] = hpc[i]
      /\ hpc[a] \notin {"none", "return"} /\ hpc'[a] \notin {"none", "return", "wait"}
  <2>1. \E from \in {"throw", "retire", "reset"}, to \in {"finish", "done"} : goto(a, from, to)
    BY DEF Thrown, StopBody, RetireFinished
  <2> QED BY <1>0, <2>1, GotoType DEF HandlerAt
<1>3. ASSUME NEW credit \in Nat, NEW byUs, retire(a, credit, byUs, FALSE),
             woken' \in [Ids -> BOOLEAN], \A i \in Ids : woken[i] => woken'[i]
      PROVE  Inductive'
  BY <1>0, <1>1, <1>2, <1>3, RetireStep
<1>4. ASSUME UNCHANGED <<streams, closed, resetByUs, resetByPeer, connUnacked, unsettled, woken>>
      PROVE  Inductive'
  BY <1>0, <1>2, <1>4, HandlerStep DEF conn, window
<1>5. CASE resetStream(a)
  BY <1>0, <1>3, <1>4, <1>5, ResetEffect
<1>6. CASE RetireFinished(a)
  <2>1. retire(a, 0, FALSE, FALSE) /\ woken' = woken /\ woken \in [Ids -> BOOLEAN]
    BY <1>0, <1>6 DEF RetireFinished, TypeOK
  <2> QED BY <1>3, <2>1
<1> QED BY <1>4, <1>5, <1>6 DEF Thrown, StopBody

LEMMA ReadBodyStep ==
  ASSUME Inductive, NEW a \in Ids, readBody(a)
  PROVE  Inductive'
<1> DEFINE s == streams[a]
<1>0. /\ TypeOK /\ ReaderShape /\ \A i \in Ids : StreamOK(i)
      /\ UNCHANGED <<conn, window, reader, frames>>
      /\ UNCHANGED <<closed, connRecvWindow, connUnacked, unsettled, isClosed>>
      /\ hpc[a] = "read" /\ ReaderShape'
      /\ hpc \in [Ids -> HandlerAt] /\ woken \in [Ids -> BOOLEAN] /\ hand \in [Ids -> 0..1]
      /\ got \in [Ids -> Seq(Nat)] /\ sawEnd \in [Ids -> BOOLEAN] /\ hand[a] = 0
  <2>1. TypeOK /\ ReaderShape /\ \A i \in Ids : StreamOK(i)
    BY DEF Inductive, Streams
  <2>2. /\ UNCHANGED <<conn, window, reader, frames>> /\ hpc[a] = "read"
        /\ UNCHANGED <<closed, connRecvWindow, connUnacked, unsettled, isClosed>>
    BY DEF readBody, conn, window
  <2> QED BY <2>1, <2>2 DEF TypeOK, ReaderShape, StreamOK, Life
<1>1. \A i \in Ids : ReaderPasses(i)
  BY <1>0, ReaderStays
<1>2. CASE isClosed \/ ~open(a)
  <2>1. goto(a, "read", "throw") /\ UNCHANGED <<streams, woken, hand, got, sawEnd>>
    BY <1>2 DEF readBody
  <2> QED BY <1>0, <2>1, GotoType, HandlerStep DEF HandlerAt
<1>3. CASE ~isClosed /\ open(a) /\ unread(s) > 0
  <2> DEFINE t == taken(s)
             p == s.inbox[s.inboxHead + 1]
  <2>1. /\ goto(a, "read", "return")
        /\ got' = [got EXCEPT ![a] = Append(@, p)]
        /\ hand' = [hand EXCEPT ![a] = 1]
        /\ streams' = [streams EXCEPT ![a] = t]
        /\ UNCHANGED <<woken, sawEnd>>
    BY <1>3 DEF readBody
  <2>2. s \in Slot /\ got[a] \in Seq(Nat) /\ Inbox(s, got[a])
    BY <1>0, <1>3 DEF TypeOK, open, StreamOK, Body
  <2>3. /\ t \in Slot /\ p = Len(got[a]) + 1
        /\ Inbox(t, Append(got[a], p)) /\ unread(t) = unread(s) - 1
        /\ t.remoteDone = s.remoteDone /\ t.bodyWaiter = s.bodyWaiter
        /\ t.recvWindow = s.recvWindow /\ t.unacked = s.unacked
    BY <1>3, <2>2, ReadSlot
  <2> HIDE DEF t, p
  <2>4. hpc' \in [Ids -> HandlerAt] /\ hpc'[a] = "return" /\ \A i \in Ids \ {a} : hpc'[i] = hpc[i]
    BY <1>0, <2>1, GotoType DEF HandlerAt
  <2>5. p \in Nat /\ got' \in [Ids -> Seq(Nat)] /\ got'[a] = Append(got[a], p) /\ hand'[a] = 1
        /\ hand' \in [Ids -> 0..1]
    BY <1>0, <2>1, <2>2, <2>3
  <2>6. Becomes(a, t)
    BY <1>3, <2>1 DEF Becomes, open
  <2>7. DOMAIN streams' \subseteq Ids /\ \A i \in DOMAIN streams' : streams'[i] \in Slot
    BY <1>0, <2>3, <2>6, SlotsType
  <2>8. TypeOK'
    BY <1>0, <2>1, <2>4, <2>5, <2>7 DEF TypeOK, conn, window
  <2>9. \A i \in Ids \ {a} : Still(i)
    BY <1>0, <2>1, <2>4, <2>6 DEF Still, Becomes, open
  <2>10. open(a)' /\ streams'[a] = t
    BY <2>6 DEF Becomes, open
  <2>11. StreamOK(a)'
    <3>1. Life(a)'
      BY <1>0, <1>3, <2>1, <2>4, <2>5, <2>10 DEF StreamOK, Life
    <3>2. Body(a)'
      <4>1. got'[a] = [i \in 1..Len(got'[a]) |-> i]
        <5>1. got[a] = [i \in 1..Len(got[a]) |-> i]
          BY <1>0 DEF StreamOK, Body
        <5> DEFINE g == got[a]
        <5>2. g \in Seq(Nat) /\ g = [i \in 1..Len(g) |-> i] /\ p = Len(g) + 1
          BY <2>2, <2>3, <5>1
        <5> HIDE DEF g
        <5>3. Append(g, p) = [i \in 1..(Len(g) + 1) |-> i]
          BY <5>2
        <5>4. Len(Append(g, p)) = Len(g) + 1
          BY <5>2
        <5> QED BY <2>5, <5>3, <5>4 DEF g
      <4>2. Inbox(t, got'[a])
        BY <2>3, <2>5
      <4>3. ~sawEnd[a]
        BY <1>0, <1>3 DEF StreamOK, Body
      <4>4. reader.pc = "deliver" /\ reader.id = a => ~t.remoteDone
        BY <1>0, <1>3, <2>3 DEF StreamOK, Body
      <4>5. sawEnd'[a] = sawEnd[a] /\ reader' = reader
        BY <1>0, <2>1
      <4> QED BY <2>10, <4>1, <4>2, <4>3, <4>4, <4>5 DEF Body, Inbox, unread
    <3>3. Credit(a)'
      <4>1. CASE resetting(reader, a)
        BY <1>0, <4>1 DEF Credit, resetting
      <4>2. CASE ~resetting(reader, a)
        <5> DEFINE pad == padding(reader, a)
        <5>1. s.recvWindow + s.unacked + unread(s) + hand[a] + pad = InitialWindow
          BY <1>0, <1>3, <4>2 DEF StreamOK, Credit
        <5>2. {s.recvWindow, s.unacked, unread(s), pad} \subseteq Int
          <6>1. {s.recvWindow, s.unacked, unread(s)} \subseteq Int
            BY <2>2, SlotFields, UnreadType
          <6>2. reader.hand \in Int
            BY <1>0 DEF TypeOK
          <6> QED BY <6>1, <6>2 DEF padding
        <5>3. pad = padding(reader', a)
          BY <1>0
        <5> HIDE DEF pad, s
        <5>4. s.recvWindow + s.unacked + (unread(s) - 1) + 1 + pad = InitialWindow
          BY <1>0, <5>1, <5>2
        <5>5. t.recvWindow + t.unacked + unread(t) + 1 + pad = InitialWindow
          BY <2>3, <5>4 DEF s
        <5> QED BY <2>5, <2>10, <5>3, <5>5 DEF Credit, unread, padding
      <4> QED BY <4>1, <4>2
    <3>4. Asleep(a)'
      BY <2>4 DEF Asleep
    <3> QED BY <3>1, <3>2, <3>3, <3>4 DEF StreamOK
  <2>12. connRecvWindow' + connUnacked' + reader'.hand + unsettled' + owed(a)' + hand'[a]
           = connRecvWindow + connUnacked + reader.hand + unsettled + owed(a) + hand[a]
    <3>1. owed(a) = unread(s) /\ owed(a)' = unread(s) - 1
      BY <1>3, <2>3, <2>10 DEF owed, unread
    <3>2. {connRecvWindow, connUnacked, reader.hand, unsettled, unread(s)} \subseteq Int
      BY <1>0, <2>2, BytesType, UnreadType
    <3>3. /\ UNCHANGED <<connRecvWindow, connUnacked, reader, unsettled>>
          /\ hand[a] = 0 /\ hand'[a] = 1
      BY <1>0, <2>5
    <3> HIDE DEF s
    <3> QED BY <3>1, <3>2, <3>3
  <2> QED BY <1>0, <1>1, <2>8, <2>9, <2>11, <2>12, OneStream
<1>4. CASE ~isClosed /\ open(a) /\ unread(s) = 0 /\ s.remoteDone
  <2>1. /\ goto(a, "read", "run")
        /\ sawEnd' = [sawEnd EXCEPT ![a] = TRUE]
        /\ UNCHANGED <<streams, woken, hand, got>>
    BY <1>4 DEF readBody
  <2>2. hpc' \in [Ids -> HandlerAt] /\ hpc'[a] = "run" /\ \A i \in Ids \ {a} : hpc'[i] = hpc[i]
    BY <1>0, <2>1, GotoType DEF HandlerAt
  <2>3. TypeOK'
    BY <1>0, <2>1, <2>2 DEF TypeOK, conn, window
  <2>4. \A i \in Ids \ {a} : Still(i)
    BY <1>0, <2>1, <2>2 DEF Still, open
  <2>5. StreamOK(a)'
    <3>1. Life(a)'
      BY <1>0, <1>4, <2>1, <2>2 DEF StreamOK, Life, open
    <3>2. Body(a)'
      BY <1>0, <1>4, <2>1 DEF StreamOK, Body, Inbox, unread, open
    <3>3. Credit(a)'
      BY <1>0, <2>1 DEF StreamOK, Credit, unread, open, resetting, padding
    <3>4. Asleep(a)'
      BY <2>2 DEF Asleep
    <3> QED BY <3>1, <3>2, <3>3, <3>4 DEF StreamOK
  <2>6. owed(a)' = owed(a)
    BY <2>1 DEF owed, open, unread
  <2>7. connRecvWindow' + connUnacked' + reader'.hand + unsettled' + owed(a)' + hand'[a]
           = connRecvWindow + connUnacked + reader.hand + unsettled + owed(a) + hand[a]
    BY <1>0, <2>1, <2>6
  <2> QED BY <1>0, <1>1, <2>3, <2>4, <2>5, <2>7, OneStream
<1>5. CASE ~isClosed /\ open(a) /\ ~(unread(s) > 0) /\ ~(unread(s) = 0 /\ s.remoteDone)
  <2> DEFINE t == [s EXCEPT !.bodyWaiter = TRUE]
  <2>1. /\ goto(a, "read", "wait")
        /\ streams' = [streams EXCEPT ![a].bodyWaiter = TRUE]
        /\ woken' = [woken EXCEPT ![a] = FALSE]
        /\ UNCHANGED <<hand, got, sawEnd>>
    BY <1>5 DEF readBody
  <2>2. hpc' \in [Ids -> HandlerAt] /\ hpc'[a] = "wait" /\ \A i \in Ids \ {a} : hpc'[i] = hpc[i]
    BY <1>0, <2>1, GotoType DEF HandlerAt
  <2>3. s \in Slot
    BY <1>0, <1>5 DEF TypeOK, open
  <2>4. /\ t \in Slot /\ t.inbox = s.inbox /\ t.inboxHead = s.inboxHead
        /\ t.received = s.received /\ t.remoteDone = s.remoteDone
        /\ t.recvWindow = s.recvWindow /\ t.unacked = s.unacked /\ t.bodyWaiter = TRUE
    BY <2>3 DEF Slot
  <2>5. Becomes(a, t)
    BY <1>5, <2>1, <2>3 DEF Becomes, open, Slot
  <2> HIDE DEF t
  <2>6. DOMAIN streams' \subseteq Ids /\ \A i \in DOMAIN streams' : streams'[i] \in Slot
    BY <1>0, <2>4, <2>5, SlotsType
  <2>7. TypeOK'
    BY <1>0, <2>1, <2>2, <2>6 DEF TypeOK, conn, window
  <2>8. \A i \in Ids \ {a} : Still(i)
    BY <1>0, <2>1, <2>2, <2>5 DEF Still, Becomes, open
  <2>9. open(a)' /\ streams'[a] = t
    BY <2>5 DEF Becomes, open
  <2>10. unread(s) = 0 /\ ~s.remoteDone
    <3>1. s.inboxHead <= Len(s.inbox) /\ s.inboxHead \in Nat /\ Len(s.inbox) \in Nat
      BY <1>0, <1>5, <2>3, SlotFields DEF StreamOK, Body, Inbox
    <3>2. unread(s) = 0
      BY <1>5, <3>1 DEF unread
    <3> QED BY <1>5, <3>2
  <2>11. StreamOK(a)'
    <3>1. Life(a)'
      BY <1>0, <1>5, <2>1, <2>2, <2>9 DEF StreamOK, Life
    <3>2. Body(a)'
      BY <1>0, <1>5, <2>1, <2>4, <2>9 DEF StreamOK, Body, Inbox, unread
    <3>3. Credit(a)'
      BY <1>0, <1>5, <2>1, <2>4, <2>9 DEF StreamOK, Credit, unread, resetting, padding
    <3>4. Asleep(a)'
      BY <1>0, <1>5, <2>4, <2>9, <2>10 DEF Asleep, unread
    <3> QED BY <3>1, <3>2, <3>3, <3>4 DEF StreamOK
  <2>12. owed(a)' = owed(a)
    BY <1>5, <2>4, <2>9 DEF owed, unread
  <2>13. connRecvWindow' + connUnacked' + reader'.hand + unsettled' + owed(a)' + hand'[a]
           = connRecvWindow + connUnacked + reader.hand + unsettled + owed(a) + hand[a]
    BY <1>0, <2>1, <2>12
  <2> QED BY <1>0, <1>1, <2>7, <2>8, <2>11, <2>13, OneStream
<1> QED BY <1>2, <1>3, <1>4, <1>5

LEMMA ConsumedStep ==
  ASSUME Inductive, NEW a \in Ids, Consumed(a)
  PROVE  Inductive'
<1>0. /\ TypeOK /\ ReaderShape /\ \A i \in Ids : StreamOK(i)
      /\ UNCHANGED <<conn, reader, woken, got, sawEnd, frames, closed, isClosed>>
      /\ goto(a, "return", "run") /\ returnWindow(a, hand[a])
      /\ hand' = [hand EXCEPT ![a] = 0] /\ hand[a] = 1 /\ hand \in [Ids -> 0..1]
  <2>1. goto(a, "return", "run") /\ returnWindow(a, hand[a]) /\ hand' = [hand EXCEPT ![a] = 0]
    BY DEF Consumed
  <2>2. TypeOK /\ ReaderShape /\ \A i \in Ids : StreamOK(i)
    BY DEF Inductive, Streams
  <2>3. hand[a] = 1 /\ hand \in [Ids -> 0..1]
    BY <2>1, <2>2 DEF StreamOK, Life, goto, TypeOK
  <2>4. UNCHANGED <<conn, reader, woken, got, sawEnd, frames, closed, isClosed>>
    BY DEF Consumed, conn
  <2> QED BY <2>1, <2>2, <2>3, <2>4
<1>1. /\ hpc' \in [Ids -> HandlerAt] /\ hpc[a] = "return" /\ hpc'[a] = "run"
      /\ \A i \in Ids \ {a} : hpc'[i] = hpc[i]
  BY <1>0, GotoType DEF HandlerAt
<1>2. 1 \in Nat /\ returnWindow(a, 1) /\ hand' \in [Ids -> 0..1] /\ hand'[a] = 0
  BY <1>0
<1>3. /\ DOMAIN streams' \subseteq Ids /\ \A i \in DOMAIN streams' : streams'[i] \in Slot
      /\ \A i \in Ids : open(i)' = open(i) /\ (open(i) /\ i # a => streams'[i] = streams[i])
      /\ owed(a)' = owed(a)
      /\ connRecvWindow' \in Int /\ connUnacked' \in Nat /\ unsettled' = unsettled
      /\ connRecvWindow' + connUnacked' = connRecvWindow + connUnacked + 1
  BY <1>0, <1>2, Returned
<1>4. open(a) => LET s == streams[a]
                     t == streams'[a] IN
              /\ s \in Slot /\ t \in Slot
              /\ t.inbox = s.inbox /\ t.inboxHead = s.inboxHead /\ t.received = s.received
              /\ t.remoteDone = s.remoteDone /\ t.bodyWaiter = s.bodyWaiter
              /\ t.recvWindow + t.unacked = s.recvWindow + s.unacked + 1
  BY <1>0, <1>2, Returned
<1>5. TypeOK' /\ ReaderShape'
  <2>1. TypeOK'
    BY <1>0, <1>1, <1>2, <1>3 DEF TypeOK, conn
  <2> QED BY <1>0, <2>1 DEF ReaderShape
<1>6. \A i \in Ids \ {a} : Still(i) /\ ReaderPasses(i)
  BY <1>0, <1>1, <1>3, ReaderStays DEF Still
<1>7. StreamOK(a)'
  <2>0. /\ Life(a) /\ Body(a) /\ open(a)' = open(a) /\ got'[a] = got[a]
        /\ sawEnd'[a] = sawEnd[a] /\ closed' = closed /\ reader' = reader
    BY <1>0, <1>3 DEF StreamOK
  <2>1. Life(a)'
    BY <1>1, <1>2, <2>0 DEF Life
  <2>2. Body(a)'
    BY <1>4, <2>0 DEF Body, Inbox, unread
  <2>3. Credit(a)'
    <3>1. CASE open(a) /\ ~resetting(reader, a)
      <4> DEFINE pad == padding(reader, a)
                 s == streams[a]
                 t == streams'[a]
      <4>1. s.recvWindow + s.unacked + unread(s) + 1 + pad = InitialWindow
        BY <1>0, <3>1 DEF StreamOK, Credit
      <4>2. {s.recvWindow, s.unacked, t.recvWindow, t.unacked, unread(s), pad} \subseteq Int
        <5>1. {s.recvWindow, s.unacked, t.recvWindow, t.unacked, unread(s)} \subseteq Int
          BY <1>4, <3>1, SlotFields, UnreadType
        <5>2. reader.hand \in Int
          BY <1>0 DEF TypeOK
        <5> QED BY <5>1, <5>2 DEF padding
      <4>3. unread(t) = unread(s) /\ t.recvWindow + t.unacked = s.recvWindow + s.unacked + 1
        BY <1>4, <3>1 DEF unread
      <4>4. pad = padding(reader', a)
        BY <1>0
      <4> HIDE DEF pad, s, t
      <4>5. t.recvWindow + t.unacked + unread(t) + 0 + pad = InitialWindow
        BY <4>1, <4>2, <4>3
      <4> QED BY <1>2, <4>4, <4>5 DEF Credit, unread, padding, t
    <3>2. CASE ~open(a) \/ resetting(reader, a)
      BY <1>0, <1>3, <3>2 DEF Credit, resetting
    <3> QED BY <3>1, <3>2
  <2>4. Asleep(a)'
    <3>1. hpc'[a] # "wait"
      BY <1>1
    <3> QED BY <3>1 DEF Asleep
  <2> QED BY <2>1, <2>2, <2>3, <2>4 DEF StreamOK
<1>8. connRecvWindow' + connUnacked' + reader'.hand + unsettled' + owed(a)' + hand'[a]
        = connRecvWindow + connUnacked + reader.hand + unsettled + owed(a) + hand[a]
  BY <1>0, <1>2, <1>3, BytesType, OwedType
<1> QED BY <1>5, <1>6, <1>7, <1>8, OneStream

-----------------------------------------------------------------------------
LEMMA InductiveInit == Init => Inductive
<1> SUFFICES ASSUME Init PROVE Inductive
  OBVIOUS
<1>1. TypeOK
  <2>1. DOMAIN streams \subseteq Ids /\ \A i \in DOMAIN streams : streams[i] \in Slot
    BY DEF Init
  <2>2. reader \in ReaderType
    BY IdleType DEF Init
  <2>3. /\ hpc \in [Ids -> HandlerAt] /\ woken \in [Ids -> BOOLEAN]
        /\ hand \in [Ids -> 0..1] /\ sawEnd \in [Ids -> BOOLEAN]
    BY DEF Init, HandlerAt
  <2>4. got \in [Ids -> Seq(Nat)]
    BY DEF Init
  <2>5. /\ lastClientStream \in Nat /\ connRecvWindow \in Int /\ connUnacked \in Nat
        /\ clientResets \in Nat /\ frames \in 0..MaxFrames /\ unsettled \in Int
        /\ isClosed \in BOOLEAN /\ goingAway \in BOOLEAN
        /\ {closed, resetByUs, resetByPeer} \subseteq SUBSET Ids
    <3>1. ConnWindow \in Int /\ 0 \in 0..MaxFrames
      BY ConfigAssumption
    <3>2. closed = {} /\ resetByUs = {} /\ resetByPeer = {}
      BY DEF Init
    <3>3. /\ lastClientStream = 0 /\ connRecvWindow = ConnWindow /\ connUnacked = 0
          /\ clientResets = 0 /\ frames = 0 /\ unsettled = 0
      BY DEF Init
    <3>4. closed \subseteq Ids /\ resetByUs \subseteq Ids /\ resetByPeer \subseteq Ids
      BY <3>2
    <3>5. connRecvWindow \in Int /\ frames \in 0..MaxFrames
      BY <3>1, <3>3
    <3>6. /\ lastClientStream \in Nat /\ connUnacked \in Nat /\ clientResets \in Nat
          /\ unsettled \in Int
      BY <3>3
    <3>7. isClosed \in BOOLEAN /\ goingAway \in BOOLEAN
      BY DEF Init
    <3> QED BY <3>4, <3>5, <3>6, <3>7
  <2> QED BY <2>1, <2>2, <2>3, <2>4, <2>5 DEF TypeOK, ReaderType
<1>2. ReaderShape
  BY IdleType DEF Init, ReaderShape
<1>3. \A i \in Ids : StreamOK(i)
  <2> SUFFICES ASSUME NEW i \in Ids PROVE StreamOK(i)
    OBVIOUS
  <2>1. ~open(i)
    BY DEF Init, open
  <2>2. Life(i)
    BY <2>1 DEF Init, Life
  <2>3. Body(i)
    BY <2>1 DEF Init, Body
  <2> QED BY <2>1, <2>2, <2>3 DEF StreamOK, Credit, Asleep
<1>4. ConnBooks
  <2> DEFINE f == [i \in Ids |-> owed(i) + hand[i]]
  <2>1. \A i \in Ids : owed(i) = 0 /\ hand[i] = 0
    BY DEF Init, owed, open
  <2>2. \A i \in Ids : f[i] = 0
    BY <2>1
  <2> HIDE DEF f
  <2>3. SumFunctionOnSet(f, Ids) = 0
    BY <2>2, ConfigAssumption, SumZero
  <2>4. connRecvWindow = ConnWindow /\ connUnacked = 0 /\ reader.hand = 0 /\ unsettled = 0
    BY IdleType DEF Init
  <2> QED BY <2>3, <2>4, ConfigAssumption DEF ConnBooks, ConnCredit, f
<1> QED BY <1>1, <1>2, <1>3, <1>4 DEF Inductive, Streams

LEMMA Unchanged == ASSUME Inductive, UNCHANGED vars PROVE Inductive'
<1>1. UNCHANGED <<streams, lastClientStream, closed, resetByUs, resetByPeer, connRecvWindow,
                  connUnacked, clientResets, isClosed, goingAway, reader, hpc, woken, hand, got,
                  sawEnd, frames, unsettled>>
  BY DEF vars, conn, window, handlers
<1>2. /\ lastClientStream' \in Nat /\ goingAway' \in BOOLEAN /\ frames' \in 0..MaxFrames
      /\ connRecvWindow' \in Int /\ reader' \in ReaderType /\ ReaderShape'
      /\ connRecvWindow' + reader'.hand = connRecvWindow + reader.hand
  BY <1>1 DEF Inductive, Streams, TypeOK, ReaderType, ReaderShape
<1>3. \A i \in Ids : ReaderPasses(i)
  BY <1>1, ReaderStays DEF Inductive, Streams
<1> QED BY <1>1, <1>2, <1>3, ReaderOnly

LEMMA InductiveStep == Inductive /\ [Next]_vars => Inductive'
<1> SUFFICES ASSUME Inductive, [Next]_vars PROVE Inductive'
  OBVIOUS
<1>1. ASSUME NEW id \in Ids, NEW e \in BOOLEAN, NEW l \in Lengths,
             NEW fate \in {"fine", "malformed", "large"}, OpenStream(id, e, l, fate)
      PROVE  Inductive'
  BY <1>1, OpenStep
<1>2. ASSUME NEW id \in Ids, NEW e \in BOOLEAN, LateHeaders(id, e) PROVE Inductive'
  BY <1>2, LateHeadersStep
<1>3. ASSUME NEW id \in Ids, NEW c \in 0..1, NEW p \in 0..1, NEW e \in BOOLEAN, Data(id, c, p, e)
      PROVE  Inductive'
  BY <1>3, DataStep
<1>4. CASE readLoop
  BY <1>1, <1>2, <1>3, <1>4, BadFrameStep, RstStreamStep, TrailersStep, StreamErrorStep,
     DataStatusStep, DeliverStep, PaddingStep, SettleStep, RstRetireStep, GoawayStep, StopStep
     DEF readLoop
<1>5. ASSUME NEW id \in Ids, handler(id) PROVE Inductive'
  BY <1>5, CallStep, RespondStep, ReadBodyStep, ConsumedStep, ThrownStep DEF handler
<1>6. CASE UNCHANGED vars
  BY <1>6, Unchanged
<1> QED BY <1>4, <1>5, <1>6 DEF Next

LEMMA Invariance == Spec => []Inductive
BY InductiveInit, InductiveStep, PTL DEF Spec

(* Every variable keeps its type: in particular no window, buffer or count  *)
(* of what is owed is ever negative or out of range, on any connection.     *)
THEOREM TypeCorrect == Spec => []TypeOK
<1>1. Inductive => TypeOK
  BY DEF Inductive, Streams
<1> QED BY <1>1, Invariance, PTL

(* readBody hands every handler the pieces of its request's body in order,  *)
(* each once, and reports the end only after the last.                      *)
THEOREM BodiesAreIntact == Spec => []BodyIntact
<1>1. ASSUME Inductive, NEW id \in Ids
      PROVE  /\ got[id] = [i \in 1..Len(got[id]) |-> i]
             /\ open(id) => Len(got[id]) + unread(streams[id]) = streams[id].received
             /\ open(id) /\ sawEnd[id] => Len(got[id]) = streams[id].received
  <2>1. Body(id) /\ got[id] \in Seq(Nat) /\ TypeOK
    BY <1>1 DEF Inductive, Streams, StreamOK, TypeOK
  <2> QED BY <2>1 DEF Body, Inbox
<1>2. Inductive => BodyIntact
  BY <1>1 DEF BodyIntact
<1> QED BY <1>2, Invariance, PTL

(* Both kinds of receive window are accounted for to the byte, whatever     *)
(* frames arrive and whenever handlers read, answer, fail and finish.       *)
THEOREM CreditKept == Spec => []CreditIsKept
<1>1. ASSUME Inductive, NEW id \in DOMAIN streams,
             reader.pc \in {"error", "stopped"} => reader.id # id
      PROVE  streams[id].recvWindow + streams[id].unacked + unread(streams[id])
               + hand[id] + (IF reader.pc = "padding" /\ reader.id = id THEN reader.hand ELSE 0)
               = InitialWindow
  <2>1. id \in Ids /\ open(id)
    BY <1>1 DEF Inductive, Streams, TypeOK, open
  <2>2. Credit(id) /\ ~resetting(reader, id)
    BY <1>1, <2>1 DEF Inductive, Streams, StreamOK, resetting
  <2> QED BY <2>1, <2>2 DEF Credit, padding
<1>2. Inductive => TypeOK /\ ConnBooks
  BY DEF Inductive, Streams
<1>3. Inductive => StreamCredit
  BY <1>1, <1>2 DEF StreamCredit
<1>4. Inductive => CreditIsKept
  BY <1>2, <1>3 DEF CreditIsKept
<1> QED BY <1>4, Invariance, PTL

(* No wake-up of readBody is lost: a handler asleep on an open stream has   *)
(* nothing to read, and the next DATA, trailers or close will find it.      *)
THEOREM NobodySleeps == Spec => []NobodySleepsOnData
<1>1. ASSUME Inductive, NEW id \in DOMAIN streams, hpc[id] = "wait", ~woken[id]
      PROVE  unread(streams[id]) = 0 /\ ~streams[id].remoteDone /\ ~isClosed
               /\ streams[id].bodyWaiter
  <2>1. id \in Ids /\ open(id)
    BY <1>1 DEF Inductive, Streams, TypeOK, open
  <2> QED BY <1>1, <2>1 DEF Inductive, Streams, StreamOK, Asleep
<1>2. Inductive => NobodySleepsOnData
  BY <1>1 DEF NobodySleepsOnData
<1> QED BY <1>2, Invariance, PTL

(* A stream id is used once, whatever the peer sends on it: the reader      *)
(* starts a handler only for an id that is neither open nor retired, and a  *)
(* handler that is done stays done.                                         *)
THEOREM IdsUsedOnce == Spec => NeverReopened
<1> DEFINE Grows == \A id \in Ids : id \in closed => id \in closed'
           Moves == \A id \in Ids : \/ hpc'[id] = hpc[id]
                                    \/ hpc[id] = "none"
                                    \/ hpc[id] # "done" /\ hpc'[id] # "none"
           Once == \A id \in Ids : /\ id \in closed => ~open(id)' /\ id \in closed'
                                   /\ hpc[id] # "none" => hpc'[id] # "none"
                                   /\ hpc[id] = "done" => hpc'[id] = "done"
<1>1. ASSUME Inductive, [Next]_vars PROVE Grows
  <2>1. ASSUME NEW a, NEW n, NEW u, NEW p, retire(a, n, u, p) PROVE Grows
    BY <2>1 DEF retire
  <2>2. ASSUME NEW a, resetStream(a) PROVE Grows
    BY <2>1, <2>2 DEF resetStream
  <2>3. ASSUME NEW id \in Ids, NEW e, NEW l, NEW fate, OpenStream(id, e, l, fate) PROVE Grows
    BY <2>1, <2>3 DEF OpenStream, conn
  <2>4. ASSUME UNCHANGED closed PROVE Grows
    BY <2>4
  <2>5. CASE readLoop
    BY <2>1, <2>2, <2>3, <2>4, <2>5 DEF readLoop, LateHeaders, BadFrame, Data, RstStream, Trailers,
       streamError, DataStatus, Deliver, Padding, Settle, RstRetire, Goaway, Stop, conn
  <2>6. ASSUME NEW id \in Ids, handler(id) PROVE Grows
    BY <2>1, <2>2, <2>4, <2>6 DEF handler, Call, readBody, Woken, WaitTimesOut, Consumed, Thrown,
       EndResponse, Look, RetireFinished, StopBody, Respond, conn
  <2> QED BY <1>1, <2>4, <2>5, <2>6 DEF Next, vars, conn
<1>2. ASSUME Inductive, [Next]_vars PROVE Moves
  <2>1. hpc \in [Ids -> HandlerAt] /\ \A id \in Ids : Life(id)
    BY <1>2 DEF Inductive, Streams, TypeOK, StreamOK
  <2>2. ASSUME UNCHANGED hpc PROVE Moves
    BY <2>2
  <2>3. ASSUME NEW id \in Ids, NEW e, NEW l, NEW fate, OpenStream(id, e, l, fate) PROVE Moves
    <3>1. hpc[id] = "none"
      BY <2>1, <2>3, StatusOpen DEF OpenStream, Life
    <3>2. hpc' = hpc \/ hpc' = [hpc EXCEPT ![id] = "run"]
      BY <2>3 DEF OpenStream, handlers
    <3> QED BY <2>1, <3>1, <3>2
  <2>4. CASE readLoop
    BY <2>2, <2>3, <2>4 DEF readLoop, LateHeaders, BadFrame, Data, RstStream, Trailers,
       streamError, DataStatus, Deliver, Padding, Settle, RstRetire, Goaway, Stop, handlers
  <2>5. ASSUME NEW id \in Ids, handler(id) PROVE Moves
    <3>1. ASSUME NEW from, NEW to, goto(id, from, to), from # "done", to # "none" PROVE Moves
      BY <2>1, <3>1 DEF goto
    <3> QED BY <2>2, <2>5, <3>1 DEF handler, Call, readBody, Woken, WaitTimesOut, Consumed, Thrown,
       EndResponse, Look, RetireFinished, StopBody, Respond
  <2> QED BY <1>2, <2>2, <2>4, <2>5 DEF Next, vars, handlers
<1>3. ASSUME Inductive, Inductive', [Next]_vars PROVE Once
  <2>1. \A id \in Ids : Life(id)'
    BY <1>3 DEF Inductive, Streams, StreamOK
  <2>2. Grows /\ Moves
    BY <1>1, <1>2, <1>3
  <2>3. \A id \in Ids : id \in closed => ~open(id)' /\ id \in closed'
    BY <2>1, <2>2 DEF Life
  <2> QED BY <2>2, <2>3
<1>4. Inductive /\ Inductive' /\ [Next]_vars => [Once]_vars
  BY <1>3
<1> QED BY <1>4, Invariance, PTL DEF Spec, NeverReopened

=============================================================================
