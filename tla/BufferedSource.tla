--------------------------- MODULE BufferedSource ---------------------------
(* WebApp.Server.Request.ByteSource.buffered: the reader the HTTP server    *)
(* puts over a socket or a TLS session.  Each recv is a step, which may     *)
(* wait, time out or fail; a caller stops after a failure. *)
EXTENDS Naturals, Sequences, FiniteSetsExt

CONSTANTS Input, CR, LF, Sizes,
          Junk,          \* a byte that makes a line invalid as UTF-8
          Chunk,         \* the most one recv returns
          maxLineBytes

VARIABLES peer, kernel,  \* what the peer has not sent yet; what has arrived
          link,          \* "open", "closed" by the peer, or "reset"
          bytes, pos,    \* the buffer, and how many of it were read
          call,          \* "none", "readLine", "readN", "readSome"
          n, scanned,
          waiting,       \* in recv
          result, broken

callVars == <<call, n, scanned, waiting>>
vars == <<peer, kernel, link, bytes, pos, callVars, result, broken>>

TypeOK ==
  /\ link \in {"open", "closed", "reset"}
  /\ pos \in 0..Len(bytes) /\ n \in Nat /\ scanned \in Nat
  /\ call \in {"none", "readLine", "readN", "readSome"}
  /\ waiting \in BOOLEAN /\ broken \in BOOLEAN
  /\ waiting /\ call # "readLine" => pos = Len(bytes)

Init ==
  /\ peer \in Input /\ kernel = <<>> /\ link = "open"
  /\ bytes = <<>> /\ pos = 0
  /\ call = "none" /\ n = 0 /\ scanned = 0 /\ waiting = FALSE
  /\ result = <<>> /\ broken = FALSE

unread == SubSeq(bytes, pos + 1, Len(bytes))

Send ==
  /\ link = "open" /\ peer # <<>>
  /\ \E k \in 1..Len(peer) : /\ kernel' = kernel \o SubSeq(peer, 1, k)
                             /\ peer' = SubSeq(peer, k + 1, Len(peer))
  /\ UNCHANGED <<link, bytes, pos, callVars, result, broken>>

Hangup ==
  /\ link = "open"
  /\ link' \in (IF peer = <<>> THEN {"closed"} ELSE {}) \cup {"reset"}
  /\ UNCHANGED <<peer, kernel, bytes, pos, callVars, result, broken>>

Start(name) ==
  /\ call = "none" /\ ~broken
  /\ call' = name /\ scanned' = 0
  /\ UNCHANGED <<peer, kernel, link, bytes, pos, result, broken>>

readLine == Start("readLine") /\ UNCHANGED <<n, waiting>>

(* With nothing buffered they receive first. *)
readN ==
  /\ \E size \in Sizes : n' = size
  /\ Start("readN") /\ waiting' = (unread = <<>>)

readSome == Start("readSome") /\ waiting' = (unread = <<>>) /\ UNCHANGED n

Return(value) ==
  /\ result' = value /\ call' = "none" /\ UNCHANGED <<n, scanned, broken>>

Error ==
  /\ broken' = TRUE /\ call' = "none" /\ UNCHANGED <<n, scanned, result>>

(* A line that is not valid UTF-8 is an error. *)
decode(value) ==
  IF \E i \in 1..Len(value) : value[i] = Junk THEN Error ELSE Return(value)

(* The first CRLF at or after start, by its index from 0. *)
findCRLF(start) ==
  {i \in start..Len(bytes) - 2 : bytes[i + 1] = CR /\ bytes[i + 2] = LF}

(* readLine looks at what it has not searched yet, but for a CR at the end. *)
ScanLine ==
  /\ call = "readLine" /\ ~waiting
  /\ LET found == findCRLF(pos + scanned)
     IN  IF found # {}
         THEN /\ pos' = Min(found) + 2 /\ decode(SubSeq(bytes, pos + 1, Min(found)))
              /\ UNCHANGED waiting
         ELSE IF Len(unread) > maxLineBytes
         THEN Error /\ UNCHANGED <<pos, waiting>>
         ELSE /\ scanned' = IF unread = <<>> THEN 0 ELSE Len(unread) - 1
              /\ waiting' = TRUE
              /\ UNCHANGED <<pos, call, n, result, broken>>
  /\ UNCHANGED <<peer, kernel, link, bytes>>

(* readN and readSome return from the buffer. *)
TakeBuffered ==
  /\ call \in {"readN", "readSome"} /\ ~waiting
  /\ LET stop == IF call = "readN" THEN Min({Len(bytes), pos + n}) ELSE Len(bytes)
     IN pos' = stop /\ Return(SubSeq(bytes, pos + 1, stop))
  /\ UNCHANGED <<peer, kernel, link, bytes, waiting>>

Chunks == 1..Min({Chunk, Len(kernel)})

(* recv: a chunk, the end of input, or a failure. *)
fill ==
  /\ waiting /\ waiting' = FALSE
  /\ \/ \E k \in Chunks :
          /\ kernel' = SubSeq(kernel, k + 1, Len(kernel))
          /\ IF call = "readSome"
             THEN Return(SubSeq(kernel, 1, k)) /\ UNCHANGED <<bytes, pos>>
             ELSE /\ bytes' = unread \o SubSeq(kernel, 1, k) /\ pos' = 0
                  /\ UNCHANGED <<call, n, scanned, result, broken>>
     \/ /\ kernel = <<>> /\ link = "closed"
        /\ pos' = Len(bytes)
        /\ IF call = "readLine" THEN decode(unread) ELSE Return(<<>>)
        /\ UNCHANGED <<kernel, bytes>>
     \/ Error /\ UNCHANGED <<kernel, bytes, pos>>
  /\ UNCHANGED <<peer, link>>

(* feed: a chunk received on a green thread, between two reads. *)
feed ==
  /\ call = "none" /\ ~broken
  /\ \E k \in Chunks :
       /\ bytes' = unread \o SubSeq(kernel, 1, k) /\ pos' = 0
       /\ kernel' = SubSeq(kernel, k + 1, Len(kernel))
  /\ UNCHANGED <<peer, link, callVars, result, broken>>

Next ==
  \/ Send \/ Hangup
  \/ readLine \/ readN \/ readSome \/ feed
  \/ ScanLine \/ TakeBuffered \/ fill

Spec == Init /\ [][Next]_vars

-----------------------------------------------------------------------------
Abstract == INSTANCE ByteSource
  WITH input <- IF broken THEN <<>> ELSE unread \o kernel \o peer

(* The reads return the input, all of it and in order, however it arrives   *)
(* in chunks, however the calls alternate, and although a second search of  *)
(* a line starts where the first one stopped. *)
IsByteSource == Abstract!Spec

(* A comment of ByteSource.buffered says that a line longer than            *)
(* maxLineBytes is an error.                                                *)
LineWithinLimit == [][call = "readLine" /\ call' = "none" /\ ~broken'
                        => Len(result') <= maxLineBytes]_vars
=============================================================================
