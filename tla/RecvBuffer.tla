----------------------------- MODULE RecvBuffer -----------------------------
(* The buffered reader of src/ffi/network.c.  Bytes arrive while a read is  *)
(* under way; each recv is a step.  A caller stops after a failure. *)
EXTENDS Naturals, Sequences, FiniteSetsExt

CONSTANTS Input, CR, LF, Sizes,
          RECVBUF_SIZE,  \* bytes in the buffer
          LineSize,      \* bytes in the line being assembled
          Retries        \* attempts at a recv that would block

VARIABLES peer,    \* what the peer has not sent yet
          kernel,  \* what has arrived
          link,    \* "open", "closed" by the peer, or "reset"
          buf,     \* rb->buf up to rb->len
          pos,     \* rb->pos
          call,    \* "none", "readline", "readn"
          n,       \* bytes asked for
          line,    \* what the call has gathered: line or dst
          retry,
          result, broken

bufVars == <<buf, pos>>
callVars == <<call, n, line, retry>>
vars == <<peer, kernel, link, bufVars, callVars, result, broken>>

TypeOK ==
  /\ link \in {"open", "closed", "reset"}
  /\ Len(buf) <= RECVBUF_SIZE /\ pos \in 0..Len(buf)
  /\ call \in {"none", "readline", "readn"} /\ n \in Nat
  /\ Len(line) <= IF call = "readn" THEN n ELSE LineSize - 1
  /\ retry \in 0..Retries - 1 /\ broken \in BOOLEAN

Init ==
  /\ peer \in Input /\ kernel = <<>> /\ link = "open"
  /\ buf = <<>> /\ pos = 0
  /\ call = "none" /\ n = 0 /\ line = <<>> /\ retry = 0
  /\ result = <<>> /\ broken = FALSE

unread == SubSeq(buf, pos + 1, Len(buf))

-----------------------------------------------------------------------------
(* The peer *)

Send ==
  /\ link = "open" /\ peer # <<>>
  /\ \E k \in 1..Len(peer) : /\ kernel' = kernel \o SubSeq(peer, 1, k)
                             /\ peer' = SubSeq(peer, k + 1, Len(peer))
  /\ UNCHANGED <<link, bufVars, callVars, result, broken>>

Hangup ==
  /\ link = "open"
  /\ link' \in (IF peer = <<>> THEN {"closed"} ELSE {}) \cup {"reset"}
  /\ UNCHANGED <<peer, kernel, bufVars, callVars, result, broken>>

-----------------------------------------------------------------------------
linen_recvbuf_readline ==
  /\ call = "none" /\ ~broken
  /\ call' = "readline" /\ line' = <<>> /\ retry' = 0
  /\ UNCHANGED <<peer, kernel, link, bufVars, n, result, broken>>

linen_recvbuf_readn ==
  /\ call = "none" /\ ~broken
  /\ \E size \in Sizes : n' = size
  /\ call' = "readn" /\ line' = <<>> /\ retry' = 0
  /\ UNCHANGED <<peer, kernel, link, bufVars, result, broken>>

Return(bytes) ==
  /\ result' = bytes /\ call' = "none" /\ line' = <<>>
  /\ UNCHANGED <<n, retry, broken>>

Error ==
  /\ broken' = TRUE /\ call' = "none" /\ line' = <<>>
  /\ UNCHANGED <<n, retry, result>>

(* The end of the line, counted from the start of what was gathered: a LF   *)
(* after a CR, the CR perhaps from before the last refill. *)
gathered == line \o unread
lineEndsInBuffer ==   \* Bug: a CR before the last refill is forgotten.
  {i \in Len(line) + 2..Len(gathered) : gathered[i - 1] = CR /\ gathered[i] = LF}

lineEnds == {i \in Len(line) + 1..Len(gathered) :
               i > 1 /\ gathered[i - 1] = CR /\ gathered[i] = LF}

(* The inner loop of readline over what is buffered; line has room for      *)
(* LineSize - 1 bytes. *)
ScanLine ==
  /\ call = "readline" /\ unread # <<>>
  /\ IF \E i \in lineEnds : i <= LineSize
     THEN LET end == Min(lineEnds)
          IN  pos' = pos + end - Len(line) /\ Return(SubSeq(gathered, 1, end - 2))
     ELSE IF Len(gathered) >= LineSize
     THEN pos' = pos + LineSize - Len(line) /\ Error
     ELSE /\ pos' = Len(buf) /\ line' = gathered
          /\ UNCHANGED <<call, n, retry, result, broken>>
  /\ UNCHANGED <<peer, kernel, link, buf>>

(* The copy of readn: done when it has them all. *)
CopyN ==
  /\ call = "readn" /\ unread # <<>>
  /\ LET k == Min({n - Len(line), Len(unread)})
         got == line \o SubSeq(unread, 1, k)
     IN  /\ pos' = pos + k
         /\ IF Len(got) = n THEN Return(got)
            ELSE line' = got /\ UNCHANGED <<call, n, retry, result, broken>>
  /\ UNCHANGED <<peer, kernel, link, buf>>

(* recvbuf_fill: what is left is moved to the front; a recv that would      *)
(* block is tried again, and fails in the end.  A full buffer would be      *)
(* taken for the end of the input. *)
space == RECVBUF_SIZE - Len(unread)

recvbuf_fill ==
  /\ call # "none" /\ unread = <<>>
  /\ pos' = 0
  /\ \/ /\ space > 0
        /\ \E k \in 1..Min({space, Len(kernel)}) :
             /\ buf' = unread \o SubSeq(kernel, 1, k)
             /\ kernel' = SubSeq(kernel, k + 1, Len(kernel))
        /\ retry' = 0 /\ UNCHANGED <<call, n, line, result, broken>>
     \/ /\ space = 0 \/ (kernel = <<>> /\ link = "closed")
        /\ Return(line) /\ buf' = unread /\ UNCHANGED kernel
     \/ /\ space > 0 /\ kernel = <<>> /\ link = "open" /\ retry < Retries - 1
        /\ retry' = retry + 1 /\ buf' = unread
        /\ UNCHANGED <<kernel, call, n, line, result, broken>>
     \/ /\ space > 0
        /\ link = "reset" \/ (kernel = <<>> /\ link = "open" /\ retry = Retries - 1)
        /\ Error /\ buf' = unread /\ UNCHANGED kernel
  /\ UNCHANGED <<peer, link>>

Next ==
  \/ Send \/ Hangup
  \/ linen_recvbuf_readline \/ linen_recvbuf_readn
  \/ ScanLine \/ CopyN \/ recvbuf_fill

Spec == Init /\ [][Next]_vars

-----------------------------------------------------------------------------
Abstract == INSTANCE ByteSource
  WITH input <- IF broken THEN <<>> ELSE line \o unread \o kernel \o peer

(* Whatever the pieces in which the input arrives, and wherever the edges   *)
(* of the buffer fall (between a CR and its LF too), the reads return the   *)
(* input line by line or in the counts asked for: no byte twice, none left  *)
(* out, and an end of input only where the peer ended it.                   *)
IsByteSource == Abstract!Spec
=============================================================================
