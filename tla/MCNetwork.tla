------------------------------ MODULE MCNetwork -----------------------------
(* What the network code reads and writes through: sockets, the two readers *)
(* of lines, TLS sessions and zlib streams.  They share no state: a         *)
(* behaviour exercises the one chosen at the start, and the others stay as  *)
(* they were made.                                                          *)
EXTENDS MCTlsSession

CONSTANTS File, Loop, None, Numbers, CloseFails, Deadlines,
          Input, SrcInput, CR, LF, Sizes, RECVBUF_SIZE, LineSize, Retries,
          Junk, Chunk, maxLineBytes,
          Wire, LINEN_ZLIB_CHUNK, Bad, End

ASSUME SocketAssumption ==
  /\ File \cap Loop = {} /\ None \notin File \cup Loop
  /\ Numbers \subseteq Nat

ASSUME ZlibAssumption ==
  /\ LINEN_ZLIB_CHUNK \in Nat \ {0}
  /\ {Bad, End} \cap Nat = {} /\ Wire \subseteq Seq(Nat \cup {Bad, End})

(* The parser asks for a byte at least.                                     *)
ASSUME ReaderAssumption ==
  /\ {RECVBUF_SIZE, LineSize, Retries, Chunk} \subseteq Nat \ {0}
  /\ Sizes \subseteq Nat \ {0} /\ maxLineBytes \in Nat
  /\ \A input \in Input \cup SrcInput : input \in Seq(ToSet(input))

(* Input with every place of a CR and an LF, and lines longer than a buffer.*)
EveryPlace ==
  {<<"x", CR, LF, CR, LF, "x", CR>>, <<CR, CR, LF, LF, "x", "x">>,
   <<LF, "x", "x", "x", "x", "x", CR, LF>>}

LongLines ==
  {<<"x", CR, LF, CR, LF, "x", CR>>, <<CR, CR, LF, LF, "x", "x">>,
   <<"x", "x", "x", Junk, CR, LF, "x">>}

(* A stretch of compressed input is written as the bytes it decodes to.     *)
EveryStream ==
  {<<1, 2, End>>, <<2, 2>>, <<5, 1, End, 1>>, <<3, Bad, 1>>, <<0, 2, 0>>,
   <<4, 0, End>>}

VARIABLES
          exercised, table, inKernel, ready, number, sockHeld, type,
          sending, waited, sockTouched, peer, kernel, link, buf, pos, call,
          n, line, retry, result, broken, srcPeer, srcKernel, srcLink,
          bytes, srcPos, srcCall, srcN, scanned, waiting, srcResult,
          srcBroken, kind, stream, initialized, finished, zHeld, zCall,
          zWire, next_in, inside, out_buf, due, delivered, zFailed,
          zTouched

Net == INSTANCE Sockets
  WITH kernel <- inKernel, held <- sockHeld, touched <- sockTouched
Rb == INSTANCE RecvBuffer
Src == INSTANCE BufferedSource
  WITH Input <- SrcInput, peer <- srcPeer, kernel <- srcKernel,
       link <- srcLink, pos <- srcPos, call <- srcCall, n <- srcN,
       result <- srcResult, broken <- srcBroken
Zlib == INSTANCE ZlibStream
  WITH held <- zHeld, call <- zCall, wire <- zWire, failed <- zFailed,
       touched <- zTouched

socketsVars == <<table, inKernel, ready, number, sockHeld, type, sending,
                 waited, sockTouched>>
recvbufVars == <<peer, kernel, link, buf, pos, call, n, line, retry,
                 result, broken>>
bufferedVars == <<srcPeer, srcKernel, srcLink, bytes, srcPos, srcCall,
                  srcN, scanned, waiting, srcResult, srcBroken>>
zlibVars == <<kind, stream, initialized, finished, zHeld, zCall, zWire,
              next_in, inside, out_buf, due, delivered, zFailed, zTouched>>
allVars == <<exercised, vars, socketsVars, recvbufVars, bufferedVars,
             zlibVars>>

MCInit ==
  /\ exercised \in {"tls", "sockets", "recvbuf", "buffered", "zlib"}
  /\ Init
  /\ exercised # "tls" =>
       use = (CHOOSE u \in Uses : TRUE) /\ coming = (CHOOSE c \in Incoming : TRUE)
  /\ Net!Init
  /\ Rb!Init /\ (exercised # "recvbuf" => peer = (CHOOSE i \in Input : TRUE))
  /\ Src!Init /\ (exercised # "buffered" => srcPeer = (CHOOSE i \in SrcInput : TRUE))
  /\ Zlib!Init
  /\ exercised # "zlib" => kind = "inflate" /\ zWire = (CHOOSE w \in Wire : TRUE)

(* A step of one component leaves the others alone. *)
tlsStep(A) ==
  /\ exercised = "tls" /\ A
  /\ UNCHANGED <<exercised, socketsVars, recvbufVars, bufferedVars, zlibVars>>
socketsStep(A) ==
  /\ exercised = "sockets" /\ A
  /\ UNCHANGED <<exercised, vars, recvbufVars, bufferedVars, zlibVars>>
recvbufStep(A) ==
  /\ exercised = "recvbuf" /\ A
  /\ UNCHANGED <<exercised, vars, socketsVars, bufferedVars, zlibVars>>
bufferedStep(A) ==
  /\ exercised = "buffered" /\ A
  /\ UNCHANGED <<exercised, vars, socketsVars, recvbufVars, zlibVars>>
zlibStep(A) ==
  /\ exercised = "zlib" /\ A
  /\ UNCHANGED <<exercised, vars, socketsVars, recvbufVars, bufferedVars>>

MCNext ==
  \/ tlsStep(Next) \/ socketsStep(Net!Next) \/ recvbufStep(Rb!Next)
  \/ bufferedStep(Src!Next) \/ zlibStep(Zlib!Next)

(* The fairness of TlsSession!Spec and of ZlibStream!Spec. *)
MCFairness ==
  /\ WF_allVars(tlsStep(linen_tls_read_nb)) /\ WF_allVars(tlsStep(pollForRead))
  /\ WF_allVars(tlsStep(linen_tls_read)) /\ WF_allVars(tlsStep(linen_tls_read_return))
  /\ WF_allVars(tlsStep(Arrive))
  /\ \A w \in Writer :
       /\ WF_allVars(tlsStep(linen_tls_write_nb(w) \/ linen_tls_write(w)))
       /\ WF_allVars(tlsStep(pollForWrite(w)))
  /\ WF_allVars(zlibStep(Zlib!linen_zlib_drive))
  /\ WF_allVars(zlibStep(Zlib!linen_zlib_drive_deflate))

MCSpec == MCInit /\ [][MCNext]_allVars /\ MCFairness

-----------------------------------------------------------------------------
(* See Sockets, TlsSession and ZlibStream: nothing that was closed or freed *)
(* is reached, nor closed or freed again.                                   *)
HandlesKeepContract == KeepsContract /\ Net!KeepsContract /\ Zlib!KeepsContract

(* See Sockets: a number is that of the file its wrapper opened, and the    *)
(* state in a socket's type is its state in the kernel.                     *)
SocketsAreTheirOwn == Net!TypeOK /\ Net!OwnFile /\ Net!TypeIsTrue

(* See TlsSession: what is written goes out whole, once, and with nothing   *)
(* in between.  The one exception is HTTP/2 once a write has failed: see    *)
(* the run http2_tls_write.                                                 *)
Http2WriteFailed == use = "http2" /\ \E w \in Writer : writer[w] = "failed"
WritesAreWhole == TypeOK /\ (Http2WriteFailed \/ (OwnBytes /\ NothingWritesBetween))

(* See RecvBuffer and BufferedSource: both readers return the input, line   *)
(* by line or in counts, all of it and in order.                            *)
IsByteSource ==
  /\ []Rb!TypeOK /\ Rb!IsByteSource
  /\ []Src!TypeOK /\ Src!IsByteSource

(* See ZlibStream: finish flushes nothing that feed should have returned.   *)
NothingWithheld == Zlib!TypeOK /\ Zlib!NothingWithheld

(* See ZlibStream: a z_stream is freed at the latest with its handle.       *)
FreedWithItsHandle == Zlib!FreedWithItsHandle

(* See ZlibStream and TlsSession: the loops that drive zlib end, and a      *)
(* thread with something to write gets the session.                         *)
CallsReturn == Zlib!CallsReturn /\ WritersGetTheLock
=============================================================================
