----------------------------- MODULE TlsSession -----------------------------
(* One context and one session of src/ffi/tls.c, and the loops of           *)
(* Linen/Network/TLS over the session: the handshake, readWithin and        *)
(* writeWithin on a non-blocking socket, read and write on a blocking one,  *)
(* close and the finalizers.  The mutex of the session is held for a whole  *)
(* C call, so a call that does not wait is one step; the loops wait between *)
(* calls.  One thread reads and others write, as in an HTTP/2 connection or *)
(* a Redis subscriber; the writers take turns (Conn.writeLock).             *)
EXTENDS SequencesExt

CONSTANTS Writer,
          Message,           \* what each writer writes
          Incoming,          \* the records the peer may send, and how it ends
          Awaited,           \* bytes the peer must have got before it sends
          Uses               \* who uses the session, of the four below

(* A message stands for bytes that can be told apart: from each other, and   *)
(* from what the session sends of itself. *)
ASSUME MessageAssumption ==
  /\ \A w \in Writer :
       /\ Message[w] \in Seq(ToSet(Message[w])) /\ IsInjective(Message[w])
       /\ "close_notify" \notin ToSet(Message[w])
  /\ \A v, w \in Writer : v # w => ToSet(Message[v]) \cap ToSet(Message[w]) = {}

(* An HTTP/1 server and an HTTP/2 server, on a non-blocking socket; an HTTP *)
(* or Redis client and a Redis subscriber, on a blocking one.  A client     *)
(* reads and writes by turns, a subscriber in two threads.                  *)
Use == {"http1", "http2", "client", "subscriber"}

ASSUME UsesAssumption == Uses \subseteq Use

VARIABLES use,
          context,  \* the context's wrapper: "none", "held" or "gone"
          alpn,     \* the context has a list of protocols to select from
          ssl,      \* "none", "handshake", "established" or "null"
          failed,   \* the wrapper's flag
          fatal,    \* the library reported a fatal error
          held,     \* the program holds the session's wrapper
          socket,   \* "ours", or "closed": its number may be another's
          coming, inbox,    \* what the peer has yet to send, and has sent
          plain,    \* decrypted and not yet read
          pending,  \* a record that the socket has not taken
          wire,     \* what the socket has taken
          reader,   \* "idle", "SSL_read", "wantRead", "wantWrite" or "over"
          writer,   \* of each: "idle", "call", "wait", "done" or "failed"
          got,      \* bytes the reader was given
          touched   \* what the last step reached of the context and the SSL

lib == <<fatal, inbox, plain, pending, wire>>
vars == <<use, context, alpn, ssl, failed, held, socket, coming, lib, reader, writer,
          got, touched>>

close_notify == <<"close_notify">>
eof == <<"end of file">>
reset == <<"connection reset">>
Ends == {close_notify, eof, reset}

TypeOK ==
  /\ use \in Use /\ context \in {"none", "held", "gone"}
  /\ ssl \in {"none", "handshake", "established", "null"}
  /\ {alpn, failed, fatal, held} \subseteq BOOLEAN
  /\ socket \in {"ours", "closed"}
  /\ reader \in {"idle", "SSL_read", "wantRead", "wantWrite", "over"}
  /\ writer \in [Writer -> {"idle", "call", "wait", "done", "failed"}]
  /\ touched \subseteq {"context", "ssl"}

Init ==
  /\ use \in Uses /\ context = "none" /\ alpn = FALSE
  /\ ssl = "none" /\ failed = FALSE /\ fatal = FALSE /\ held = FALSE
  /\ socket = "ours" /\ coming \in Incoming /\ inbox = <<>>
  /\ plain = <<>> /\ pending = <<>> /\ wire = <<>> /\ got = <<>>
  /\ reader = "idle" /\ writer = [w \in Writer |-> "idle"]
  /\ touched = {}

blocking == use \in {"client", "subscriber"}
busy == \E w \in Writer : writer[w] \in {"call", "wait"}

(* The mutex: only a read of a blocking socket keeps it over a wait.        *)
locked == reader = "SSL_read"

reach == IF ssl = "null" THEN {} ELSE {"ssl"}

-----------------------------------------------------------------------------
(* linen_tls_ctx_create, linen_tls_client_ctx_create, and the latter with   *)
(* its own authorities. *)
CreateContext ==
  /\ context = "none"
  /\ context' = "held" /\ touched' = {"context"}
  /\ UNCHANGED <<use, alpn, ssl, failed, held, socket, coming, lib, reader, writer, got>>

linen_tls_ctx_create == CreateContext
linen_tls_client_ctx_create == CreateContext
linen_tls_client_ctx_create_with_ca == CreateContext

(* The list, which alpn_select_cb finds through the context's wrapper.      *)
linen_tls_set_alpn_protocols ==
  /\ context = "held" /\ ssl = "none"
  /\ alpn' = TRUE /\ touched' = {"context"}
  /\ UNCHANGED <<use, context, ssl, failed, held, socket, coming, lib, reader, writer, got>>

(* A server holds the context while it serves, so beyond every handshake.   *)
linen_ssl_ctx_finalizer ==
  /\ context = "held" /\ ssl # "handshake"
  /\ context' = "gone" /\ touched' = {"context"}
  /\ UNCHANGED <<use, alpn, ssl, failed, held, socket, coming, lib, reader, writer, got>>

linen_tls_new_session ==
  /\ context = "held" /\ ssl = "none"
  /\ ssl' = "handshake" /\ held' = TRUE /\ touched' = {"context", "ssl"}
  /\ UNCHANGED <<use, context, alpn, failed, socket, coming, lib, reader, writer, got>>

(* A step of the handshake: done, to be repeated after a wait, or failed.   *)
(* The callback runs inside it. *)
linen_tls_handshake_nb ==
  /\ ssl = "handshake" /\ held /\ socket = "ours" /\ ~failed
  /\ touched' = {"ssl"} \cup IF alpn THEN {"context"} ELSE {}
  /\ \/ ssl' = "established" /\ UNCHANGED <<failed, fatal>>
     \/ UNCHANGED <<ssl, failed, fatal>>
     \/ fatal' = TRUE /\ failed' = TRUE /\ UNCHANGED ssl
  /\ UNCHANGED <<use, context, alpn, held, socket, coming, inbox, plain, pending, wire,
                 reader, writer, got>>

-----------------------------------------------------------------------------
(* OpenSSL's SSL_read hands out decrypted bytes, decrypting a record when   *)
(* it has none; or says that it must wait, or how the input ended.          *)
Decrypted ==
  IF plain = <<>> /\ inbox # <<>> /\ Head(inbox) \notin Ends THEN Head(inbox) ELSE plain

SSL_read(answer) ==
  \/ /\ answer = "bytes" /\ Decrypted # <<>>
     /\ got' = Append(got, Head(Decrypted)) /\ plain' = Tail(Decrypted)
     /\ inbox' = IF plain = <<>> THEN Tail(inbox) ELSE inbox
     /\ UNCHANGED fatal
  \/ /\ Decrypted = <<>>
     /\ \/ answer = "wantRead" /\ inbox = <<>> /\ UNCHANGED fatal
        \/ answer = "wantWrite" /\ UNCHANGED fatal
        \/ answer = "end" /\ inbox # <<>> /\ Head(inbox) = close_notify /\ UNCHANGED fatal
        \/ answer = "error" /\ inbox # <<>> /\ Head(inbox) \in {eof, reset} /\ fatal' = TRUE
     /\ UNCHANGED <<got, plain, inbox>>

(* SSL_write, with partial writes off and a buffer that may move: while a   *)
(* record is pending the call is taken for its repetition, whatever it is   *)
(* given, as long as it is no shorter. *)
SSL_write(m, answer) ==
  \/ /\ answer = "ok" /\ Len(pending) <= Len(m)
     /\ wire' = wire \o pending \o SubSeq(m, Len(pending) + 1, Len(m))
     /\ pending' = <<>> /\ UNCHANGED fatal
  \/ /\ answer = "want" /\ Len(pending) <= Len(m)
     /\ pending' = IF pending = <<>> THEN m ELSE pending
     /\ UNCHANGED <<wire, fatal>>
  \/ answer = "error" /\ fatal' = TRUE /\ UNCHANGED <<wire, pending>>

Call ==
  /\ ssl \in {"established", "null"} /\ held /\ ~locked
  /\ touched' = reach
  /\ UNCHANGED <<use, context, alpn, ssl, held, socket, coming>>

(* Bug: the socket is waited for before OpenSSL is asked. *)
linen_tls_read_nb_polling ==
  /\ ~blocking /\ reader = "idle" /\ Call
  /\ IF ssl = "null" \/ inbox = <<>>
     THEN /\ reader' = IF ssl = "null" THEN "over" ELSE "wantRead"
          /\ UNCHANGED <<fatal, inbox, plain, got, failed>>
     ELSE \E answer \in {"bytes", "wantRead", "wantWrite", "end", "error"} :
            /\ SSL_read(answer)
            /\ failed' = (failed \/ answer = "error")
            /\ reader' = CASE answer = "bytes" -> "idle"
                           [] answer \in {"end", "error"} -> "over"
                           [] OTHER -> answer
  /\ UNCHANGED <<pending, wire, writer>>

(* linen_tls_read_nb, called by readWithin before any wait. *)
linen_tls_read_nb ==
  /\ ~blocking /\ reader = "idle" /\ Call
  /\ IF ssl = "null"
     THEN reader' = "over" /\ UNCHANGED <<fatal, inbox, plain, got, failed>>
     ELSE \E answer \in {"bytes", "wantRead", "wantWrite", "end", "error"} :
            /\ SSL_read(answer)
            /\ failed' = (failed \/ answer = "error")
            /\ reader' = CASE answer = "bytes" -> "idle"
                           [] answer \in {"end", "error"} -> "over"
                           [] OTHER -> answer
  /\ UNCHANGED <<pending, wire, writer>>

(* pollFor: the socket is ready, the wait timed out, or the socket is gone. *)
pollForRead ==
  /\ \/ /\ reader = "wantWrite" \/ (reader = "wantRead" /\ inbox # <<>>)
        /\ reader' = "idle"
     \/ reader \in {"wantRead", "wantWrite"} /\ reader' = "over"
  /\ touched' = {}
  /\ UNCHANGED <<use, context, alpn, ssl, failed, held, socket, coming, lib, writer, got>>

(* linen_tls_read waits inside SSL_read. *)
linen_tls_read ==
  /\ blocking /\ reader = "idle" /\ (use = "client" => ~busy) /\ Call
  /\ reader' = IF ssl = "null" THEN "over" ELSE "SSL_read"
  /\ UNCHANGED <<lib, failed, writer, got>>

linen_tls_read_return ==
  /\ reader = "SSL_read"
  /\ \E answer \in {"bytes", "end", "error"} :
       /\ SSL_read(answer)
       /\ failed' = (failed \/ answer = "error")
       /\ reader' = IF answer = "bytes" THEN "idle" ELSE "over"
  /\ touched' = reach
  /\ UNCHANGED <<use, context, alpn, ssl, held, socket, coming, pending, wire, writer>>

(* A write begins: one at a time, but who may begin it, and when, is for    *)
(* the code above the session to say. *)
Begins(w) ==
  /\ ssl \in {"established", "null"} /\ held /\ writer[w] = "idle"
  /\ writer' = [writer EXCEPT ![w] = "call"] /\ touched' = {}
  /\ UNCHANGED <<use, context, alpn, ssl, failed, held, socket, coming, lib, reader, got>>

(* serveHttp: the thread of the connection writes one answer after another; *)
(* an exception ends the loop, and with it the connection. *)
http1Turn(w) ==
  /\ use = "http1" /\ ~busy /\ \A v \in Writer : writer[v] # "failed"
  /\ Begins(w)

(* Bug: the write lock is given back for the wait. *)
http2TurnInWait(w) ==
  /\ use = "http2" /\ \A v \in Writer : writer[v] # "call"
  /\ Begins(w)

(* Conn.send: writers of any thread, one at a time under Conn.writeLock; a  *)
(* write that failed says nothing to the others. *)
http2Turn(w) == use = "http2" /\ ~busy /\ Begins(w)

(* A client writes, then reads; a subscriber reads in a thread of its own.  *)
clientTurn(w) ==
  /\ blocking /\ ~busy /\ (use = "client" => reader # "SSL_read")
  /\ Begins(w)

Turn(w) == http1Turn(w) \/ http2Turn(w) \/ clientTurn(w)

Write(w, answers) ==
  /\ writer[w] = "call" /\ Call
  /\ IF ssl = "null"
     THEN writer' = [writer EXCEPT ![w] = "failed"] /\ UNCHANGED <<fatal, pending, wire, failed>>
     ELSE \E answer \in answers :
            /\ SSL_write(Message[w], answer)
            /\ failed' = (failed \/ answer = "error")
            /\ writer' = [writer EXCEPT ![w] = CASE answer = "ok" -> "done"
                                                 [] answer = "want" -> "wait"
                                                 [] OTHER -> "failed"]
  /\ UNCHANGED <<inbox, plain, reader, got>>

linen_tls_write_nb(w) == ~blocking /\ Write(w, {"ok", "want", "error"})
linen_tls_write(w) == blocking /\ Write(w, {"ok", "error"})

(* writeWithin: the same write again, or an exception once the time is up.  *)
pollForWrite(w) ==
  /\ writer[w] = "wait"
  /\ writer' = [writer EXCEPT ![w] = "call"] \/ writer' = [writer EXCEPT ![w] = "failed"]
  /\ touched' = {}
  /\ UNCHANGED <<use, context, alpn, ssl, failed, held, socket, coming, lib, reader, got>>

(* linen_tls_get_version, linen_tls_get_alpn *)
linen_tls_get_alpn ==
  Call /\ UNCHANGED <<lib, failed, reader, writer, got>>

-----------------------------------------------------------------------------
(* linen_tls_close: close_notify unless the session failed or never was     *)
(* established; the socket takes it or not, and not behind a record.        *)
SSL_shutdown ==
  \/ pending = <<>> /\ wire' = wire \o close_notify
  \/ UNCHANGED wire

\* Bug: the flag of a session that failed is not looked at.
closeRegardless ==
  /\ ssl # "none" /\ held /\ ~locked
  /\ touched' = reach
  /\ IF ssl = "established" THEN SSL_shutdown ELSE UNCHANGED wire
  /\ ssl' = "null"
  /\ UNCHANGED <<use, context, alpn, failed, fatal, held, socket, coming, inbox, plain,
                 pending, reader, writer, got>>

linen_tls_close ==
  /\ ssl # "none" /\ held /\ ~locked
  /\ touched' = reach
  /\ IF ssl = "established" /\ ~failed THEN SSL_shutdown ELSE UNCHANGED wire
  /\ ssl' = "null"
  /\ UNCHANGED <<use, context, alpn, failed, fatal, held, socket, coming, inbox, plain,
                 pending, reader, writer, got>>

(* The socket is closed after the session, or with a handshake that failed. *)
CloseSocket ==
  /\ ssl = "null" \/ (ssl = "handshake" /\ failed)
  /\ socket = "ours" /\ socket' = "closed" /\ touched' = {}
  /\ UNCHANGED <<use, context, alpn, ssl, failed, held, coming, lib, reader, writer, got>>

(* The last reference is dropped, so no call is under way: the SSL is freed *)
(* without a word to the peer. *)
linen_ssl_finalizer ==
  /\ held /\ reader \in {"idle", "over"} /\ ~busy
  /\ held' = FALSE /\ ssl' = "null" /\ touched' = reach
  /\ UNCHANGED <<use, context, alpn, failed, socket, coming, lib, reader, writer, got>>

Arrive ==
  /\ coming # <<>> /\ Len(wire) >= Awaited
  /\ inbox' = Append(inbox, Head(coming)) /\ coming' = Tail(coming)
  /\ touched' = {}
  /\ UNCHANGED <<use, context, alpn, ssl, failed, held, socket, fatal, plain, pending, wire,
                 reader, writer, got>>

Next ==
  \/ linen_tls_ctx_create \/ linen_tls_client_ctx_create
  \/ linen_tls_client_ctx_create_with_ca \/ linen_tls_set_alpn_protocols
  \/ linen_ssl_ctx_finalizer \/ linen_tls_new_session \/ linen_tls_handshake_nb
  \/ linen_tls_read_nb \/ pollForRead \/ linen_tls_read \/ linen_tls_read_return
  \/ \E w \in Writer :
       Turn(w) \/ linen_tls_write_nb(w) \/ linen_tls_write(w) \/ pollForWrite(w)
  \/ linen_tls_get_alpn \/ linen_tls_close \/ CloseSocket
  \/ linen_ssl_finalizer \/ Arrive

(* Threads that can go on do, and so does the peer; nobody need close.      *)
Fairness ==
  /\ WF_vars(linen_tls_read_nb) /\ WF_vars(pollForRead)
  /\ WF_vars(linen_tls_read) /\ WF_vars(linen_tls_read_return) /\ WF_vars(Arrive)
  /\ \A w \in Writer :
       WF_vars(linen_tls_write_nb(w) \/ linen_tls_write(w)) /\ WF_vars(pollForWrite(w))

Spec == Init /\ [][Next]_vars /\ Fairness

-----------------------------------------------------------------------------
live ==
  (IF context = "held" THEN {"context"} ELSE {})
    \cup (IF ssl \in {"handshake", "established"} THEN {"ssl"} ELSE {})
gone ==
  (IF context = "gone" THEN {"context"} ELSE {}) \cup (IF ssl = "null" THEN {"ssl"} ELSE {})

Contract == INSTANCE ForeignResource WITH Resource <- {"context", "ssl"}

(* Neither a freed SSL nor a freed context is reached, whichever thread     *)
(* closes while others wait between two calls. *)
KeepsContract == Contract!Spec /\ [][Contract!Call]_vars

(* A write that returned put its own bytes on the wire, whole and in one    *)
(* piece, and no byte is sent twice. *)
OwnBytes ==
  /\ \A w \in Writer : writer[w] = "done" =>
       \E i \in 0..Len(wire) - Len(Message[w]) : SubSeq(wire, i + 1, i + Len(Message[w])) = Message[w]
  /\ IsInjective(wire)

(* OpenSSL may hold decrypted bytes, of which the socket knows nothing: a   *)
(* reader waits for the socket only when there are none. *)
NoWaitOnDecrypted == reader = "wantRead" => plain = <<>>

(* close_notify is sent only over a session that never failed and whose     *)
(* socket is still its own. *)
OrderlyShutdown ==
  [][wire' # wire /\ ssl' = "null" => socket = "ours" /\ ~fatal /\ ssl = "established"]_vars

(* A thread with something to write gets the session, whatever the peer     *)
(* waits for. *)
WritersGetTheLock == \A w \in Writer : writer[w] = "call" ~> writer[w] # "call"

(* TLS/Green.lean: a write that would block is retried with the same bytes, *)
(* and nothing else writes in between. *)
NothingWritesBetween ==
  \A w \in Writer : writer[w] = "call" /\ pending # <<>> => pending = Message[w]
=============================================================================
