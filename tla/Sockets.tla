------------------------------ MODULE Sockets ------------------------------
(* The sockets and event loops of src/ffi/network.c under the types that    *)
(* Linen/Network/Socket.lean gives them.  A wrapper keeps a descriptor      *)
(* number; the kernel reuses numbers, the lowest free one first.  A wrapper *)
(* is named by the file it opened.                                          *)
(*                                                                          *)
(* The state in a socket's type moves with each call, as when a program     *)
(* goes on with what the call returned.  A socket is closed by whoever uses *)
(* it, not under a call of another thread.                                  *)
EXTENDS Integers, FiniteSetsExt

CONSTANTS File, Loop, None,
          Numbers,      \* descriptor numbers: the limit set_fd_limit sets
          CloseFails,   \* close(2) may fail, and frees the number all the same
          Deadlines     \* time limits of Blocking.waitReady, 0 among them for none

VARIABLES table,    \* the kernel's descriptor table
          kernel,   \* the state of each file
          ready,    \* files a select would report now
          number,   \* what each wrapper keeps; -1 when closed
          held,     \* the program holds the wrapper
          type,     \* its state in the program's types
          sending,  \* sockets in a sendall, which keeps the number it read
          waited,   \* outcome of the last waitReady
          touched   \* files the last call reached

vars == <<table, kernel, ready, number, held, type, sending, waited, touched>>

Wrapper == File \cup Loop
SocketState == {"fresh", "bound", "listening", "connecting", "connected", "closed"}

TypeOK ==
  /\ table \in [Numbers -> Wrapper \cup {None}]
  /\ kernel \in [Wrapper -> SocketState \cup {"none", "failed", "polling"}]
  /\ ready \subseteq File /\ held \subseteq Wrapper
  /\ number \in [Wrapper -> Numbers \cup {-1}]
  /\ type \in [Wrapper -> SocketState \cup {"none", "loop"}]
  /\ sending \subseteq File \X Numbers
  /\ waited \in {"nothing", "ready", "unready"}
  /\ touched \subseteq Wrapper

Init ==
  /\ table = [k \in Numbers |-> None]
  /\ kernel = [w \in Wrapper |-> "none"] /\ ready = {}
  /\ number = [w \in Wrapper |-> -1] /\ held = {}
  /\ type = [w \in Wrapper |-> "none"]
  /\ sending = {} /\ waited = "nothing" /\ touched = {}

live == {w \in Wrapper : \E k \in Numbers : table[k] = w}
gone == {w \in Wrapper : kernel[w] = "closed"}

(* The file behind a number: none for -1 (EBADF). *)
at(k) == IF k \in Numbers THEN {table[k]} \ {None} ELSE {}
reach(w) == at(number[w])
free == {k \in Numbers : table[k] = None}

-----------------------------------------------------------------------------
(* The network: readiness comes and goes, a connection is made or refused.  *)
World ==
  \/ \E f \in live \cap File :
       /\ ready' = IF f \in ready THEN ready \ {f} ELSE ready \cup {f}
       /\ kernel[f] \notin {"connecting", "failed"}
       /\ UNCHANGED kernel
  \/ \E f \in File, s \in {"connected", "failed"} :
       /\ kernel[f] = "connecting"
       /\ kernel' = [kernel EXCEPT ![f] = s]
       /\ ready' = ready \cup {f}
  /\ touched' = {}
  /\ UNCHANGED <<table, number, held, type, sending, waited>>

(* A new file and its wrapper; when numbers run out the call fails (EMFILE). *)
New(w, state, s) ==
  /\ kernel[w] = "none" /\ free # {}
  /\ table' = [table EXCEPT ![Min(free)] = w]
  /\ number' = [number EXCEPT ![w] = Min(free)]
  /\ kernel' = [kernel EXCEPT ![w] = state]
  /\ held' = held \cup {w} /\ type' = [type EXCEPT ![w] = s]
  /\ UNCHANGED <<ready, sending, waited>>

linen_socket_create(f) == New(f, "fresh", "fresh") /\ touched' = {f}
linen_event_loop_create(l) == New(l, "polling", "loop") /\ touched' = {l}

(* A call on a socket of type s.  What it does to the file, it does to the  *)
(* file behind the number. *)
Call(f, s) ==
  /\ f \in held /\ type[f] = s
  /\ touched' = reach(f)
  /\ UNCHANGED <<table, number, held>>

Becomes(f, s) ==
  /\ kernel' = [x \in Wrapper |-> IF x \in reach(f) THEN s ELSE kernel[x]]
  /\ type' = [type EXCEPT ![f] = s]

Keeps == UNCHANGED <<kernel, type>>

linen_socket_bind(f) ==
  /\ Call(f, "fresh") /\ (Becomes(f, "bound") \/ Keeps)
  /\ UNCHANGED <<ready, sending, waited>>

linen_socket_listen(f) ==
  /\ Call(f, "bound") /\ (Becomes(f, "listening") \/ Keeps)
  /\ UNCHANGED <<ready, sending, waited>>

(* accept: a connection of its own. *)
linen_socket_accept(f, g) ==
  /\ f \in held /\ type[f] = "listening"
  /\ New(g, "connected", "connected")
  /\ touched' = reach(f) \cup {g}

(* It would block, or fails. *)
linen_socket_accept_nb(f) ==
  Call(f, "listening") /\ Keeps /\ UNCHANGED <<ready, sending, waited>>

linen_socket_connect(f) ==
  /\ Call(f, "fresh") /\ (Becomes(f, "connected") \/ Keeps)
  /\ UNCHANGED <<ready, sending, waited>>

(* It is connected at once, under way, or refused. *)
linen_socket_connect_nb(f) ==
  /\ Call(f, "fresh")
  /\ Becomes(f, "connected") \/ Becomes(f, "connecting") \/ Keeps
  /\ ready' = ready \ reach(f)
  /\ UNCHANGED <<sending, waited>>

(* SO_ERROR is 0 while the connection is under way as well as when it is    *)
(* made. *)
SO_ERROR(f) == \E x \in reach(f) : kernel[x] = "failed"

linen_socket_connect_finish(f) ==
  /\ type' = [type EXCEPT ![f] = IF SO_ERROR(f) THEN "none" ELSE "connected"]
  /\ UNCHANGED kernel

(* linen_socket_poll: select, whose answer is that of the moment. *)
linen_socket_poll(f) == IF reach(f) \subseteq ready THEN "ready" ELSE "timeout"

(* Blocking.connectFinishLoop asks when select has reported the socket; a   *)
(* refused one is given up, and is good for closing only. *)
connectFinishLoop(f) ==
  /\ Call(f, "connecting") /\ linen_socket_poll(f) = "ready"
  /\ linen_socket_connect_finish(f)
  /\ UNCHANGED <<ready, sending, waited>>

(* Blocking.waitReady: without a limit it asks with a timeout of 0, which   *)
(* select takes for no wait at all, and goes on whatever the answer. *)
waitReady(f, timeoutMillis) ==
  /\ type[f] \in {"listening", "connected"} /\ Call(f, type[f])
  /\ IF timeoutMillis = 0
     THEN waited' = IF linen_socket_poll(f) = "ready" THEN "ready" ELSE "unready"
     ELSE waited' = "ready" /\ linen_socket_poll(f) = "ready"
  /\ Keeps /\ UNCHANGED <<ready, sending>>

(* Sends and receives, and their non-blocking forms; the options and        *)
(* addresses of a socket in any state. *)
Transfer(f) ==
  /\ Call(f, "connected") /\ Keeps /\ UNCHANGED <<ready, sending, waited>>

linen_socket_send_nb(f) == Transfer(f)
linen_socket_recv_nb(f) == Transfer(f)
linen_socket_peek_nb(f) == Transfer(f)
linen_socket_shutdown(f) == Transfer(f)

Option(f) ==
  /\ type[f] # "closed" /\ Call(f, type[f]) /\ Keeps
  /\ UNCHANGED <<ready, sending, waited>>

Address(f) == Option(f)

(* linen_socket_sendall: the number is read once, before the loop. *)
linen_socket_sendall(f) ==
  /\ Call(f, "connected") /\ Keeps
  /\ number[f] # -1 /\ \A s \in sending : s[1] # f
  /\ sending' = sending \cup {<<f, number[f]>>}
  /\ UNCHANGED <<ready, waited>>

SendMore ==
  /\ \E s \in sending : /\ touched' = at(s[2])
                        /\ sending' \in {sending, sending \ {s}}
  /\ UNCHANGED <<table, kernel, ready, number, held, type, waited>>

-----------------------------------------------------------------------------
(* close(2) *)
Release(w, keep) ==
  /\ touched' = reach(w)
  /\ table' = [k \in Numbers |-> IF k = number[w] THEN None ELSE table[k]]
  /\ kernel' = [x \in Wrapper |-> IF x \in reach(w) THEN "closed" ELSE kernel[x]]
  /\ ready' = ready \ reach(w)
  /\ number' = IF keep THEN number ELSE [number EXCEPT ![w] = -1]
  /\ UNCHANGED <<sending, waited>>

(* Bug: the number is not forgotten. *)
CloseKeepsNumber(w) ==
  /\ w \in held /\ \A s \in sending : s[1] # w
  /\ Release(w, TRUE)
  /\ type' = [type EXCEPT ![w] = "closed"]
  /\ UNCHANGED held

(* linen_socket_close, linen_event_loop_close: the number is forgotten      *)
(* unless close(2) failed.  The wrapper may be closed again. *)
Close(w) ==
  /\ w \in held /\ \A s \in sending : s[1] # w
  /\ \E fails \in {FALSE, CloseFails /\ number[w] # -1} :
       /\ Release(w, fails)
       /\ type' = IF fails THEN type ELSE [type EXCEPT ![w] = "closed"]
  /\ UNCHANGED held

linen_socket_close(f) == Close(f)
linen_event_loop_close(l) == Close(l)

(* The finalizers: the last reference is dropped. *)
Finalize(w) ==
  /\ w \in held /\ \A s \in sending : s[1] # w
  /\ held' = held \ {w} /\ Release(w, FALSE)
  /\ UNCHANGED type

linen_socket_finalizer(f) == Finalize(f)
linen_event_loop_finalizer(l) == Finalize(l)

(* linen_event_loop_add and del reach the loop and the socket, wait the     *)
(* loop alone. *)
LoopCall(l, f) ==
  /\ l \in held /\ f \in held
  /\ touched' = reach(l) \cup reach(f)
  /\ UNCHANGED <<table, kernel, ready, number, held, type, sending, waited>>

linen_event_loop_add(l, f) == LoopCall(l, f)
linen_event_loop_del(l, f) == LoopCall(l, f)
linen_event_loop_wait(l) == LoopCall(l, l)

Next ==
  \/ World \/ SendMore
  \/ \E f \in File :
       \/ linen_socket_create(f) \/ linen_socket_bind(f) \/ linen_socket_listen(f)
       \/ linen_socket_accept_nb(f) \/ \E g \in File : linen_socket_accept(f, g)
       \/ linen_socket_connect(f) \/ linen_socket_connect_nb(f) \/ connectFinishLoop(f)
       \/ \E t \in Deadlines : waitReady(f, t)
       \/ Transfer(f) \/ linen_socket_send_nb(f) \/ linen_socket_recv_nb(f)
       \/ linen_socket_peek_nb(f) \/ linen_socket_shutdown(f)
       \/ Option(f) \/ Address(f) \/ linen_socket_sendall(f)
       \/ linen_socket_close(f) \/ linen_socket_finalizer(f)
  \/ \E l \in Loop :
       \/ linen_event_loop_create(l) \/ linen_event_loop_wait(l)
       \/ linen_event_loop_close(l) \/ linen_event_loop_finalizer(l)
       \/ \E f \in File : linen_event_loop_add(l, f) \/ linen_event_loop_del(l, f)

Spec == Init /\ [][Next]_vars

-----------------------------------------------------------------------------
Contract == INSTANCE ForeignResource WITH Resource <- Wrapper

(* No closed file is reached, and none is closed twice. *)
KeepsContract == Contract!Spec /\ [][Contract!Call]_vars

(* A number that a wrapper keeps, or a send under way goes on with, is that *)
(* of the file it opened: no call, close or finalizer reaches a file that   *)
(* was given the number later.  And no file stays open without a wrapper.   *)
OwnFile ==
  /\ \A w \in held : number[w] # -1 => reach(w) = {w}
  /\ \A s \in sending : at(s[2]) = {s[1]}
  /\ live \subseteq held

(* The state in a socket's type is the state the kernel has it in: one that *)
(* is typed connected is not still connecting, nor was it refused.          *)
TypeIsTrue ==
  \A f \in held \cap File : number[f] # -1 =>
    \/ type[f] = kernel[f]
    \/ type[f] = "connecting" /\ kernel[f] \in {"connected", "failed"}
    \/ type[f] = "none" /\ kernel[f] = "failed"

(* Blocking.waitReady says that without a limit it still polls rather than  *)
(* spins: when it returns, the socket is ready. *)
WaitsUntilReady == waited # "unready"
=============================================================================
