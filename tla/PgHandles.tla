----------------------------- MODULE PgHandles -----------------------------
(* src/ffi/postgres.c: connections and results of libpq.  A call that waits *)
(* for the server is two steps, so that other calls, drops and the garbage  *)
(* collector come between them.  A connection has one user at a time, as    *)
(* the pool gives it out (SqlPool!OnePlaceEach): while a call waits on it,  *)
(* no other call is made on it; the reference of the call keeps it.  A      *)
(* result lives on without its connection.                                  *)
EXTENDS FiniteSets

CONSTANTS Conn, Res

(* A wrapper is of one class. *)
PgHandlesAssumption == Conn \cap Res = {}

VARIABLES native,   \* what libpq has: "none", "open" or "gone"
          ptr,      \* the wrapper's pointer is not NULL
          held,     \* the program holds the wrapper
          waiting,  \* connections with a call under way
          values,   \* calls whose paramValues array is allocated
          touched   \* what the last call handed to libpq

vars == <<native, ptr, held, waiting, values, touched>>

Handle == Conn \cup Res

TypeOK ==
  /\ native \in [Handle -> {"none", "open", "gone"}]
  /\ ptr \in [Handle -> BOOLEAN] /\ held \in [Handle -> BOOLEAN]
  /\ waiting \subseteq Conn /\ values \subseteq Conn /\ touched \subseteq Handle

Init ==
  /\ native = [h \in Handle |-> "none"]
  /\ ptr = [h \in Handle |-> FALSE] /\ held = [h \in Handle |-> FALSE]
  /\ waiting = {} /\ values = {} /\ touched = {}

live == {h \in Handle : native[h] = "open"}
gone == {h \in Handle : native[h] = "gone"}

reach(h) == IF ptr[h] THEN {h} ELSE {}
MayCall(c) == held[c] /\ c \notin waiting

(* mk_pg_conn and mk_pg_result: without memory for the wrapper, what was to *)
(* be wrapped is released. *)
Wrap(h) ==
  \/ /\ native' = [native EXCEPT ![h] = "open"]
     /\ ptr' = [ptr EXCEPT ![h] = TRUE] /\ held' = [held EXCEPT ![h] = TRUE]
  \/ native' = [native EXCEPT ![h] = "gone"] /\ UNCHANGED <<ptr, held>>

(* Bug: the pointer is not set to NULL. *)
ReleaseKeepsPointer(h) ==
  /\ touched' = reach(h)
  /\ native' = IF ptr[h] THEN [native EXCEPT ![h] = "gone"] ELSE native
  /\ UNCHANGED ptr

(* PQfinish or PQclear, when the pointer is set; it is NULL afterwards. *)
Release(h) ==
  /\ touched' = reach(h)
  /\ native' = IF ptr[h] THEN [native EXCEPT ![h] = "gone"] ELSE native
  /\ ptr' = [ptr EXCEPT ![h] = FALSE]

(* linen_pg_connect: a connection that failed is wrapped too, for its       *)
(* status and message to be read. *)
Connect(c) ==
  /\ native[c] = "none"
  /\ Wrap(c) /\ touched' = {c}
  /\ UNCHANGED <<waiting, values>>

(* linen_pg_connect_start: one that is bad from the start is not. *)
ConnectStart(c) ==
  /\ native[c] = "none"
  /\ \/ Wrap(c)
     \/ native' = [native EXCEPT ![c] = "gone"] /\ UNCHANGED <<ptr, held>>
  /\ touched' = {c}
  /\ UNCHANGED <<waiting, values>>

(* linen_pg_close *)
Close(c) ==
  /\ MayCall(c)
  /\ Release(c)
  /\ UNCHANGED <<held, waiting, values>>

(* linen_pg_clear consumes the reference it is given; Lean has no binding   *)
(* of it yet. *)
Clear(r) ==
  /\ held[r]
  /\ Release(r)
  /\ \E kept \in BOOLEAN : held' = [held EXCEPT ![r] = kept]
  /\ UNCHANGED <<waiting, values>>

(* linen_pg_conn_finalizer, linen_pg_result_finalizer: the program drops    *)
(* the last reference. *)
Drop(h) ==
  /\ held[h] /\ h \notin waiting
  /\ held' = [held EXCEPT ![h] = FALSE]
  /\ Release(h)
  /\ UNCHANGED <<waiting, values>>

(* Calls that libpq answers for a NULL connection too: status, message,     *)
(* transaction, server and host information, the polls. *)
AskConnection(c) ==
  /\ MayCall(c)
  /\ touched' = reach(c)
  /\ UNCHANGED <<native, ptr, held, waiting, values>>

Inform(c) == AskConnection(c)
ConnectPoll(c) == AskConnection(c)
Nonblocking(c) == AskConnection(c)

(* Calls the shim refuses on a closed connection.  What libpq allocates for *)
(* the answer is freed before they return. *)
Escape(c) == AskConnection(c)
ConsumeInput(c) == AskConnection(c)
Notifies(c) == AskConnection(c)
PutCopy(c) == AskConnection(c)

(* The calls that wait for the server. *)
Begin(c, withValues) ==
  /\ MayCall(c)
  /\ touched' = reach(c)
  /\ \/ ptr[c] /\ waiting' = waiting \cup {c}
        /\ values' = IF withValues THEN values \cup {c} ELSE values
     \/ (ptr[c] => withValues) /\ UNCHANGED <<waiting, values>>
  /\ UNCHANGED <<native, ptr, held>>

Exec(c) == Begin(c, FALSE)
Prepare(c) == Begin(c, FALSE)

(* linen_pg_exec_params, linen_pg_exec_prepared: build_param_values may     *)
(* find no memory, and then nothing was sent. *)
ExecParams(c) == Begin(c, TRUE)
ExecPrepared(c) == Begin(c, TRUE)

(* linen_pg_reset returns no result, whether it reconnected or not. *)
Reset(c) == Begin(c, FALSE)

(* The call returns: the array is freed, whatever came of it; there is a    *)
(* result, or the connection's message becomes the error. *)
Return(c) ==
  /\ c \in waiting
  /\ waiting' = waiting \ {c} /\ values' = values \ {c}
  /\ \/ touched' = {c} /\ UNCHANGED <<native, ptr, held>>
     \/ \E r \in Res : native[r] = "none" /\ Wrap(r) /\ touched' = {c, r}

(* The accessors of a result copy what they return; libpq answers for NULL. *)
AskResult(r) ==
  /\ held[r]
  /\ touched' = reach(r)
  /\ UNCHANGED <<native, ptr, held, waiting, values>>

GetValue(r) == AskResult(r)

Next ==
  \/ \E c \in Conn :
       \/ Connect(c) \/ ConnectStart(c) \/ Close(c)
       \/ AskConnection(c) \/ Inform(c) \/ ConnectPoll(c) \/ Nonblocking(c)
       \/ Escape(c) \/ ConsumeInput(c) \/ Notifies(c) \/ PutCopy(c)
       \/ Exec(c) \/ Prepare(c) \/ ExecParams(c) \/ ExecPrepared(c) \/ Reset(c)
       \/ Return(c)
  \/ \E r \in Res : Clear(r) \/ AskResult(r) \/ GetValue(r)
  \/ \E h \in Handle : Drop(h)

Spec == Init /\ [][Next]_vars

-----------------------------------------------------------------------------
Contract == INSTANCE ForeignResource WITH Resource <- Handle

(* libpq is never handed a connection or a result that was finished or      *)
(* cleared, in whatever order they are closed, cleared and dropped while    *)
(* calls wait for the server. *)
KeepsContract == Contract!Spec /\ [][Contract!Call]_vars

(* What libpq has open is the pointer of a wrapper that the program, or the *)
(* call under way, still holds; an array of parameters belongs to a call    *)
(* under way. *)
NothingStranded ==
  /\ \A h \in live : ptr[h] /\ held[h]
  /\ waiting \subseteq live
  /\ values \subseteq waiting
=============================================================================
