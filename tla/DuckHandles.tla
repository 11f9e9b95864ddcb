---------------------------- MODULE DuckHandles -----------------------------
(* src/ffi/duckdb_shim.c: databases, connections, statements, appenders,    *)
(* results, data chunks, and the vectors of a chunk, which own nothing.     *)
(* Many calls are declared in Lean as taking their handle and in C as       *)
(* borrowing it: the reference that Lean gave away is never released, and   *)
(* the finalizer of that wrapper never runs.  The program uses a vector     *)
(* only while it holds the chunk, as Vector.lean asks.                      *)
EXTENDS Integers, FiniteSets

CONSTANTS Database, Connection, Statement, Appender, Result, Chunk, Vector, None,
          MaxMade   \* how many handles a behaviour makes

(* A vector is no handle of another class. *)
DuckHandlesAssumption ==
  /\ None \notin Chunk
  /\ Vector \cap (Database \cup Connection \cup Statement \cup Appender \cup Result \cup Chunk) = {}

VARIABLES native,   \* what DuckDB has: "none", "open" or "gone"
          ptr,      \* the wrapper's pointer is not NULL
          held,     \* the program holds the wrapper
          lost,     \* a reference to the wrapper is never released
          chunkOf,  \* the chunk that a vector is part of; None if on its own
          touched   \* what the last call handed to DuckDB

vars == <<native, ptr, held, lost, chunkOf, touched>>

Owner == Database \cup Connection \cup Statement \cup Appender \cup Result \cup Chunk
Handle == Owner \cup Vector

TypeOK ==
  /\ native \in [Handle -> {"none", "open", "gone"}]
  /\ ptr \in [Handle -> BOOLEAN] /\ held \in [Handle -> BOOLEAN]
  /\ lost \subseteq Handle
  /\ chunkOf \in [Vector -> Chunk \cup {None}]
  /\ touched \subseteq Handle

Init ==
  /\ native = [h \in Handle |-> "none"]
  /\ ptr = [h \in Handle |-> FALSE] /\ held = [h \in Handle |-> FALSE]
  /\ lost = {} /\ chunkOf = [v \in Vector |-> None] /\ touched = {}

live == {h \in Handle : native[h] = "open"}
gone == {h \in Handle : native[h] = "gone"}
reach(h) == IF ptr[h] THEN {h} ELSE {}

(* mk_duckdb_*: without memory for the wrapper the new thing is destroyed.  *)
Wrap(h) ==
  \/ /\ native' = [native EXCEPT ![h] = "open"]
     /\ ptr' = [ptr EXCEPT ![h] = TRUE] /\ held' = [held EXCEPT ![h] = TRUE]
  \/ native' = [native EXCEPT ![h] = "gone"] /\ UNCHANGED <<ptr, held>>

(* mk_duckdb_vector: a vector's wrapper owns nothing, so there it stays.    *)
WrapVector(v) ==
  /\ native' = [native EXCEPT ![v] = "open"]
  /\ \/ ptr' = [ptr EXCEPT ![v] = TRUE] /\ held' = [held EXCEPT ![v] = TRUE]
     \/ UNCHANGED <<ptr, held>>

(* A new h made from a parent; nothing is made from a NULL one. *)
MakeNew(parents, h) ==
  /\ native[h] = "none" /\ Cardinality(live \cup gone) < MaxMade
  /\ \A p \in parents : held[p] /\ ptr[p]
  /\ touched' = {h} \cup parents
  /\ UNCHANGED <<lost, chunkOf>>

Make(parents, h) == MakeNew(parents, h) /\ Wrap(h)

linen_duckdb_open(d) == Make({}, d)
linen_duckdb_connect(d, c) == Make({d}, c)
linen_duckdb_prepare(c, s) == Make({c}, s)
linen_duckdb_appender_create(c, a) == Make({c}, a)
linen_duckdb_query(c, r) == Make({c}, r)
linen_duckdb_execute_prepared(s, r) == Make({s}, r)
linen_duckdb_fetch_chunk(r, k) == Make({r}, k)
linen_duckdb_create_data_chunk(k) == Make({}, k)

(* A call that borrows its handle, as Lean says. *)
Ask(h) ==
  /\ held[h]
  /\ touched' = reach(h)
  /\ UNCHANGED <<native, ptr, held, lost, chunkOf>>

bind(s) == Ask(s)
append(a) == Ask(a)
StatementInfo(s) == Ask(s)
ResultInfo(r) == Ask(r)

(* One that Lean thinks takes it, whether or not the program goes on with a *)
(* reference of its own. *)
Lose(h) == lost' = lost \cup {h} /\ \E kept \in BOOLEAN : held' = [held EXCEPT ![h] = kept]

AskAndLose(h) ==
  /\ held[h]
  /\ touched' = reach(h)
  /\ Lose(h)
  /\ UNCHANGED <<native, ptr, chunkOf>>

linen_duckdb_interrupt(c) == AskAndLose(c)
linen_duckdb_appender_flush(a) == AskAndLose(a)
linen_duckdb_data_chunk_get_size(k) == AskAndLose(k)

Release(h) ==
  /\ touched' = reach(h)
  /\ native' = IF ptr[h] THEN [native EXCEPT ![h] = "gone"] ELSE native
  /\ ptr' = [ptr EXCEPT ![h] = FALSE]

(* close, disconnect and the destroy of each kind release what the wrapper  *)
(* has, once. *)
Destroy(h) ==
  /\ held[h]
  /\ Release(h) /\ Lose(h)
  /\ UNCHANGED chunkOf

linen_duckdb_close(d) == Destroy(d)
linen_duckdb_disconnect(c) == Destroy(c)
linen_duckdb_destroy_prepare(s) == Destroy(s)
linen_duckdb_appender_destroy(a) == Destroy(a)
linen_duckdb_destroy_result(r) == Destroy(r)
linen_duckdb_destroy_data_chunk(k) == Destroy(k)

(* The program drops the handle; the finalizer of its kind releases what    *)
(* the wrapper has, if no reference was lost. *)
Drop(h) ==
  /\ held[h] /\ held' = [held EXCEPT ![h] = FALSE]
  /\ IF h \in lost THEN touched' = {} /\ UNCHANGED <<native, ptr>> ELSE Release(h)
  /\ UNCHANGED <<lost, chunkOf>>

-----------------------------------------------------------------------------
(* A vector of a chunk is a pointer into it. *)
linen_duckdb_data_chunk_get_vector(k, v) ==
  /\ held[k] /\ ptr[k] /\ native[v] = "none" /\ ~held[v]
  /\ held' = [held EXCEPT ![v] = TRUE]
  /\ chunkOf' = [chunkOf EXCEPT ![v] = k] /\ touched' = {k}
  /\ UNCHANGED <<native, ptr, lost>>

(* One that the program creates lives until the program destroys it, and    *)
(* has no finalizer. *)
linen_duckdb_create_vector(v) ==
  /\ ~held[v] /\ chunkOf[v] = None
  /\ MakeNew({}, v) /\ WrapVector(v)

linen_duckdb_destroy_vector(v) == chunkOf[v] = None /\ Destroy(v)

UseVector(v) ==
  /\ held[v]
  /\ \A k \in {chunkOf[v]} \ {None} : held[k] /\ ptr[k]
  /\ touched' = IF chunkOf[v] = None THEN reach(v) ELSE {chunkOf[v]}
  /\ UNCHANGED <<native, ptr, held, lost, chunkOf>>

DropVector(v) ==
  /\ held[v] /\ held' = [held EXCEPT ![v] = FALSE]
  /\ chunkOf' = [chunkOf EXCEPT ![v] = None] /\ touched' = {}
  /\ UNCHANGED <<native, ptr, lost>>

Next ==
  \/ \E d \in Database :
       \/ linen_duckdb_open(d) \/ linen_duckdb_close(d)
       \/ \E c \in Connection : linen_duckdb_connect(d, c)
  \/ \E c \in Connection :
       \/ linen_duckdb_interrupt(c) \/ linen_duckdb_disconnect(c) \/ Ask(c)
       \/ \E s \in Statement : linen_duckdb_prepare(c, s)
       \/ \E a \in Appender : linen_duckdb_appender_create(c, a)
       \/ \E r \in Result : linen_duckdb_query(c, r)
  \/ \E s \in Statement :
       \/ bind(s) \/ StatementInfo(s) \/ linen_duckdb_destroy_prepare(s)
       \/ \E r \in Result : linen_duckdb_execute_prepared(s, r)
  \/ \E a \in Appender :
       append(a) \/ linen_duckdb_appender_flush(a) \/ linen_duckdb_appender_destroy(a)
  \/ \E r \in Result :
       \/ ResultInfo(r) \/ linen_duckdb_destroy_result(r)
       \/ \E k \in Chunk : linen_duckdb_fetch_chunk(r, k)
  \/ \E k \in Chunk :
       \/ linen_duckdb_create_data_chunk(k) \/ linen_duckdb_data_chunk_get_size(k)
       \/ linen_duckdb_destroy_data_chunk(k)
       \/ \E v \in Vector : linen_duckdb_data_chunk_get_vector(k, v)
  \/ \E v \in Vector :
       \/ linen_duckdb_create_vector(v) \/ linen_duckdb_destroy_vector(v)
       \/ UseVector(v) \/ DropVector(v)
  \/ \E h \in Owner : Drop(h)

Spec == Init /\ [][Next]_vars

-----------------------------------------------------------------------------
Contract == INSTANCE ForeignResource WITH Resource <- Handle

(* DuckDB is never handed what was destroyed, in whatever order handles are *)
(* destroyed and dropped. *)
KeepsContract == Contract!Spec /\ [][Contract!Call]_vars

(* What DuckDB has open is the pointer of a wrapper, and the program holds  *)
(* the wrapper unless a call lost a reference to it: nothing is out of      *)
(* reach but what the program let go of, without destroying it, after such  *)
(* a call.  (A vector of its own has no finalizer and may be forgotten.)    *)
NothingStranded == \A h \in live \cap Owner : ptr[h] /\ (h \notin lost => held[h])
=============================================================================
