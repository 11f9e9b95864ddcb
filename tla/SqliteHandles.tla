--------------------------- MODULE SqliteHandles ---------------------------
(* src/ffi/sqlite3_shim.c: one connection, its statements, and the Lean     *)
(* closures registered with it as SQL functions.  The program's garbage     *)
(* collector is an actor: whatever the program holds it may drop.           *)
(*                                                                          *)
(* A closed connection is a zombie until its last statement is finalized    *)
(* (sqlite3_close_v2); SQLite destroys the functions of a connection with   *)
(* it.  Handles are used after close and finalize, as Lean does not stop a  *)
(* program from doing, except by the calls that dereference the pointer     *)
(* without looking at it: these are guarded by ptr.                         *)
EXTENDS Integers, FiniteSets

CONSTANTS Stmt, Closure, Name, Db, None

SqliteHandlesAssumption == Db \notin Stmt /\ None \notin Closure /\ IsFiniteSet(Name)

VARIABLES native,      \* what SQLite has: "none", "open", "zombie" or "gone"
          ptr,         \* the wrapper's pointer is not NULL
          held,        \* the program holds the wrapper
          lost,        \* a reference to the wrapper that nobody will drop
          active,      \* statements stepped and not yet done or reset
          registered,  \* the closure behind each SQL function
          count,       \* reference count of each closure
          mine,        \* references to it that are the program's
          refused,     \* closures SQLite refused to register
          starved,     \* closures whose call found no memory for its handles
          frame,       \* the callback under way, if any
          touched      \* what the last call handed to SQLite

handleVars == <<native, ptr, held, lost, active>>
closureVars == <<registered, count, mine, refused, starved>>
vars == <<handleVars, closureVars, frame, touched>>

Handle == Stmt \cup {Db}
NoFunction == [n \in Name |-> None]

TypeOK ==
  /\ native \in [Handle -> {"none", "open", "zombie", "gone"}]
  /\ ptr \in [Handle -> BOOLEAN] /\ held \in [Handle -> BOOLEAN]
  /\ lost \in [Handle -> BOOLEAN] /\ active \subseteq Stmt
  /\ registered \in [Name -> Closure \cup {None}]
  /\ count \in [Closure -> Int] /\ mine \in [Closure -> {0, 1}]
  /\ refused \subseteq Closure /\ starved \subseteq Closure
  /\ frame \subseteq [stmt : Stmt, closure : Closure] /\ Cardinality(frame) <= 1
  /\ touched \subseteq Handle

Init ==
  /\ native = [h \in Handle |-> "none"]
  /\ ptr = [h \in Handle |-> FALSE] /\ held = [h \in Handle |-> FALSE]
  /\ lost = [h \in Handle |-> FALSE] /\ active = {}
  /\ registered = NoFunction
  /\ count = [c \in Closure |-> 1] /\ mine = [c \in Closure |-> 1]
  /\ refused = {} /\ starved = {} /\ frame = {} /\ touched = {}

-----------------------------------------------------------------------------
(* SQLite itself *)

live == {h \in Handle : native[h] \in {"open", "zombie"}}
gone == {h \in Handle : native[h] = "gone"}
openStatements(nat) == {s \in Stmt : nat[s] = "open"}
names(c) == {n \in Name : registered[n] = c}

(* sqlite3_close_v2 *)
sqlite3_close_v2(nat) ==
  [nat EXCEPT ![Db] = IF openStatements(nat) = {} THEN "gone" ELSE "zombie"]

(* sqlite3_finalize: the last statement of a zombie takes it along. *)
sqlite3_finalize(nat, s) ==
  LET left == [nat EXCEPT ![s] = "gone"]
  IN  IF left[Db] = "zombie" /\ openStatements(left) = {}
      THEN [left EXCEPT ![Db] = "gone"] ELSE left

(* linen_sqlite3_xdestroy_trampoline, for the functions in ns *)
xdestroy(ns, cnt) ==
  [c \in Closure |-> cnt[c] - Cardinality(names(c) \cap ns)]

(* A connection that goes destroys its functions. *)
Becomes(nat) ==
  /\ native' = nat
  /\ IF nat[Db] = "gone"
     THEN registered' = NoFunction /\ count' = xdestroy(Name, count)
     ELSE UNCHANGED <<registered, count>>
  /\ UNCHANGED <<mine, refused, starved>>

(* A statement inside its own callback belongs to the call that runs it. *)
Free(s) == \A f \in frame : f.stmt # s

(* What a call on a handle reaches: a statement works through its          *)
(* connection; a NULL pointer is reported as misuse and reaches nothing.   *)
reach(h) == IF ptr[h] THEN {h, Db} ELSE {}

-----------------------------------------------------------------------------
(* Bug: without memory for the wrapper the connection is left open. *)
OpenLeaks ==
  /\ native[Db] = "none"
  /\ touched' = {Db}
  /\ native' = [native EXCEPT ![Db] = "open"]
  /\ \E ok \in BOOLEAN :
       /\ ptr' = [ptr EXCEPT ![Db] = ok] /\ held' = [held EXCEPT ![Db] = ok]
  /\ UNCHANGED <<lost, active, closureVars, frame>>

(* linen_sqlite3_open: SQLite sets the handle even when the open fails, so  *)
(* it is wrapped; without memory for the wrapper it is closed at once.      *)
Open ==
  /\ native[Db] = "none"
  /\ touched' = {Db}
  /\ \/ /\ native' = [native EXCEPT ![Db] = "open"]
        /\ ptr' = [ptr EXCEPT ![Db] = TRUE]
        /\ held' = [held EXCEPT ![Db] = TRUE]
     \/ native' = [native EXCEPT ![Db] = "gone"] /\ UNCHANGED <<ptr, held>>
  /\ UNCHANGED <<lost, active, closureVars, frame>>

(* linen_sqlite3_close borrows what the program gives away: the reference   *)
(* of the call is never dropped.                                            *)
Close ==
  /\ held[Db]
  /\ touched' = reach(Db)
  /\ ptr' = [ptr EXCEPT ![Db] = FALSE]
  /\ lost' = [lost EXCEPT ![Db] = TRUE]
  /\ \E kept \in BOOLEAN : held' = [held EXCEPT ![Db] = kept]
  /\ IF ptr[Db] THEN Becomes(sqlite3_close_v2(native))
     ELSE UNCHANGED <<native, closureVars>>
  /\ UNCHANGED <<active, frame>>

(* errmsg, interrupt, autocommit *)
AskConnection ==
  /\ held[Db]
  /\ touched' = reach(Db)
  /\ UNCHANGED <<handleVars, closureVars, frame>>

(* linen_sqlite3_exec *)
Exec == AskConnection

(* last_insert_rowid, changes, total_changes *)
AskStatistics == AskConnection

(* linen_sqlite3_prepare: no statement on an error or on empty text. *)
Prepare(s) ==
  /\ held[Db] /\ native[s] = "none"
  /\ \/ touched' = reach(Db) /\ UNCHANGED handleVars
     \/ /\ ptr[Db]
        /\ touched' = {Db, s}
        /\ \/ /\ native' = [native EXCEPT ![s] = "open"]
              /\ ptr' = [ptr EXCEPT ![s] = TRUE]
              /\ held' = [held EXCEPT ![s] = TRUE]
           \/ native' = [native EXCEPT ![s] = "gone"] /\ UNCHANGED <<ptr, held>>
        /\ UNCHANGED <<lost, active>>
  /\ UNCHANGED <<closureVars, frame>>

(* linen_sqlite3_step: a row, or the end. *)
Step(s) ==
  /\ held[s] /\ Free(s)
  /\ touched' = reach(s)
  /\ active' \in IF ptr[s] THEN {active \cup {s}, active \ {s}} ELSE {active}
  /\ UNCHANGED <<native, ptr, held, lost, closureVars, frame>>

(* linen_sqlite3_reset *)
Reset(s) ==
  /\ held[s] /\ Free(s)
  /\ touched' = reach(s)
  /\ active' = IF ptr[s] THEN active \ {s} ELSE active
  /\ UNCHANGED <<native, ptr, held, lost, closureVars, frame>>

(* linen_sqlite3_finalize: as Close. *)
Finalize(s) ==
  /\ held[s] /\ Free(s)
  /\ touched' = reach(s)
  /\ ptr' = [ptr EXCEPT ![s] = FALSE]
  /\ lost' = [lost EXCEPT ![s] = TRUE]
  /\ \E kept \in BOOLEAN : held' = [held EXCEPT ![s] = kept]
  /\ active' = active \ {s}
  /\ IF ptr[s] THEN Becomes(sqlite3_finalize(native, s))
     ELSE UNCHANGED <<native, closureVars>>
  /\ UNCHANGED frame

(* Parameter and column information, and linen_sqlite3_clear_bindings,      *)
(* which does not survive a finalized statement. *)
AskStatement(s) ==
  /\ held[s] /\ Free(s)
  /\ touched' = reach(s)
  /\ UNCHANGED <<handleVars, closureVars, frame>>

ClearBindings(s) == ptr[s] /\ AskStatement(s)

(* The bind_* calls copy what they are given. *)
Bind(s) == AskStatement(s)

(* The column_* calls copy what they return. *)
Column(s) == AskStatement(s)

(* The program drops a handle.  A wrapper with no reference left is         *)
(* finalized: linen_sqlite3_db_finalizer, linen_sqlite3_stmt_finalizer.     *)
Drop(h) ==
  /\ held[h] /\ (h \in Stmt => Free(h))
  /\ held' = [held EXCEPT ![h] = FALSE]
  /\ IF ~lost[h] /\ ptr[h]
     THEN /\ touched' = {h, Db}
          /\ ptr' = [ptr EXCEPT ![h] = FALSE]
          /\ active' = active \ {h}
          /\ Becomes(IF h = Db THEN sqlite3_close_v2(native)
                     ELSE sqlite3_finalize(native, h))
     ELSE touched' = {} /\ UNCHANGED <<native, ptr, active, closureVars>>
  /\ UNCHANGED <<lost, frame>>

-----------------------------------------------------------------------------
(* SQL functions *)

plus(c, n) == [count EXCEPT ![c] = @ + n]

(* sqlite3_create_function_v2 does not touch a function that a statement    *)
(* under way may be using. *)
Busy(n) == registered[n] # None /\ active # {}

(* linen_sqlite3_create_function: the call owns a reference to the closure, *)
(* one more if the program keeps the closure, and takes one for SQLite.     *)
(* SQLite gives its reference back when it refuses, and so does the call.   *)
CreateFunction(c, n) ==
  /\ held[Db] /\ ptr[Db] /\ mine[c] = 1 /\ c \notin refused
  /\ \E kept \in {0, 1} :
       LET called == plus(c, kept + 1)
       IN /\ mine' = [mine EXCEPT ![c] = kept]
          /\ IF Busy(n)
             THEN /\ refused' = refused \cup {c}
                  /\ count' = [called EXCEPT ![c] = @ - 3]
                  /\ UNCHANGED registered
             ELSE /\ count' = [xdestroy({n}, called) EXCEPT ![c] = @ - 1]
                  /\ registered' = [registered EXCEPT ![n] = c]
                  /\ UNCHANGED refused
  /\ touched' = {Db}
  /\ UNCHANGED <<handleVars, starved, frame>>

(* linen_sqlite3_delete_function *)
DeleteFunction(n) ==
  /\ held[Db] /\ ptr[Db]
  /\ IF Busy(n) THEN UNCHANGED <<registered, count>>
     ELSE /\ count' = xdestroy({n}, count)
          /\ registered' = [registered EXCEPT ![n] = None]
  /\ touched' = {Db}
  /\ UNCHANGED <<handleVars, mine, refused, starved, frame>>

(* Bug: the closure is applied without being retained. *)
EnterCallbackBorrowing(s, n) ==
  /\ frame = {}
  /\ held[s] /\ ptr[s] /\ registered[n] # None
  /\ active' = active \cup {s}
  /\ frame' = {[stmt |-> s, closure |-> registered[n]]}
  /\ touched' = {s, Db}
  /\ UNCHANGED <<native, ptr, held, lost, closureVars>>

(* linen_sqlite3_xfunc_trampoline, entered from a step (one at a time):     *)
(* the closure is retained; without memory for the handles of the call the  *)
(* function returns NULL (once for each closure, to bound its count).       *)
EnterCallback(s, n) ==
  /\ frame = {}
  /\ held[s] /\ ptr[s] /\ registered[n] # None
  /\ count' = plus(registered[n], 1)
  /\ active' = active \cup {s}
  /\ \/ /\ frame' = {[stmt |-> s, closure |-> registered[n]]}
        /\ UNCHANGED starved
     \/ /\ registered[n] \notin starved
        /\ starved' = starved \cup {registered[n]}
        /\ UNCHANGED frame
  /\ touched' = {s, Db}
  /\ UNCHANGED <<native, ptr, held, lost, registered, mine, refused>>

(* func_arg_* and func_result_*, within the callback they belong to *)
FuncArg ==
  /\ \E f \in frame : touched' = {f.stmt, Db}
  /\ UNCHANGED <<handleVars, closureVars, frame>>

FuncResult == FuncArg

(* The application consumes the reference the trampoline took. *)
LeaveCallback ==
  /\ \E f \in frame : count' = plus(f.closure, -1) /\ touched' = {f.stmt, Db}
  /\ frame' = {}
  /\ UNCHANGED <<handleVars, registered, mine, refused, starved>>

DropClosure(c) ==
  /\ mine[c] = 1 /\ c \notin refused
  /\ mine' = [mine EXCEPT ![c] = 0]
  /\ count' = plus(c, -1)
  /\ touched' = {}
  /\ UNCHANGED <<handleVars, registered, refused, starved, frame>>

Next ==
  \/ Open \/ Close \/ AskConnection \/ Exec \/ AskStatistics
  \/ \E s \in Stmt : \/ Prepare(s) \/ Step(s) \/ Reset(s) \/ Finalize(s)
                     \/ AskStatement(s) \/ ClearBindings(s) \/ Bind(s) \/ Column(s)
                     \/ \E n \in Name : EnterCallback(s, n)
  \/ \E h \in Handle : Drop(h)
  \/ \E n \in Name : DeleteFunction(n) \/ \E c \in Closure : CreateFunction(c, n)
  \/ \E c \in Closure : DropClosure(c)
  \/ FuncArg \/ FuncResult \/ LeaveCallback

Spec == Init /\ [][Next]_vars

-----------------------------------------------------------------------------
Contract == INSTANCE ForeignResource WITH Resource <- Handle

(* No call hands SQLite a connection or a statement that is gone, whatever  *)
(* was closed, finalized or dropped before it and in whatever order.        *)
KeepsContract == Contract!Spec /\ [][Contract!Call]_vars

(* Nothing is left in SQLite that no call can release any more: an open     *)
(* connection or statement is the pointer of a wrapper the program holds,   *)
(* and a closed connection is kept alive only by such statements.           *)
NothingStranded ==
  /\ \A h \in Handle : native[h] = "open" => ptr[h] /\ held[h]
  /\ native[Db] = "zombie" => openStatements(native) # {}

references(c) ==
  mine[c] + Cardinality(names(c)) + Cardinality({f \in frame : f.closure = c})

(* A closure has exactly the references of the program, of the functions    *)
(* registered with it and of the call under way: it is not freed under any  *)
(* of them and not kept when all are gone.  This leaves out closures that   *)
(* SQLite refused and those that ran out of memory on the way into a call.  *)
ClosureCounted ==
  \A c \in Closure \ (refused \cup starved) : count[c] = references(c)

(* A comment of linen_sqlite3_create_function says that SQLite leaves the   *)
(* reference of a refused closure alone, so releasing it there is right.    *)
RefusedClosureCounted ==
  \A c \in refused \ starved : count[c] = references(c)
=============================================================================
