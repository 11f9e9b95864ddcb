---------------------------- MODULE DuckCallback ----------------------------
(* The Lean closure behind a scalar function of DuckDB (src/ffi/            *)
(* duckdb_shim.c; a log storage keeps its closure the same way, but a call  *)
(* of its trampoline is always made).  DuckDB stores one reference and      *)
(* calls the closure on its own threads, while the program waits for the    *)
(* query; each call retains it and gives that reference to lean_apply,      *)
(* which releases it.  Nothing marks the closure as shared between threads, *)
(* so such an update of its count reads it in one step and writes it in     *)
(* another.                                                                 *)
EXTENDS Integers, FiniteSets

CONSTANTS Thread,    \* the threads DuckDB runs queries on
          MaxTaken   \* how many references are taken in a behaviour

DuckCallbackAssumption == IsFiniteSet(Thread) /\ MaxTaken \in Nat

VARIABLES own,        \* references that are the program's
          stored,     \* DuckDB has the closure
          rc,         \* the closure's reference count
          freed,      \* it reached zero
          doing,      \* of each thread: "out", "retain", "call" or "release"
          seen,       \* the count that a thread read
          leaked,     \* references that nobody will release
          taken,      \* references taken so far
          overlapped  \* history: two updates of the count overlapped

vars == <<own, stored, rc, freed, doing, seen, leaked, taken, overlapped>>

(* What `setOnCall` is given: a closure that the program alone refers to.   *)
Init ==
  /\ own = 1 /\ rc = 1 /\ stored = FALSE /\ freed = FALSE
  /\ doing = [t \in Thread |-> "out"] /\ seen = [t \in Thread |-> 0]
  /\ leaked = 0 /\ taken = 0 /\ overlapped = FALSE

Updating == {t \in Thread : doing[t] \in {"retain", "release"}}

(* No query is running: the program's code is. *)
Idle == \A t \in Thread : doing[t] = "out"

-----------------------------------------------------------------------------
(* The program keeps a reference beside the one it will give away, and      *)
(* gives up one that it has. *)
Share ==
  /\ Idle /\ own = 1 /\ taken < MaxTaken
  /\ own' = own + 1 /\ rc' = rc + 1 /\ taken' = taken + 1
  /\ UNCHANGED <<stored, freed, doing, seen, leaked, overlapped>>

DropOwn ==
  /\ Idle /\ own > 0
  /\ own' = own - 1 /\ rc' = rc - 1 /\ freed' = (freed \/ rc = 1)
  /\ UNCHANGED <<stored, doing, seen, leaked, taken, overlapped>>

(* set_extra_info: the reference that Lean gave is DuckDB's now. *)
SetExtra ==
  /\ Idle /\ own > 0 /\ ~stored
  /\ stored' = TRUE /\ own' = own - 1
  /\ UNCHANGED <<rc, freed, doing, seen, leaked, taken, overlapped>>

(* DuckDB destroys the function, or its data is replaced. *)
Delete ==
  /\ Idle /\ stored
  /\ stored' = FALSE /\ rc' = rc - 1 /\ freed' = (freed \/ rc = 1)
  /\ UNCHANGED <<own, doing, seen, leaked, taken, overlapped>>

-----------------------------------------------------------------------------
(* lean_inc_ref and lean_dec_ref on a thread of DuckDB: read the count ...  *)
Begin(t, update) ==
  /\ ~freed
  /\ doing' = [doing EXCEPT ![t] = update] /\ seen' = [seen EXCEPT ![t] = rc]
  /\ overlapped' = (overlapped \/ Updating # {})

(* ... and write it. *)
End(t, change, then) ==
  /\ rc' = seen[t] + change
  /\ doing' = [doing EXCEPT ![t] = then] /\ seen' = [seen EXCEPT ![t] = 0]

(* Bug: the call borrows DuckDB's reference. *)
EnterBorrowing(t) ==
  /\ stored /\ ~freed /\ doing[t] = "out" /\ taken < MaxTaken
  /\ taken' = taken + 1 /\ doing' = [doing EXCEPT ![t] = "call"]
  /\ UNCHANGED <<own, stored, rc, freed, seen, leaked, overlapped>>

(* The trampoline retains the closure for the call ... *)
Enter(t) ==
  /\ stored /\ doing[t] = "out" /\ taken < MaxTaken
  /\ Begin(t, "retain")
  /\ taken' = taken + 1
  /\ UNCHANGED <<own, stored, rc, freed, leaked>>

(* ... and returns without making it if there is no memory for a wrapper of *)
(* its arguments. *)
Retained(t) ==
  /\ doing[t] = "retain"
  /\ \/ End(t, 1, "call") /\ UNCHANGED leaked
     \/ End(t, 1, "out") /\ leaked' = leaked + 1
  /\ UNCHANGED <<own, stored, freed, taken, overlapped>>

Applied(t) ==
  /\ doing[t] = "call"
  /\ Begin(t, "release")
  /\ UNCHANGED <<own, stored, rc, freed, leaked, taken>>

Released(t) ==
  /\ doing[t] = "release"
  /\ End(t, -1, "out")
  /\ freed' = (freed \/ seen[t] = 1)
  /\ UNCHANGED <<own, stored, leaked, taken, overlapped>>

Next ==
  \/ Share \/ DropOwn \/ SetExtra \/ Delete
  \/ \E t \in Thread : Enter(t) \/ Retained(t) \/ Applied(t) \/ Released(t)

Spec == Init /\ [][Next]_vars

-----------------------------------------------------------------------------
(* The closure is there as long as DuckDB may call it, and for the whole of *)
(* a call. *)
LastsForTheCall == stored \/ ~Idle => ~freed

(* It is, and is there for the program too, as long as no two updates of    *)
(* its count overlap. *)
HeldForTheCall ==
  ~overlapped => LastsForTheCall /\ (own > 0 => ~freed)

(* Then the count is the program's references, DuckDB's, one for each call  *)
(* under way, and those left behind by calls that could not be made; at     *)
(* zero, and only then, the closure is freed.                               *)
ClosureCounted ==
  ~overlapped /\ Updating = {} =>
    /\ rc = own + (IF stored THEN 1 ELSE 0)
            + Cardinality({t \in Thread : doing[t] = "call"}) + leaked
    /\ freed <=> rc = 0
=============================================================================
