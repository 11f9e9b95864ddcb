------------------------------ MODULE SqlPool ------------------------------
(***************************************************************************)
(* Linen.Database.SQL.Pool: a pool of database connections behind one      *)
(* IO.Ref.  `use` takes an idle connection or opens a new one, runs a      *)
(* session, and gives the connection back on every path; `destroy` takes   *)
(* the idle connections out and closes them.  Nothing waits: with maxSize  *)
(* connections out, `use` opens one more and does not count it.            *)
(*                                                                         *)
(* totalCreated is left out: only `stats` reads it.                        *)
(***************************************************************************)
EXTENDS SqlPoolState

vars == <<available, inUse, pc, conn, closing, live, failures>>

TypeOK ==
  /\ available \in Seq(Conn)
  /\ inUse \in Nat
  /\ pc \in [User -> {"idle", "connecting", "running"}]
  /\ conn \in [User -> Conn \cup {NoConn}]
  /\ closing \in SUBSET Conn
  /\ live \in SUBSET Conn
  /\ failures \in 0..MaxFailures

Init ==
  /\ available = <<>>
  /\ inUse = 0
  /\ pc = [u \in User |-> "idle"]
  /\ conn = [u \in User |-> NoConn]
  /\ closing = {}
  /\ live = {}
  /\ failures = 0

----------------------------------------------------------------------------
(* acquireConn                                                             *)

(* Bug: the connection handed out is not popped.                           *)
TakeIdleUnpopped(u) ==
  /\ pc[u] = "idle"
  /\ available # <<>>
  /\ conn' = [conn EXCEPT ![u] = Last(available)]
  /\ inUse' = inUse + 1
  /\ pc' = [pc EXCEPT ![u] = "running"]
  /\ UNCHANGED <<available, closing, live, failures>>

(* The idle connection given back last is handed out.                      *)
TakeIdle(u) ==
  /\ pc[u] = "idle"
  /\ available # <<>>
  /\ conn' = [conn EXCEPT ![u] = Last(available)]
  /\ available' = Front(available)
  /\ inUse' = inUse + 1
  /\ pc' = [pc EXCEPT ![u] = "running"]
  /\ UNCHANGED <<closing, live, failures>>

(* Bug: idle connections are not looked for first.                         *)
ReserveAnyway(u) ==
  /\ pc[u] = "idle"
  /\ inUse < MaxSize
  /\ inUse' = inUse + 1
  /\ pc' = [pc EXCEPT ![u] = "connecting"]
  /\ UNCHANGED <<available, conn, closing, live, failures>>

(* None is idle and the count is below maxSize: a place is counted before  *)
(* the connection is opened.                                               *)
Reserve(u) ==
  /\ pc[u] = "idle"
  /\ available = <<>>
  /\ inUse < MaxSize
  /\ inUse' = inUse + 1
  /\ pc' = [pc EXCEPT ![u] = "connecting"]
  /\ UNCHANGED <<available, conn, closing, live, failures>>

(* "Pool exhausted": the state is left alone, and the same branch of the   *)
(* match opens a connection all the same.                                  *)
Exceed(u) ==
  /\ pc[u] = "idle"
  /\ available = <<>>
  /\ inUse >= MaxSize
  /\ pc' = [pc EXCEPT ![u] = "connecting"]
  /\ UNCHANGED <<available, inUse, conn, closing, live, failures>>

(* `acquire` succeeds, outside the reference.                              *)
Connect(u) ==
  /\ pc[u] = "connecting"
  /\ \E c \in Conn \ live :
       /\ live' = live \cup {c}
       /\ conn' = [conn EXCEPT ![u] = c]
  /\ pc' = [pc EXCEPT ![u] = "running"]
  /\ UNCHANGED <<available, inUse, closing, failures>>

(* `acquire` fails: the error is returned and inUse stays as it is.        *)
ConnectFails(u) ==
  /\ pc[u] = "connecting"
  /\ failures < MaxFailures
  /\ failures' = failures + 1
  /\ pc' = [pc EXCEPT ![u] = "idle"]
  /\ UNCHANGED <<available, inUse, conn, closing, live>>

----------------------------------------------------------------------------
(* The session has ended, with a result, an error or an exception:         *)
(* releaseConn.  Subtraction of naturals stops at zero.                    *)

Release(u) ==
  /\ pc[u] = "running"
  /\ available' = Append(available, conn[u])
  /\ inUse' = IF inUse = 0 THEN 0 ELSE inUse - 1
  /\ conn' = [conn EXCEPT ![u] = NoConn]
  /\ pc' = [pc EXCEPT ![u] = "idle"]
  /\ UNCHANGED <<closing, live, failures>>

----------------------------------------------------------------------------
(* destroy: the idle connections are taken out in one step and closed one  *)
(* by one while the pool stays usable.  One task destroys at a time.       *)
Destroy ==
  /\ closing = {}
  /\ available # <<>>
  /\ closing' = ToSet(available)
  /\ available' = <<>>
  /\ UNCHANGED <<inUse, pc, conn, live, failures>>

Close ==
  /\ \E c \in closing :
       /\ closing' = closing \ {c}
       /\ live' = live \ {c}
  /\ UNCHANGED <<available, inUse, pc, conn, failures>>

Next ==
  \/ \E u \in User :
       \/ TakeIdle(u) \/ Reserve(u) \/ Exceed(u)
       \/ Connect(u) \/ ConnectFails(u) \/ Release(u)
  \/ Destroy
  \/ Close

Spec == Init /\ [][Next]_vars

----------------------------------------------------------------------------
(* maxSize does not bound the pool (see Exceed), but demand does: leaving  *)
(* aside what destroy is closing, there are never more connections, open   *)
(* or being opened, than tasks that use the pool.  A task opens one only   *)
(* after seeing none idle, although others may be given back meanwhile.    *)
DemandBoundsPool ==
  Cardinality(live \ closing) + Cardinality(Busy \ Running)
    <= Cardinality(User)

(* inUse drifts from what is in use, upwards only by failed attempts, each *)
(* of which counts one place that nobody holds (downwards, uncounted       *)
(* connections given back take the place of counted ones), and never       *)
(* leaves its type: what is subtracted from it stops at zero.              *)
OvercountIsFailures == TypeOK /\ inUse <= Cardinality(Busy) + failures
=============================================================================
