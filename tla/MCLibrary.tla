------------------------------ MODULE MCLibrary -----------------------------
(* The primitives of MCConcurrency, and the database drivers: the pool of   *)
(* connections, the handles of SQLite, libpq and DuckDB, and the closures   *)
(* they keep.  They share no state either: a behaviour exercises the one    *)
(* chosen at the start.                                                     *)
EXTENDS MCConcurrency, SqlPoolState

CONSTANTS Stmt, Closure, Name, Db,                    \* SQLite
          PgConn, Res,                                \* libpq
          Database, Connection, Statement, Appender, Result, Chunk, Vector,
          MaxMade, Worker, MaxTaken                   \* DuckDB

VARIABLES
          liteNative, litePtr, liteHeld, liteLost, active, registered, refs, mine,
          refused, starved, frame, liteTouched, pgNative, pgPtr, pgHeld,
          waiting, values, pgTouched, duckNative, duckPtr, duckHeld,
          duckLost, chunkOf, duckTouched, own, stored, rc, freed, doing, seen,
          leaked, taken, overlapped

Pool == INSTANCE SqlPool
Sqlite == INSTANCE SqliteHandles
  WITH native <- liteNative, ptr <- litePtr, held <- liteHeld,
       lost <- liteLost, count <- refs, touched <- liteTouched
Pg == INSTANCE PgHandles
  WITH Conn <- PgConn, native <- pgNative, ptr <- pgPtr, held <- pgHeld,
       touched <- pgTouched
Duck == INSTANCE DuckHandles
  WITH native <- duckNative, ptr <- duckPtr, held <- duckHeld,
       lost <- duckLost, touched <- duckTouched
Extra == INSTANCE DuckCallback
  WITH Thread <- Worker

ASSUME LibrariesAreSound ==
  /\ Sqlite!SqliteHandlesAssumption /\ Pg!PgHandlesAssumption
  /\ Duck!DuckHandlesAssumption /\ Extra!DuckCallbackAssumption

poolVars == <<available, inUse, pc, conn, closing, live, failures>>
sqliteVars == <<liteNative, litePtr, liteHeld, liteLost, active,
                registered, refs, mine, refused, starved, frame,
                liteTouched>>
pgVars == <<pgNative, pgPtr, pgHeld, waiting, values, pgTouched>>
duckVars == <<duckNative, duckPtr, duckHeld, duckLost, chunkOf,
              duckTouched>>
extraVars == <<own, stored, rc, freed, doing, seen, leaked, taken, overlapped>>

Drivers == {"pool", "sqlite", "libpq", "duckdb", "extra info"}

MCInit ==
  /\ exercised \in Primitives \cup Drivers
  /\ PrimitivesInit
  /\ Pool!Init /\ Sqlite!Init /\ Pg!Init /\ Duck!Init /\ Extra!Init

MCNext ==
  \/ PrimitivesNext /\ UNCHANGED <<poolVars, sqliteVars, pgVars, duckVars,
                                   extraVars>>
  \/ /\ exercised = "pool" /\ Pool!Next
     /\ UNCHANGED <<primitiveVars, sqliteVars, pgVars, duckVars, extraVars>>
  \/ /\ exercised = "sqlite" /\ Sqlite!Next
     /\ UNCHANGED <<primitiveVars, poolVars, pgVars, duckVars, extraVars>>
  \/ /\ exercised = "libpq" /\ Pg!Next
     /\ UNCHANGED <<primitiveVars, poolVars, sqliteVars, duckVars, extraVars>>
  \/ /\ exercised = "duckdb" /\ Duck!Next
     /\ UNCHANGED <<primitiveVars, poolVars, sqliteVars, pgVars, extraVars>>
  \/ /\ exercised = "extra info" /\ Extra!Next
     /\ UNCHANGED <<primitiveVars, poolVars, sqliteVars, pgVars, duckVars>>

allVars == <<primitiveVars, poolVars, sqliteVars, pgVars, duckVars,
             extraVars>>

(* The fairness of QSem!FairSpec.                                           *)
MCSpec ==
  /\ MCInit
  /\ [][MCNext]_allVars
  /\ \A c \in Client : WF_allVars(
       /\ exercised = "QSem" /\ Leave(c)
       /\ UNCHANGED <<mVars, exercised, nVars, cVars, tVars, poolVars,
                      sqliteVars, pgVars, duckVars, extraVars>>)

-----------------------------------------------------------------------------
(* See SqlPool: no more connections than tasks that want one, and a count   *)
(* that only failed attempts push up.                                       *)
PoolStaysInBounds == Pool!DemandBoundsPool /\ Pool!OvercountIsFailures

(* See MVarHistory: the MVar implements MVarContract.  See SqliteHandles,   *)
(* PgHandles and DuckHandles: no library is handed what it has freed, and   *)
(* nothing is freed twice.                                                  *)
ContractsKept ==
  M!KeepsContract /\ Sqlite!KeepsContract /\ Pg!KeepsContract /\ Duck!KeepsContract

(* See SqliteHandles, PgHandles and DuckHandles: what a library has open    *)
(* can still be released, of DuckDB unless a call lost a reference to it;   *)
(* and their variables have their types.                                    *)
NothingStranded ==
  /\ Sqlite!TypeOK /\ Sqlite!NothingStranded
  /\ Pg!NothingStranded
  /\ Duck!TypeOK /\ Duck!NothingStranded

(* See SqliteHandles and DuckCallback: a closure in a library's keeping has *)
(* as many references as there are uses of it, and lasts as long as a call, *)
(* in DuckDB while no two threads update its count at once.                 *)
ClosureCounted ==
  Sqlite!ClosureCounted /\ Extra!ClosureCounted /\ Extra!HeldForTheCall
=============================================================================
