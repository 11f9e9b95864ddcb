---------------------------- MODULE SqlPoolState ----------------------------
(* The state of Linen.Database.SQL.Pool, of the tasks that use it and of    *)
(* the server's connections, and where a connection may be.                 *)
EXTENDS Integers, FiniteSets, SequencesExt

CONSTANTS User,         (* tasks that call `use`, one call at a time        *)
          Conn,         (* identities of connections, reused once closed    *)
          NoConn,       (* the connection of a task that has none           *)
          MaxSize,      (* PoolSettings.maxSize                             *)
          MaxFailures   (* bound on the attempts to connect that fail       *)

ASSUME SqlPoolAssumption ==
  /\ IsFiniteSet(User) /\ IsFiniteSet(Conn)
  /\ NoConn \notin Conn
  /\ MaxSize \in Nat \ {0}
  /\ MaxFailures \in Nat

VARIABLES available, (* PoolState.available: the idle connections           *)
          inUse,     (* PoolState.inUse                                     *)
          pc,        (* where each user is in `use`                         *)
          conn,      (* the connection its session runs on                  *)
          closing,   (* connections `destroy` has taken and not yet closed  *)
          live,      (* connections open at the server                      *)
          failures   (* attempts to connect that have failed                *)

-----------------------------------------------------------------------------
Busy    == {u \in User : pc[u] # "idle"}
Running == {u \in User : pc[u] = "running"}
Held    == {conn[u] : u \in Running}

(* Every open connection is in exactly one place - idle in the pool, held  *)
(* by one session, or taken by destroy to be closed - and every connection *)
(* in a place is open: none is shared, used after its close, closed under  *)
(* a session, or lost.                                                     *)
OnePlaceEach ==
  /\ \A u, v \in Running : u # v => conn[u] # conn[v]
  /\ \A i, k \in DOMAIN available : i # k => available[i] # available[k]
  /\ Held \cap ToSet(available) = {}
  /\ Held \cap closing = {}
  /\ closing \cap ToSet(available) = {}
  /\ live = Held \cup ToSet(available) \cup closing
=============================================================================
