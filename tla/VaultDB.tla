------------------------------- MODULE VaultDB -------------------------------
(***************************************************************************)
(* The SQLite file behind the server, as server-py/database.py uses it.    *)
(*                                                                         *)
(* Every connection handler opens its own aiosqlite connection, so a write *)
(* is two awaits: "execute" starts the implicit transaction and takes      *)
(* SQLite's single write lock, "commit" publishes the change and releases  *)
(* the lock.  Readers see the committed image until then.  The transaction *)
(* is kept as the image of the tables that its commit will publish.        *)
(***************************************************************************)
EXTENDS Naturals

CONSTANTS
  Conns,     \* TLS connections; a connection issues at most one session token,
             \* os.urandom(32), which is named after the connection
  Users,     \* the rows of table users
  Clients,   \* client (device) identifiers
  Vaults,    \* vault identifiers
  Blobs,     \* encrypted vault contents
  None       \* absent row, no transaction

VARIABLES
  vaults,    \* table vaults, committed
  sessions,  \* table sessions, committed
  txn        \* the transaction that holds the write lock, or None

dbVars == <<vaults, sessions, txn>>

\* A stored version is at least 1: the first accepted PUT stores 0 + 1.
VaultRow == [user : Users, version : Nat \ {0}, blob : Blobs]
SessionRow == [user : Users, client : Clients, expiry : Nat]
Txn == [by : Conns,
        vaults : [Vaults -> VaultRow \cup {None}],
        sessions : [Conns -> SessionRow \cup {None}]]

ASSUME NoneAssumption ==
  /\ None \notin Conns \cup Users \cup Clients \cup Vaults \cup Blobs
  /\ None \notin VaultRow
  /\ None \notin SessionRow
  /\ None \notin Txn

DbTypeOk ==
  /\ vaults \in [Vaults -> VaultRow \cup {None}]
  /\ sessions \in [Conns -> SessionRow \cup {None}]
  /\ txn \in Txn \cup {None}

\* init_db creates the tables; they are empty before the first handshake.
DbInit ==
  /\ vaults = [v \in Vaults |-> None]
  /\ sessions = [t \in Conns |-> None]
  /\ txn = None

-----------------------------------------------------------------------------
\* Mutants of UpsertHits and Rollback: the WHERE clause without the version, an
\* upsert without a WHERE clause, a connection that is never closed.
UpsertHitsAnyVersion(v, u, n) == vaults[v] = None \/ vaults[v].user = u
UpsertHitsAlways(v, u, n) == TRUE
RollbackForgotten(c) == UNCHANGED dbVars

\* update_vault's WHERE clause: the upsert writes a row when there is none, or
\* when the row has this owner and the version just below the new one.
UpsertHits(v, u, n) ==
  \/ vaults[v] = None
  \/ vaults[v].user = u /\ vaults[v].version = n - 1

\* conn.execute(INSERT INTO vaults ... ON CONFLICT DO UPDATE): one statement
\* under the write lock; a missed WHERE leaves the table as it was.
ExecuteUpsert(c, v, u, n, b) ==
  /\ txn = None
  /\ txn' = [by |-> c,
             vaults |-> IF UpsertHits(v, u, n)
                        THEN [vaults EXCEPT ![v] = [user |-> u, version |-> n, blob |-> b]]
                        ELSE vaults,
             sessions |-> sessions]
  /\ UNCHANGED <<vaults, sessions>>

\* conn.execute(INSERT INTO sessions ...).
ExecuteSession(c, u, k, e) ==
  /\ txn = None
  /\ txn' = [by |-> c,
             vaults |-> vaults,
             sessions |-> [sessions EXCEPT ![c] = [user |-> u, client |-> k, expiry |-> e]]]
  /\ UNCHANGED <<vaults, sessions>>

\* conn.commit().
Commit(c) ==
  /\ txn # None
  /\ txn.by = c
  /\ vaults' = txn.vaults
  /\ sessions' = txn.sessions
  /\ txn' = None

\* __aexit__ closes the connection, which rolls back what it had not committed.
Rollback(c) ==
  /\ txn' = IF txn # None /\ txn.by = c THEN None ELSE txn
  /\ UNCHANGED <<vaults, sessions>>

\* The process dies: a transaction in flight is rolled back at the next open.
CrashRollback ==
  /\ txn' = None
  /\ UNCHANGED <<vaults, sessions>>

\* The write lock is held by another connection (SQLITE_BUSY until it is not).
LockedByOther(c) == txn # None /\ txn.by # c
=============================================================================
