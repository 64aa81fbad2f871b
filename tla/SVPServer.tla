------------------------------ MODULE SVPServer ------------------------------
(***************************************************************************)
(* handle_client of server-py/server.py: one coroutine per TLS connection, *)
(* all of them sharing one SQLite file.                                    *)
(*                                                                         *)
(* A handler is atomic between two awaits.  pc[c] names the await it is    *)
(* suspended at, so every interleaving of handlers, database threads,      *)
(* client departures and process crashes is explored.  What a client sends *)
(* is chosen when its frame is read.  A frame is one step here: the byte   *)
(* stream below it is the subject of module FrameStream.                   *)
(***************************************************************************)
EXTENDS VaultDB, Sequences

CONSTANTS
  Names,       \* user names clients type; those in Users are registered
  TotpUsers,   \* users whose totp_secret is set
  TTL,         \* SESSION_TTL_MS
  Frames,      \* the requests clients send
  MaxReplies,  \* bound: replies written on one connection
  MaxFrags,    \* MAX_FRAGMENTED_VAULT_PUT_BYTES, in fragments
  MaxTime      \* bound on the clock

ASSUME UsersAssumption == Users \subseteq Names /\ TotpUsers \subseteq Users
ASSUME BoundsAssumption == {TTL, MaxReplies, MaxFrags, MaxTime} \subseteq Nat

VARIABLES
  state,    \* the handler's state; "new" before accept, "closed" after the finally block
  pc,       \* the await the handler is suspended at
  client,   \* client_id of the HELLO
  user,     \* authenticated_user_id
  expiry,   \* expiry of the session being created
  req,      \* the request being handled
  row,      \* current_vault / vault_row: the row read for it
  hit,      \* affected_rows > 0
  frags,    \* fragments in fragmented_put_buffer; 0 is None
  log,      \* requests answered on the connection, with their replies
  now,      \* _now_ms()
  hist,     \* history: the accepted PUTs of each vault
  shown     \* history: the credentials presented for a user by a client

handlerVars == <<state, pc, client, user, expiry, req, row, hit, frags, log>>
vars == <<vaults, sessions, txn, state, pc, client, user, expiry, req, row, hit,
          frags, log, now, hist, shown>>

States == {"new", "GREETING", "AUTHENTICATING", "ESTABLISHED", "closed"}
Pcs == {"read",                                     \* wait_for(_read_frame)
        "auth", "session_execute", "session_commit", "session_done",
        "get_read", "get_done",
        "put_read", "put_check", "put_execute", "put_commit", "put_done",
        "done"}
Factors == {"hmac", "totp"}

HelloReq == [type : {"HELLO"}, client : Clients]
\* refresh is the token of a token_refresh = 1 request, or None.
AuthReq == [type : {"AUTH"}, user : Names, factors : SUBSET Factors, refresh : Conns \cup {None}]
GetReq == [type : {"VAULT_GET"}, vault : Vaults]
PutReq == [type : {"VAULT_PUT"}, vault : Vaults, base : Nat, blob : Blobs]
SignalReq == [type : {"PING", "BYE"}]
Request == HelloReq \cup AuthReq \cup GetReq \cup PutReq \cup SignalReq

ASSUME FramesAssumption == Frames \subseteq Request

Reply ==
  [type : {"CHALLENGE", "AUTH_FAIL", "PONG", "BYE"}]
    \cup [type : {"AUTH_OK"}, token : Conns, expiry : Nat, vault_version : {0}]
    \cup [type : {"VAULT_DATA"}, vault : Vaults, version : Nat, blob : Blobs]
    \cup [type : {"VAULT_ACK"}, vault : Vaults, version : Nat]
    \cup [type : {"ERROR"}, code : {"NOT_FOUND", "CONFLICT"}]

Exchange == [req : Request, rep : Reply]
Accepted == [by : Conns, user : Users, blob : Blobs]
Credentials == [user : Names, client : Clients, factors : SUBSET Factors]

TypeOk ==
  /\ DbTypeOk
  /\ state \in [Conns -> States]
  /\ pc \in [Conns -> Pcs]
  /\ client \in [Conns -> Clients \cup {None}]
  /\ user \in [Conns -> Users \cup {None}]
  /\ expiry \in [Conns -> Nat]
  /\ req \in [Conns -> Request \cup {None}]
  /\ row \in [Conns -> VaultRow \cup {None}]
  /\ hit \in [Conns -> BOOLEAN]
  /\ frags \in [Conns -> 0..MaxFrags]
  /\ log \in [Conns -> Seq(Exchange)]
  /\ now \in Nat
  /\ hist \in [Vaults -> Seq(Accepted)]
  /\ shown \in SUBSET Credentials

Init ==
  /\ DbInit
  /\ state = [c \in Conns |-> "new"]
  /\ pc = [c \in Conns |-> "read"]
  /\ client = [c \in Conns |-> None]
  /\ user = [c \in Conns |-> None]
  /\ expiry = [c \in Conns |-> 0]
  /\ req = [c \in Conns |-> None]
  /\ row = [c \in Conns |-> None]
  /\ hit = [c \in Conns |-> FALSE]
  /\ frags = [c \in Conns |-> 0]
  /\ log = [c \in Conns |-> <<>>]
  /\ now = 0
  /\ hist = [v \in Vaults |-> <<>>]
  /\ shown = {}

-----------------------------------------------------------------------------
\* Helpers shared by the handlers.

Reading(c, s) == state[c] = s /\ pc[c] = "read"
CanReply(c) == Len(log[c]) < MaxReplies

LogReply(c, r, rep) == log' = [log EXCEPT ![c] = Append(@, [req |-> r, rep |-> rep])]
Goto(c, p) == pc' = [pc EXCEPT ![c] = p]

\* "continue": back to the read; the next request assigns these locals before
\* it uses them.
Continue(c) ==
  /\ Goto(c, "read")
  /\ req' = [req EXCEPT ![c] = None]
  /\ row' = [row EXCEPT ![c] = None]
  /\ hit' = [hit EXCEPT ![c] = FALSE]

\* Leaving the try block: DatabaseManager.__aexit__, then the finally clause.
Finish(c) ==
  /\ state' = [state EXCEPT ![c] = "closed"]
  /\ pc' = [pc EXCEPT ![c] = "done"]
  /\ req' = [req EXCEPT ![c] = None]
  /\ row' = [row EXCEPT ![c] = None]
  /\ hit' = [hit EXCEPT ![c] = FALSE]
  /\ frags' = [frags EXCEPT ![c] = 0]
  /\ Rollback(c)

ErrorReply(code) == [type |-> "ERROR", code |-> code]

-----------------------------------------------------------------------------
\* Greeting and authentication.

Accept(c) ==
  /\ Reading(c, "new")
  /\ state' = [state EXCEPT ![c] = "GREETING"]
  /\ UNCHANGED <<dbVars, pc, client, user, expiry, req, row, hit, frags, log, now, hist, shown>>

Hello(c, f) ==
  /\ f.type = "HELLO"
  /\ Reading(c, "GREETING") /\ CanReply(c)
  /\ client' = [client EXCEPT ![c] = f.client]
  /\ LogReply(c, f, [type |-> "CHALLENGE"])
  /\ state' = [state EXCEPT ![c] = "AUTHENTICATING"]
  /\ UNCHANGED <<dbVars, pc, user, expiry, req, row, hit, frags, now, hist, shown>>

\* A client holds the tokens whose AUTH_OK was written; its own connection's
\* name stands for a token the server never issued.
Presentable(c, t) ==
  \/ t = c
  \/ \E i \in DOMAIN log[t] : log[t][i].rep.type = "AUTH_OK"

Auth(c, f) ==
  /\ f.type = "AUTH"
  /\ Reading(c, "AUTHENTICATING") /\ CanReply(c)
  /\ f.refresh # None => Presentable(c, f.refresh)
  /\ req' = [req EXCEPT ![c] = f]
  /\ Goto(c, "auth")
  /\ UNCHANGED <<dbVars, state, client, user, expiry, row, hit, frags, log, now, hist, shown>>

\* Mutants: a refresh that ignores the client binding; AUTH_OK before the session is
\* committed.
RefreshValidAnyClient(c, a) ==
  /\ a.user \in Users
  /\ sessions[a.refresh] # None
  /\ sessions[a.refresh].expiry > now
  /\ sessions[a.refresh].user = a.user
SessionExecuteUncommitted(c) ==
  /\ pc[c] = "session_execute"
  /\ ExecuteSession(c, user[c], client[c], expiry[c])
  /\ Goto(c, "session_done")
  /\ UNCHANGED <<state, client, user, expiry, req, row, hit, frags, log, now, hist, shown>>

PasswordValid(a) ==
  /\ a.user \in Users
  /\ "hmac" \in a.factors
  /\ a.user \in TotpUsers => "totp" \in a.factors

RefreshValid(c, a) ==
  /\ a.user \in Users
  /\ sessions[a.refresh] # None
  /\ sessions[a.refresh].expiry > now
  /\ sessions[a.refresh].user = a.user
  /\ sessions[a.refresh].client = client[c]

AuthValid(c, a) == IF a.refresh = None THEN PasswordValid(a) ELSE RefreshValid(c, a)

\* Mutant: a refused login gets no answer.
AuthenticateSilent(c) ==
  /\ pc[c] = "auth"
  /\ shown' = IF req[c].refresh = None
              THEN shown \cup {[user |-> req[c].user, client |-> client[c], factors |-> req[c].factors]}
              ELSE shown
  /\ IF AuthValid(c, req[c])
     THEN /\ user' = [user EXCEPT ![c] = req[c].user]
          /\ expiry' = [expiry EXCEPT ![c] = now + TTL]
          /\ Goto(c, "session_execute")
          /\ UNCHANGED <<req, row, hit>>
     ELSE Continue(c) /\ UNCHANGED <<user, expiry>>
  /\ UNCHANGED <<dbVars, state, client, frags, log, now, hist>>

Authenticate(c) ==
  /\ pc[c] = "auth"
  /\ shown' = IF req[c].refresh = None
              THEN shown \cup {[user |-> req[c].user, client |-> client[c], factors |-> req[c].factors]}
              ELSE shown
  /\ \/ /\ AuthValid(c, req[c])
        /\ user' = [user EXCEPT ![c] = req[c].user]
        /\ expiry' = [expiry EXCEPT ![c] = now + TTL]
        /\ Goto(c, "session_execute")
        /\ UNCHANGED <<dbVars, state, req, row, hit, frags, log>>
     \/ /\ ~AuthValid(c, req[c])
        /\ LogReply(c, req[c], [type |-> "AUTH_FAIL"])
        /\ Finish(c)
        /\ UNCHANGED <<user, expiry>>
  /\ UNCHANGED <<client, now, hist>>

SessionExecute(c) ==
  /\ pc[c] = "session_execute"
  /\ ExecuteSession(c, user[c], client[c], expiry[c])
  /\ Goto(c, "session_commit")
  /\ UNCHANGED <<state, client, user, expiry, req, row, hit, frags, log, now, hist, shown>>

SessionCommit(c) ==
  /\ pc[c] = "session_commit"
  /\ Commit(c)
  /\ Goto(c, "session_done")
  /\ UNCHANGED <<state, client, user, expiry, req, row, hit, frags, log, now, hist, shown>>

AuthOk(c) ==
  /\ pc[c] = "session_done"
  /\ LogReply(c, req[c], [type |-> "AUTH_OK", token |-> c, expiry |-> expiry[c], vault_version |-> 0])
  /\ state' = [state EXCEPT ![c] = "ESTABLISHED"]
  /\ Continue(c)
  /\ UNCHANGED <<dbVars, client, user, expiry, frags, now, hist, shown>>

-----------------------------------------------------------------------------
\* The established session.  Only VAULT_PUT may follow a buffered fragment.

Ping(c, f) ==
  /\ f.type = "PING"
  /\ Reading(c, "ESTABLISHED") /\ CanReply(c) /\ frags[c] = 0
  /\ LogReply(c, f, [type |-> "PONG"])
  /\ UNCHANGED <<dbVars, state, pc, client, user, expiry, req, row, hit, frags, now, hist, shown>>

Bye(c, f) ==
  /\ f.type = "BYE"
  /\ Reading(c, "ESTABLISHED") /\ CanReply(c) /\ frags[c] = 0
  /\ LogReply(c, f, [type |-> "BYE"])
  /\ Finish(c)
  /\ UNCHANGED <<client, user, expiry, now, hist, shown>>

VaultGet(c, f) ==
  /\ f.type = "VAULT_GET"
  /\ Reading(c, "ESTABLISHED") /\ CanReply(c) /\ frags[c] = 0
  /\ req' = [req EXCEPT ![c] = f]
  /\ Goto(c, "get_read")
  /\ UNCHANGED <<dbVars, state, client, user, expiry, row, hit, frags, log, now, hist, shown>>

\* Mutants: a read that sees another connection's uncommitted row; no owner check.
ReadRowDirty(c, from, to) ==
  /\ pc[c] = from
  /\ row' = [row EXCEPT ![c] = IF txn = None THEN vaults[req[c].vault] ELSE txn.vaults[req[c].vault]]
  /\ Goto(c, to)
  /\ UNCHANGED <<dbVars, state, client, user, expiry, req, hit, frags, log, now, hist, shown>>
ForeignRowNever(c) == FALSE

\* await db.get_vault(vault_id): the committed row, which other connections
\* may replace before this handler runs again.
ReadRow(c, from, to) ==
  /\ pc[c] = from
  /\ row' = [row EXCEPT ![c] = vaults[req[c].vault]]
  /\ Goto(c, to)
  /\ UNCHANGED <<dbVars, state, client, user, expiry, req, hit, frags, log, now, hist, shown>>

GetRead(c) == ReadRow(c, "get_read", "get_done")

ForeignRow(c) == row[c] # None /\ row[c].user # user[c]

GetReply(c) ==
  IF row[c] = None \/ ForeignRow(c)
  THEN ErrorReply("NOT_FOUND")
  ELSE [type |-> "VAULT_DATA", vault |-> req[c].vault, version |-> row[c].version, blob |-> row[c].blob]

GetDone(c) ==
  /\ pc[c] = "get_done"
  /\ LogReply(c, req[c], GetReply(c))
  /\ Continue(c)
  /\ UNCHANGED <<dbVars, state, client, user, expiry, frags, now, hist, shown>>

\* A VAULT_PUT with FRAGMENTED and without LAST_FRAG is buffered.
PutFragment(c) ==
  /\ Reading(c, "ESTABLISHED") /\ CanReply(c)
  /\ frags[c] + 1 <= MaxFrags
  /\ frags' = [frags EXCEPT ![c] = @ + 1]
  /\ UNCHANGED <<dbVars, state, pc, client, user, expiry, req, row, hit, log, now, hist, shown>>

\* A complete payload: an unfragmented VAULT_PUT, which leaves a fragment
\* buffer alone, or the last fragment, which empties it.
VaultPut(c, f) ==
  /\ f.type = "VAULT_PUT"
  /\ Reading(c, "ESTABLISHED") /\ CanReply(c)
  /\ \/ UNCHANGED frags
     \/ frags[c] + 1 <= MaxFrags /\ frags' = [frags EXCEPT ![c] = 0]
  /\ req' = [req EXCEPT ![c] = f]
  /\ Goto(c, "put_read")
  /\ UNCHANGED <<dbVars, state, client, user, expiry, row, hit, log, now, hist, shown>>

PutRead(c) == ReadRow(c, "put_read", "put_check")

CurrentVersion(c) == IF row[c] = None THEN 0 ELSE row[c].version

\* Mutant: the base version is not compared.
PutCheckOwnerOnly(c) ==
  /\ pc[c] = "put_check"
  /\ IF ForeignRow(c)
     THEN LogReply(c, req[c], ErrorReply("NOT_FOUND")) /\ Continue(c)
     ELSE Goto(c, "put_execute") /\ UNCHANGED <<req, row, hit, log>>
  /\ UNCHANGED <<dbVars, state, client, user, expiry, frags, now, hist, shown>>

\* The checks on the row that was read: owner, then base version.
PutCheck(c) ==
  /\ pc[c] = "put_check"
  /\ \/ /\ ForeignRow(c)
        /\ LogReply(c, req[c], ErrorReply("NOT_FOUND"))
        /\ Continue(c)
     \/ /\ ~ForeignRow(c)
        /\ req[c].base # CurrentVersion(c)
        /\ LogReply(c, req[c], ErrorReply("CONFLICT"))
        /\ Continue(c)
     \/ /\ ~ForeignRow(c)
        /\ req[c].base = CurrentVersion(c)
        /\ Goto(c, "put_execute")
        /\ UNCHANGED <<req, row, hit, log>>
  /\ UNCHANGED <<dbVars, state, client, user, expiry, frags, now, hist, shown>>

\* Mutants: the version is not increased; VAULT_ACK although no row was written.
NewVersionSame(c) == CurrentVersion(c)

NewVersion(c) == CurrentVersion(c) + 1

PutReplyAlwaysAck(c) ==
  [type |-> "VAULT_ACK", vault |-> req[c].vault, version |-> NewVersion(c)]

PutExecute(c) ==
  /\ pc[c] = "put_execute"
  /\ ExecuteUpsert(c, req[c].vault, user[c], NewVersion(c), req[c].blob)
  /\ hit' = [hit EXCEPT ![c] = UpsertHits(req[c].vault, user[c], NewVersion(c))]
  /\ Goto(c, "put_commit")
  /\ UNCHANGED <<state, client, user, expiry, req, row, frags, log, now, hist, shown>>

PutCommit(c) ==
  /\ pc[c] = "put_commit"
  /\ Commit(c)
  /\ hist' = IF hit[c]
             THEN [hist EXCEPT ![req[c].vault] =
                     Append(@, [by |-> c, user |-> user[c], blob |-> req[c].blob])]
             ELSE hist
  /\ Goto(c, "put_done")
  /\ UNCHANGED <<state, client, user, expiry, req, row, hit, frags, log, now, shown>>

PutReply(c) ==
  IF hit[c]
  THEN [type |-> "VAULT_ACK", vault |-> req[c].vault, version |-> NewVersion(c)]
  ELSE ErrorReply("CONFLICT")

PutDone(c) ==
  /\ pc[c] = "put_done"
  /\ LogReply(c, req[c], PutReply(c))
  /\ Continue(c)
  /\ UNCHANGED <<dbVars, state, client, user, expiry, frags, now, hist, shown>>

-----------------------------------------------------------------------------
\* What ends a connection, and the environment.

Open(c) == state[c] \in {"GREETING", "AUTHENTICATING", "ESTABLISHED"}

\* 30 s after its first fragment an incomplete PUT is dropped.
FragmentTimeout(c) ==
  /\ Open(c) /\ pc[c] = "read"
  /\ frags[c] > 0
  /\ frags' = [frags EXCEPT ![c] = 0]
  /\ UNCHANGED <<dbVars, state, pc, client, user, expiry, req, row, hit, log, now, hist, shown>>

\* The read ends the session: 90 s of silence, end of stream
\* (IncompleteReadError), or a frame this state does not take (SVPFormatError,
\* SVPHmacError).
ReadEnds(c) ==
  /\ Open(c) /\ pc[c] = "read"
  /\ Finish(c)
  /\ UNCHANGED <<client, user, expiry, log, now, hist, shown>>

\* sqlite3.OperationalError ("database is locked") after the 5 s busy timeout:
\* no except clause takes it, the finally clause closes the connection.
BusyTimeout(c) ==
  /\ pc[c] \in {"session_execute", "put_execute"}
  /\ LockedByOther(c)
  /\ Finish(c)
  /\ UNCHANGED <<client, user, expiry, log, now, hist, shown>>

\* Any other error of a database call, or ConnectionError while replying.
HandlerFails(c) ==
  /\ Open(c) /\ pc[c] # "read"
  /\ Finish(c)
  /\ UNCHANGED <<client, user, expiry, log, now, hist, shown>>

\* The server process dies, or is cancelled, with every handler in it; the
\* connections not yet accepted are those of the restarted process.
Crash ==
  /\ \E c \in Conns : Open(c)
  /\ state' = [c \in Conns |-> IF Open(c) THEN "closed" ELSE state[c]]
  /\ pc' = [c \in Conns |-> IF Open(c) THEN "done" ELSE pc[c]]
  /\ req' = [c \in Conns |-> None]
  /\ row' = [c \in Conns |-> None]
  /\ hit' = [c \in Conns |-> FALSE]
  /\ frags' = [c \in Conns |-> 0]
  /\ CrashRollback
  /\ UNCHANGED <<client, user, expiry, log, now, hist, shown>>

Tick ==
  /\ now < MaxTime
  /\ now' = now + 1
  /\ UNCHANGED <<dbVars, handlerVars, hist, shown>>

AllClosed ==
  /\ \A c \in Conns : state[c] = "closed"
  /\ UNCHANGED vars

-----------------------------------------------------------------------------
\* The steps a handler takes without waiting for its client.
HandlerStep(c) ==
  \/ Authenticate(c) \/ SessionExecute(c) \/ SessionCommit(c) \/ AuthOk(c)
  \/ GetRead(c) \/ GetDone(c)
  \/ PutRead(c) \/ PutCheck(c) \/ PutExecute(c) \/ PutCommit(c) \/ PutDone(c)
  \/ BusyTimeout(c)

FrameStep(c) ==
  \/ \E f \in Frames :
       \/ Hello(c, f) \/ Auth(c, f) \/ Ping(c, f) \/ Bye(c, f)
       \/ VaultGet(c, f) \/ VaultPut(c, f)
  \/ PutFragment(c)

Next ==
  \/ \E c \in Conns :
       \/ Accept(c) \/ FrameStep(c) \/ HandlerStep(c)
       \/ FragmentTimeout(c) \/ ReadEnds(c) \/ HandlerFails(c)
  \/ Crash
  \/ Tick
  \/ AllClosed

Spec == Init /\ [][Next]_vars

\* The event loop runs every ready coroutine and the database threads finish.
\* A handler waiting for the write lock either gets it or times out, so weak
\* fairness is enough.
FairSpec == Spec /\ \A c \in Conns : WF_vars(HandlerStep(c))

-----------------------------------------------------------------------------
\* Where a handler can be, and what it holds there.

AuthPcs == {"auth", "session_execute", "session_commit", "session_done"}
GetPcs == {"get_read", "get_done"}
PutPcs == {"put_read", "put_check", "put_execute", "put_commit", "put_done"}

ControlOk ==
  \A c \in Conns :
    /\ state[c] = "closed" <=> pc[c] = "done"
    /\ state[c] \in {"new", "GREETING"} => pc[c] = "read"
    /\ state[c] = "AUTHENTICATING" => pc[c] \in {"read"} \cup AuthPcs
    /\ state[c] = "ESTABLISHED" => pc[c] \in {"read"} \cup GetPcs \cup PutPcs
    /\ state[c] \in {"AUTHENTICATING", "ESTABLISHED"} => client[c] \in Clients
    /\ state[c] = "ESTABLISHED" \/ pc[c] \in AuthPcs \ {"auth"} => user[c] \in Users
    /\ pc[c] \in AuthPcs => req[c] \in AuthReq
    /\ pc[c] \in GetPcs => req[c] \in GetReq
    /\ pc[c] \in PutPcs => req[c] \in PutReq

-----------------------------------------------------------------------------
\* Properties.

Replied(c, i, type) == log[c][i].rep.type = type
Versioned(c, i) == log[c][i].rep.type \in {"VAULT_DATA", "VAULT_ACK"}

\* The stored row is the last accepted PUT and its version counts them all, so
\* no accepted PUT is skipped, applied twice or half applied (update_vault).
RowIsLastPut ==
  \A v \in Vaults :
    LET n == Len(hist[v]) IN
      vaults[v] = IF n = 0 THEN None
                  ELSE [user |-> hist[v][n].user, version |-> n, blob |-> hist[v][n].blob]

\* Once a vault id is taken every accepted PUT of it is its owner's, also when
\* two users race to create it (server.py:613-625, database.py:192-193).
OneOwner ==
  \A v \in Vaults : \A i, j \in DOMAIN hist[v] : hist[v][i].user = hist[v][j].user

\* VAULT_ACK(n) answers a PUT with base n - 1, and the committed version n is
\* that very PUT, through lost races, failed commits and crashes.
AckTrue(c, q, r) ==
  /\ r.vault = q.vault
  /\ r.version = q.base + 1
  /\ r.version \in DOMAIN hist[r.vault]
  /\ hist[r.vault][r.version] = [by |-> c, user |-> user[c], blob |-> q.blob]
AckIsCommitted ==
  \A c \in Conns : \A i \in DOMAIN log[c] :
    Replied(c, i, "VAULT_ACK") => AckTrue(c, log[c][i].req, log[c][i].rep)

\* No version is acknowledged twice, on one connection or on two.
OneAckPerVersion ==
  \A c, d \in Conns : \A i \in DOMAIN log[c], j \in DOMAIN log[d] :
    /\ Replied(c, i, "VAULT_ACK") /\ Replied(d, j, "VAULT_ACK")
    /\ log[c][i].rep = log[d][j].rep
    => c = d /\ i = j

\* VAULT_DATA carries a version and the blob committed under it, of a vault of
\* the user authenticated on the connection.
DataTrue(c, r) ==
  /\ r.version \in DOMAIN hist[r.vault]
  /\ hist[r.vault][r.version].user = user[c]
  /\ hist[r.vault][r.version].blob = r.blob
DataIsCommitted ==
  \A c \in Conns : \A i \in DOMAIN log[c] :
    Replied(c, i, "VAULT_DATA") => DataTrue(c, log[c][i].rep)

\* On a connection the versions told of a vault never go back, a VAULT_ACK is
\* newer than all told before it, and a vault once told is found again.
MonotonicReplies ==
  \A c \in Conns : \A i, j \in DOMAIN log[c] :
    /\ i < j /\ Versioned(c, i)
    /\ log[c][j].req.type \in {"VAULT_GET", "VAULT_PUT"}
    /\ log[c][j].req.vault = log[c][i].rep.vault
    => /\ log[c][j].rep # ErrorReply("NOT_FOUND")
       /\ Versioned(c, j) => log[c][j].rep.version >= log[c][i].rep.version
       /\ Replied(c, j, "VAULT_ACK") => log[c][j].rep.version > log[c][i].rep.version

\* The token of every AUTH_OK a client may have received is in the database,
\* with that client, user and expiry, whatever fails afterwards.
TokenTrue(c, r) ==
  sessions[c] = [user |-> user[c], client |-> client[c], expiry |-> r.expiry]
TokenIsStored ==
  \A c \in Conns : \A i \in DOMAIN log[c] :
    Replied(c, i, "AUTH_OK") => TokenTrue(c, log[c][i].rep)

\* Every session goes back, through any chain of refreshes, to a login of the
\* same user from the same client with all the factors the user needs.
Proves(p, u, k) ==
  /\ p.user = u
  /\ p.client = k
  /\ "hmac" \in p.factors
  /\ u \in TotpUsers => "totp" \in p.factors
Backed(u, k) == \E p \in shown : Proves(p, u, k)
SessionsBackedByLogin ==
  \A t \in Conns : sessions[t] # None => Backed(sessions[t].user, sessions[t].client)

\* A frame that was read is answered or its connection ends: no handler waits
\* for ever for the database or for another handler.
Answered ==
  \A c \in Conns : \A n \in 0..MaxReplies :
    (Open(c) /\ pc[c] # "read" /\ Len(log[c]) = n) ~> (Len(log[c]) > n \/ state[c] = "closed")

\* The write lock is always given back.
WriteLockReleased == (txn # None) ~> (txn = None)

\* SecVault_etap2.md:207 (A3): a PUT under an expired token is refused.
AckedWhileValid ==
  [][\A c \in Conns :
       PutDone(c) /\ PutReply(c).type = "VAULT_ACK" => sessions[c].expiry > now]_vars

\* Handlers, database and crashes together implement the versioned vault.
Reads ==
  {[user |-> user[x[1]], vault |-> log[x[1]][x[2]].rep.vault,
    version |-> log[x[1]][x[2]].rep.version, blob |-> log[x[1]][x[2]].rep.blob] :
     x \in {y \in Conns \X (1..MaxReplies) :
              y[2] \in DOMAIN log[y[1]] /\ Replied(y[1], y[2], "VAULT_DATA")}}
Acks ==
  {[by |-> x[1], vault |-> log[x[1]][x[2]].rep.vault, version |-> log[x[1]][x[2]].rep.version] :
     x \in {y \in Conns \X (1..MaxReplies) :
              y[2] \in DOMAIN log[y[1]] /\ Replied(y[1], y[2], "VAULT_ACK")}}

VV == INSTANCE VersionedVault WITH log <- hist, read <- Reads, acked <- Acks
ImplementsVersionedVault == VV!Spec

-----------------------------------------------------------------------------
\* Why the safety properties are invariant: what each handler knows while it
\* waits.

\* The write lock belongs to a handler between execute and commit, and the
\* transaction is what that handler asked for.
SessionPending(c) ==
  pc[c] = "session_commit" =>
    /\ txn # None /\ txn.by = c
    /\ txn.vaults = vaults
    /\ txn.sessions = [sessions EXCEPT ![c] =
         [user |-> user[c], client |-> client[c], expiry |-> expiry[c]]]
PutPending(c) ==
  pc[c] = "put_commit" =>
    /\ txn # None /\ txn.by = c
    /\ txn.sessions = sessions
    /\ hit[c] <=> UpsertHits(req[c].vault, user[c], NewVersion(c))
    /\ txn.vaults = IF hit[c]
                    THEN [vaults EXCEPT ![req[c].vault] =
                            [user |-> user[c], version |-> NewVersion(c), blob |-> req[c].blob]]
                    ELSE vaults
TxnOk ==
  /\ txn # None => pc[txn.by] \in {"session_commit", "put_commit"}
  /\ \A c \in Conns : SessionPending(c) /\ PutPending(c)

\* A row in a handler's hands was committed, though it may be old.
RowWasCommitted ==
  \A c \in Conns : row[c] # None =>
    /\ pc[c] \in {"get_done", "put_check", "put_execute", "put_commit", "put_done"}
    /\ row[c].version \in DOMAIN hist[req[c].vault]
    /\ hist[req[c].vault][row[c].version].user = row[c].user
    /\ hist[req[c].vault][row[c].version].blob = row[c].blob

\* A PUT that passed the checks extends the version its client named.
PutWasChecked ==
  \A c \in Conns : pc[c] \in {"put_execute", "put_commit", "put_done"} =>
    ~ForeignRow(c) /\ req[c].base = CurrentVersion(c)

\* A PUT whose upsert hit is in the history, and not yet acknowledged.
PutIsDone ==
  \A c \in Conns : pc[c] = "put_done" /\ hit[c] =>
    /\ NewVersion(c) \in DOMAIN hist[req[c].vault]
    /\ hist[req[c].vault][NewVersion(c)] = [by |-> c, user |-> user[c], blob |-> req[c].blob]
    /\ \A i \in DOMAIN log[c] : log[c][i].rep # PutReply(c)

\* A row in a handler's hands is not older than any version its client was told.
RowPcs == {"get_done", "put_check", "put_execute", "put_commit", "put_done"}
RowIsRecent ==
  \A c \in Conns : \A i \in DOMAIN log[c] :
    pc[c] \in RowPcs /\ Versioned(c, i) /\ log[c][i].rep.vault = req[c].vault =>
      /\ row[c] # None /\ ~ForeignRow(c)
      /\ row[c].version >= log[c][i].rep.version

\* Only a challenge is answered before the session is established.
EarlyReplies ==
  \A c \in Conns : state[c] \in {"new", "GREETING", "AUTHENTICATING"} =>
    \A i \in DOMAIN log[c] : Replied(c, i, "CHALLENGE")

SessionIsDone ==
  \A c \in Conns : pc[c] = "session_done" =>
    sessions[c] = [user |-> user[c], client |-> client[c], expiry |-> expiry[c]]

\* A handler creates a session only for a user and client that have proved themselves.
HandlersBacked ==
  \A c \in Conns : pc[c] \in {"session_execute", "session_commit"} => Backed(user[c], client[c])

SafetyInv ==
  /\ TxnOk /\ RowWasCommitted /\ PutWasChecked /\ PutIsDone /\ EarlyReplies /\ SessionIsDone
  /\ RowIsLastPut /\ OneOwner /\ AckIsCommitted /\ OneAckPerVersion /\ DataIsCommitted /\ TokenIsStored
=============================================================================
