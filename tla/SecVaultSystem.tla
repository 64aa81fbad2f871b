---------------------------- MODULE SecVaultSystem ----------------------------
(***************************************************************************)
(* Clients and server together: the devices of module SecVault run against *)
(* the connection handlers, the database and the crashes of module         *)
(* SVPServer instead of a server that answers in one step.                 *)
(*                                                                         *)
(* A request is read, checked, executed, committed and answered by its     *)
(* handler in separate steps, on a TLS connection the device may have left *)
(* meanwhile.  Client and server each keep their own end of a connection:  *)
(* the server may have closed it although the device has not noticed, and  *)
(* the device may be gone while the handler is still working.  Tokens do   *)
(* not expire here, users know their passwords, and the vault is the       *)
(* user's only one.                                                        *)
(***************************************************************************)
EXTENDS Naturals, Sequences, FiniteSets

CONSTANTS
  Devices, Ids, Vals, Absent, None, Torn, Commands, MaxMoves, MaxFaults,  \* as in SecVault
  Conns,    \* TLS connections
  User,     \* the owner of the devices
  VaultId   \* sha256("svp-vault:" + login)

VARIABLES
  \* the devices
  live, late, link, chan, pc, cmd, tries, version, local, dirty, cache, now, used, seen,
  gone, trouble, moves, faults,
  \* the server; await and clock are SVPServer's pc and now
  vaults, sessions, txn, state, await, client, user, expiry, req, row, hit, frags, log,
  clock, hist, shown,
  \* between them
  conn,     \* the connection of cli.conn while the device believes it is up
  token,    \* cli.session_token, named after the connection that issued it
  unread,   \* a PUT in the stream of a connection its device has left
  decided   \* history: the answer that is settled before it is written

deviceVars == <<live, late, link, chan, pc, cmd, tries, version, local, dirty, cache, now,
                used, seen, gone, trouble, moves, faults>>
serverVars == <<vaults, sessions, txn, state, await, client, user, expiry, req, row, hit,
                frags, log, clock, hist, shown>>
vars == <<deviceVars, serverVars, conn, token, unread, decided>>

-----------------------------------------------------------------------------
\* The stored vaults; the blob of a PUT stands for what the device encrypted.
Versions == [n \in DOMAIN hist[VaultId] |-> hist[VaultId][n].blob]

\* The devices' own steps, on what they see of the world.
D == INSTANCE SecVault WITH versions <- Versions, MaxTime <- 0

S == INSTANCE SVPServer WITH
  Users <- {User}, Names <- {User}, TotpUsers <- {}, Clients <- Devices, Vaults <- {VaultId},
  Blobs <- D!Version, TTL <- 1, Frames <- {}, MaxReplies <- 4 * MaxMoves, MaxFrags <- 0,
  MaxTime <- 0, pc <- await, now <- clock

Init ==
  /\ S!Init /\ D!Init
  /\ conn = [d \in Devices |-> None]
  /\ token = [d \in Devices |-> None]
  /\ unread = [c \in Conns |-> None]
  /\ decided = [d \in Devices |-> None]

ASSUME SystemAssumption ==
  /\ {MaxMoves, MaxFaults} \subseteq Nat
  /\ Absent \notin D!Entry
  /\ None \notin Conns \cup Devices \cup {User, VaultId} \cup D!Version \cup D!Message
  /\ None \notin S!VaultRow \cup S!SessionRow \cup S!Txn

-----------------------------------------------------------------------------
\* Requests and replies as the two sides see them.

Frame(d) ==
  CASE chan[d].type \in {"LOGIN", "REFRESH"} ->
         [type |-> "AUTH", user |-> User,
          factors |-> IF chan[d].type = "LOGIN" THEN {"hmac"} ELSE {},
          refresh |-> IF chan[d].type = "REFRESH" THEN token[d] ELSE None]
    [] chan[d].type = "GET" -> [type |-> "VAULT_GET", vault |-> VaultId]
    [] chan[d].type = "PING" -> [type |-> "PING"]

PutFrame(m) ==
  [type |-> "VAULT_PUT", vault |-> VaultId, base |-> m.base,
   blob |-> [by |-> m.by, content |-> m.content, seen |-> m.seen, gone |-> m.gone]]

Message(rep) ==
  CASE rep.type = "AUTH_OK" -> [type |-> "AUTH_OK", version |-> rep.vault_version]
    [] rep.type = "VAULT_DATA" ->
         [type |-> "DATA", version |-> rep.version, content |-> rep.blob.content]
    [] rep.type = "VAULT_ACK" -> [type |-> "ACK", version |-> rep.version]
    [] rep.type = "ERROR" -> [type |-> rep.code]
    [] rep.type = "PONG" -> [type |-> "PONG"]

Holders(c) == {d \in Devices : conn[d] = c}

-----------------------------------------------------------------------------
\* The server's steps.

\* What the last reply on c, if there is a new one, tells its device.
Deliver(c) ==
  LET new == log'[c] # log[c]
      rep == log'[c][Len(log'[c])].rep
  IN  /\ chan' = [d \in Devices |-> IF new /\ conn[d] = c THEN Message(rep) ELSE chan[d]]
      /\ decided' = [d \in Devices |-> IF new /\ conn[d] = c THEN None ELSE decided[d]]
      /\ live' = [d \in Devices |-> live[d] \/ (new /\ conn[d] = c /\ rep.type = "AUTH_OK")]

\* The answer is fixed here, and written by a later step.
Settle(c, reply) ==
  decided' = [d \in Devices |-> IF conn[d] = c THEN Message(reply) ELSE decided[d]]

ReadRequest(c, d) ==
  /\ conn[d] = c /\ chan[d] # None
  /\ \/ /\ chan[d].type \in {"LOGIN", "REFRESH"}
        /\ S!Auth(c, Frame(d))
     \/ chan[d].type = "GET" /\ S!VaultGet(c, Frame(d))
     \/ chan[d].type = "PING" /\ S!Ping(c, Frame(d))
     \/ chan[d].type = "PUT" /\ S!VaultPut(c, PutFrame(chan[d]))
  /\ Deliver(c)
  /\ UNCHANGED unread

ReadHello(c, d) ==
  /\ conn[d] = c /\ chan[d] # None
  /\ chan[d].type \in {"LOGIN", "REFRESH"}
  /\ S!Hello(c, [type |-> "HELLO", client |-> d])
  /\ UNCHANGED <<live, chan, decided, unread>>

ReadLate(c) ==
  /\ unread[c] # None
  /\ S!VaultPut(c, PutFrame(unread[c]))
  /\ unread' = [unread EXCEPT ![c] = None]
  /\ UNCHANGED <<live, chan, decided>>

Handle(c) ==
  \/ /\ \/ S!Authenticate(c) \/ S!SessionExecute(c) \/ S!SessionCommit(c) \/ S!AuthOk(c)
        \/ S!GetDone(c)
        \/ S!PutRead(c) \/ S!PutCheck(c) \/ S!PutExecute(c) \/ S!PutDone(c)
     /\ Deliver(c)
     /\ UNCHANGED unread
  \/ /\ S!GetRead(c)
     /\ Settle(c, S!GetReply(c)')
     /\ UNCHANGED <<live, chan, unread>>

\* The commit of an upsert that hit stores a version.
PutCommit(c) ==
  /\ S!PutCommit(c)
  /\ IF hit[c]
     THEN D!Accept(req[c].blob, Devices \ Holders(c)) /\ Settle(c, S!PutReply(c))
     ELSE UNCHANGED <<trouble, decided>>
  /\ UNCHANGED <<live, chan, unread>>

\* The read or the handler ends, for any of SVPServer's reasons.  A device still
\* on the connection finds out later.
HandlerEnds(c) ==
  /\ S!ReadEnds(c) \/ S!BusyTimeout(c) \/ S!HandlerFails(c)
  /\ unread' = [unread EXCEPT ![c] = None]
  /\ UNCHANGED <<live, chan, decided>>

Crash ==
  /\ S!Crash
  /\ unread' = [c \in Conns |-> None]
  /\ UNCHANGED <<live, chan, decided>>

\* What a server step leaves alone.
devicesOwn == <<late, link, pc, cmd, tries, version, local, dirty, cache, now, used, seen,
                gone, moves, faults>>

\* A handler goes on.
Work(c) ==
  /\ \/ /\ \/ \E d \in Devices : ReadHello(c, d) \/ ReadRequest(c, d)
           \/ ReadLate(c) \/ Handle(c)
        /\ UNCHANGED trouble
     \/ PutCommit(c)
  /\ UNCHANGED <<devicesOwn, conn, token>>

\* A handler or all of them end.
End ==
  /\ Crash \/ \E c \in Conns : HandlerEnds(c)
  /\ UNCHANGED <<devicesOwn, trouble, conn, token>>

\* SVPFormatError closes the connection of a device that asks for an account.
ReadRegister(d) ==
  /\ conn[d] # None
  /\ S!ReadEnds(conn[d])
  /\ D!ServeRegister(d)
  /\ conn' = [conn EXCEPT ![d] = None]
  /\ UNCHANGED <<token, unread, decided>>

-----------------------------------------------------------------------------
\* The devices' steps.

\* TLS connect and accept.  Connections not used yet are all alike.
Fresh == {c \in Conns : state[c] = "new"}
Connect(d) ==
  /\ Fresh # {}
  /\ LET c == CHOOSE c \in Fresh : TRUE IN
       S!Accept(c) /\ conn' = [conn EXCEPT ![d] = c]
  /\ D!StartConnect(d) \/ D!Connect(d)
  /\ UNCHANGED <<token, unread, decided>>

TakeToken(d) ==
  /\ UNCHANGED serverVars
  /\ D!LoggedIn(d) \/ D!Refreshed(d)
  /\ token' = [token EXCEPT ![d] = conn[d]]
  /\ UNCHANGED <<conn, unread, decided>>

\* What a device does by itself; when it drops its connection object or ends, the
\* connection is closed and the token forgotten.
Settled(d) ==
  /\ conn' = [conn EXCEPT ![d] = IF link'[d] = "up" THEN @ ELSE None]
  /\ token' = [token EXCEPT ![d] = IF pc'[d] = "off" THEN None ELSE @]
  /\ UNCHANGED <<unread, decided>>

Run(d) ==
  /\ UNCHANGED serverVars
  /\ \/ D!FirstFetch(d) \/ D!OpenCache(d) \/ D!SaveCache(d)
     \/ D!Pong(d) \/ D!PingFails(d) \/ D!PutAcked(d) \/ D!PutConflict(d) \/ D!ConflictFetched(d)
     \/ D!PullFetched(d) \/ D!PullNotFound(d) \/ D!CommandBreaks(d) \/ D!StartFails(d)
  /\ Settled(d)

\* What users ask for, and what fails on the device.
Happen(d) ==
  /\ UNCHANGED serverVars
  /\ D!UserStep(d) \/ D!ConnectFails(d) \/ D!SaveFails(d)
  /\ Settled(d)

\* The connection breaks or the device is killed.  A PUT in the hands of a
\* handler goes on being handled; one that is not read yet is lost or stays in
\* the stream; one that is committed is not late any more.
Break(d) ==
  /\ UNCHANGED serverVars
  /\ D!LinkBreaks(d) \/ D!Kill(d)
  /\ \/ /\ D!Asked(d, "PUT") /\ state[conn[d]] = "ESTABLISHED" /\ await[conn[d]] = "read"
        /\ late' = late \cup {chan[d]}
        /\ unread' = [unread EXCEPT ![conn[d]] = chan[d]]
     \/ /\ D!Asked(d, "PUT") /\ state[conn[d]] = "ESTABLISHED" /\ await[conn[d]] # "read"
        /\ decided[d] = None
        /\ late' = late \cup {chan[d]}
        /\ UNCHANGED unread
     \/ /\ D!Asked(d, "PUT") /\ state[conn[d]] = "ESTABLISHED"
           => await[conn[d]] = "read" \/ decided[d] # None
        /\ UNCHANGED <<late, unread>>
  /\ conn' = [conn EXCEPT ![d] = None]
  /\ token' = [token EXCEPT ![d] = IF pc'[d] = "off" THEN None ELSE @]
  /\ decided' = [decided EXCEPT ![d] = None]

-----------------------------------------------------------------------------
\* Bound: every connection the server gives up under a device is paid for when
\* the device finds out.
Abandoned == {d \in Devices : conn[d] # None /\ state[conn[d]] = "closed"}
Affordable == faults + Cardinality(Abandoned) <= MaxFaults

Quiet ==
  /\ \A d \in Devices : pc[d] \in D!Prompts \cup {"off"}
  /\ UNCHANGED vars

DeviceProgress(d) == Connect(d) \/ TakeToken(d) \/ Run(d)

Next ==
  \/ /\ \/ \E c \in Conns : Work(c)
        \/ End
        \/ \E d \in Devices : ReadRegister(d) \/ DeviceProgress(d) \/ Happen(d) \/ Break(d)
     /\ Affordable'
  \/ Quiet

Spec == Init /\ [][Next]_vars

-----------------------------------------------------------------------------
\* Properties.

\* What the devices may think the server has done: a settled answer is as good
\* as written.
Answered == [d \in Devices |-> IF decided[d] # None THEN decided[d] ELSE chan[d]]

V == INSTANCE SecVault WITH versions <- Versions, chan <- Answered, MaxTime <- 0

\* Handlers, database, lost connections and crashes together are a server that
\* answers every request in one step, as the devices' protocol assumes.
ImplementsSecVault == V!Spec

\* The token a device would present to refresh its session is in the database for
\* that device and user, whatever was lost or crashed since (create_session,
\* refresh_session).
TokenWorks ==
  \A d \in Devices : token[d] # None =>
    /\ sessions[token[d]] # None
    /\ sessions[token[d]].user = User
    /\ sessions[token[d]].client = d
-----------------------------------------------------------------------------
\* Why the properties hold: how handlers, devices and what is under way belong
\* together.

LinkTypes ==
  /\ conn \in [Devices -> Conns \cup {None}]
  /\ token \in [Devices -> Conns \cup {None}]
  /\ unread \in [Conns -> D!PutRequest \cup {None}]
  /\ decided \in [Devices -> D!Message \cup {None}]
  /\ chan \in [Devices -> D!Message \cup {None}]

\* A device has a connection of its own while it believes it has one.
LinkOk(d) ==
  /\ link[d] = "up" <=> conn[d] # None
  /\ conn[d] # None =>
       /\ state[conn[d]] # "new"
       /\ unread[conn[d]] = None
       /\ state[conn[d]] \in {"AUTHENTICATING", "ESTABLISHED"} => client[conn[d]] = d
       /\ \A e \in Devices : conn[e] = conn[d] => e = d

\* A handler works on what the device on its connection waits for, and the answer
\* to that is settled once it can no longer change.
Settling(c) ==
  CASE await[c] = "get_done" -> Message(S!GetReply(c))
    [] await[c] = "put_done" /\ hit[c] -> Message(S!PutReply(c))
    [] OTHER -> None
RequestOk(d) ==
  /\ conn[d] # None =>
       LET c == conn[d]
       IN  /\ await[c] \in S!AuthPcs =>
                D!Asked(d, "LOGIN") \/ D!Asked(d, "REFRESH")
           /\ await[c] \in S!AuthPcs => req[c] = Frame(d)
           /\ await[c] \in S!GetPcs => D!Asked(d, "GET")
           /\ await[c] \in S!PutPcs => D!Asked(d, "PUT") /\ req[c] = PutFrame(chan[d])
           /\ await[c] # "done" => decided[d] = Settling(c)
  /\ decided[d] # None => conn[d] # None /\ (D!Asked(d, "GET") \/ D!Asked(d, "PUT"))

\* A PUT that is handled for nobody is one that came late.
LateOk(c) ==
  /\ unread[c] # None => unread[c] \in late /\ state[c] # "new"
  /\ await[c] \in S!PutPcs \ {"put_done"} =>
       (\E d \in Devices : conn[d] = c) \/ (\E r \in late : req[c] = PutFrame(r))

\* The row a PUT is checked against is not older than what the device built on, and
\* a PUT that is refused was beaten.
BaseOk(c) ==
  /\ await[c] = "put_check" => req[c].base <= S!CurrentVersion(c)
  /\ await[c] = "put_done" /\ ~hit[c] => req[c].base < Len(Versions)

\* A connection issues its token once, sessions do not expire, and a device has one
\* as long as it runs online.
SessionOk(c) ==
  /\ state[c] \in {"new", "GREETING", "AUTHENTICATING"} /\ await[c] # "session_done" =>
       sessions[c] = None
  /\ sessions[c] # None => sessions[c].expiry = 1
  /\ await[c] \in {"session_execute", "session_commit", "session_done"} => expiry[c] = 1
Stored(c, d) ==
  sessions[c] # None /\ sessions[c].user = User /\ sessions[c].client = d
HasToken(d) ==
  /\ D!Asked(d, "AUTH_OK") => live[d] /\ Stored(conn[d], d)
  /\ pc[d] \in {"first_fetch", "connect", "repl"} \cup D!Saving \cup D!CommandPcs =>
       token[d] # None /\ live[d]

\* All that handlers, devices and connections know of each other, in the middle of
\* any exchange: what the lost connection, the late PUT and the crash must not
\* disturb.
SystemInv ==
  /\ LinkTypes /\ clock = 0 /\ TokenWorks
  /\ \A d \in Devices : LinkOk(d) /\ RequestOk(d) /\ HasToken(d)
  /\ \A c \in Conns : LateOk(c) /\ BaseOk(c) /\ SessionOk(c)
=============================================================================
