------------------------------- MODULE SVPSession -------------------------------
(***************************************************************************)
(* A client that starts, logs in, reconnects, refreshes its session and    *)
(* moves vaults, with the bytes it exchanges with the server and the keys  *)
(* the frames are signed with: class Client (client-py/svpclient.py) over  *)
(* transport.py, and handle_client, one connection after the other.        *)
(* SecVault and SVPServer take for granted that each side understands the  *)
(* other; this module says why.  Also the bytes of the cache file.         *)
(*                                                                         *)
(* A handler whose client has dropped the connection is not followed any   *)
(* further (SVPServer does); a session key is the token and nonce_c it is  *)
(* derived from (HKDF).                                                    *)
(***************************************************************************)
EXTENDS SVPWire

CONSTANTS
  Dummy,      \* DUMMY_MAC_KEY
  Blobs,      \* encrypted vaults
  Name,       \* the user's login, in bytes
  TotpCodes,  \* what login is given: a code, or None
  MaxConns,   \* bound: connections ever opened
  MaxAsked    \* bound: vault requests and pings ever sent

\* What is sent has room in its fields, and all but a vault in one frame; nonces
\* and tokens are told apart by a byte.
ASSUME SessionAssumption ==
  /\ None \notin Seq(Nat)
  /\ \A blob \in Blobs : blob \in Seq(Byte) /\ Len(blob) \in Fits(4)
  /\ Name \in Seq(Byte) /\ Len(Name) \in 1..MaxName
  /\ \A code \in TotpCodes : code \in Fits(4) \cup {None}
  /\ MaxConns \in Nat /\ MaxConns < Base
  /\ MaxAsked \in Nat /\ Base + MaxAsked < Power[8]
  /\ KeyLen \in Fits(2)
  /\ KeyLen + IdLen + 8 <= MaxPayload
  /\ MaxName + 2 * KeyLen + 7 <= MaxPayload
  /\ KeyLen + 18 <= MaxPayload

VARIABLES
  \* The client's memory.
  step,      \* "off", what it waits for, or what it does next
  up,        \* cli.conn is there and alive
  process,   \* number of the client process, which names its client_id
  nonce,     \* nonce_c
  token,     \* session_token
  kmac,      \* k_mac
  base,      \* vault_version
  parts,     \* fetch_vault: the payloads received so far, or None
  \* The server: the handler of the current connection, and the database.
  state, hnonce, hclient, hkey, buffer,
  sessions,  \* <<token, client_id>>
  lapsed,    \* tokens that have expired
  stored,    \* the vault's version and blob, or None
  \* Between them.
  toServer, toClient, conns,
  \* What each side meant, and what the other made of it.
  asked, heard, told, learnt, askedSoFar

memory == <<process, nonce, token, kmac, base>>
handler == <<state, hnonce, hclient, hkey, buffer>>
tables == <<sessions, lapsed, stored>>
queues == <<toServer, toClient>>
vars == <<step, up, memory, parts, handler, tables, queues, conns, asked, heard, told, learnt,
          askedSoFar>>

Vault == Repeated(1, IdLen)
NotFound == 8   \* ERR_NOT_FOUND, ERR_CONFLICT, ERR_AUTH_FAILED
Conflict == 10
AuthFailed == 6
Waiting == {"challenge", "auth", "first_data", "reply"}

-----------------------------------------------------------------------------
\* Both sides send; a connection that is gone swallows the frames.

Ask(key, m) ==
  /\ toServer' = toServer \o Frames(key, m.type, ClientPayload(m))
  /\ asked' = m
  /\ heard' = None

Tell(key, m) ==
  /\ toClient' = IF up THEN toClient \o Frames(key, m.type, ServerPayload(m)) ELSE toClient
  /\ told' = m

\* HMAC(K_auth, nonce_c || nonce_s || login): told apart by the nonces.
Proof(nc, ns) == [i \in 1..KeyLen |-> IF i % 2 = 1 THEN nc[i] ELSE ns[i]]
ServerNonce == Repeated(Base - conns, KeyLen)

-----------------------------------------------------------------------------
\* The client.

\* connect and HELLO of a new connection.  random_bytes: no nonce comes twice.
Open(by) ==
  /\ conns < MaxConns
  /\ conns' = conns + 1
  /\ up' = TRUE
  /\ step' = "challenge"
  /\ nonce' = Repeated(conns + 1, KeyLen)
  /\ kmac' = None
  /\ parts' = None
  /\ toClient' = <<>>
  /\ state' = "GREETING"
  /\ buffer' = None
  /\ LET hello == [type |-> "HELLO", nonce |-> nonce', client |-> Repeated(by, IdLen), time |-> conns]
     IN  /\ toServer' = Frames(Dummy, "HELLO", ClientPayload(hello))
         /\ asked' = hello
         /\ heard' = None
  /\ UNCHANGED <<hnonce, hclient, hkey, tables, told, learnt, askedSoFar>>

\* main of a new process.
Start ==
  /\ step = "off"
  /\ Open(process + 1)
  /\ process' = process + 1
  /\ token' = None
  /\ base' = 0

\* ensure_session when the ping has failed.
Reconnect ==
  /\ step = "idle" /\ ~up
  /\ Open(process)
  /\ UNCHANGED <<process, token, base>>

ClientKey == IF step \in {"challenge", "auth"} THEN Dummy ELSE kmac
Wanted ==
  CASE step = "challenge" -> {"CHALLENGE"}
    [] step = "auth" -> {"AUTH_OK", "AUTH_FAIL"}
    [] step = "first_data" -> {"VAULT_DATA", "ERROR"}
    [] step = "reply" ->
         CASE asked.type = "VAULT_GET" -> {"VAULT_DATA", "ERROR"}
           [] asked.type = "VAULT_PUT" -> {"VAULT_ACK", "ERROR"}
           [] asked.type = "PING" -> {"PONG"}

\* Mutant: every fragment is taken to begin with the vault's id and version.
GatheredHeaderEach(f) == IF parts = None THEN f.payload ELSE parts \o From(f.payload, IdLen + 8)

Gathered(f) == IF parts = None THEN f.payload ELSE parts \o f.payload
MoreToCome(f) ==
  f.type = "VAULT_DATA" /\ "FRAGMENTED" \in f.flags /\ "LAST_FRAG" \notin f.flags

\* recv_frame checks no MAC without a key.
Readable(f) == ShortEnough(f) /\ (ClientKey = None \/ Authentic(f, ClientKey))
Welcome(f) ==
  /\ Readable(f)
  /\ f.type \in Wanted
  /\ parts # None => f.type = "VAULT_DATA" /\ "FRAGMENTED" \in f.flags
  /\ MoreToCome(f) \/ ClientAccepts(f.type, Gathered(f))

\* The next frame, taken from the queue.
Receives(f) ==
  /\ step \in Waiting /\ up
  /\ toClient # <<>>
  /\ f = Head(toClient)
  /\ toClient' = Tail(toClient)

Learn(f) == learnt' = ClientParse(f.type, Gathered(f))

ReadFragment ==
  /\ Receives(Head(toClient)) /\ Welcome(Head(toClient))
  /\ MoreToCome(Head(toClient))
  /\ parts' = Gathered(Head(toClient))
  /\ UNCHANGED <<step, up, memory, handler, tables, toServer, conns, asked, heard, told, learnt,
                 askedSoFar>>

\* The answer is whole.
Answered(type) ==
  LET f == Head(toClient)
  IN  /\ Receives(f) /\ Welcome(f) /\ f.type = type /\ ~MoreToCome(f)
      /\ Learn(f)
      /\ parts' = None
      /\ UNCHANGED <<up, process, nonce, handler, tables, conns, told>>

\* login, or refresh_session when there is a token.
SendAuth ==
  /\ Answered("CHALLENGE")
  /\ step' = "auth"
  /\ \/ /\ token = None
        /\ \E totp \in TotpCodes :
             Ask(Dummy, [type |-> "AUTH", name |-> Name, hmac |-> Proof(nonce, learnt'.nonce),
                         token |-> None, totp |-> totp])
     \/ /\ token # None
        /\ Ask(Dummy, [type |-> "AUTH", name |-> Name, hmac |-> Repeated(0, KeyLen),
                       token |-> token, totp |-> None])
  /\ UNCHANGED <<token, kmac, base, askedSoFar>>

\* Mutant: the key is not derived again from the new token.
SessionKeyOldToken(t) == <<IF token = None THEN t ELSE token, nonce>>

\* _parse_auth_ok and _compute_kmac.
SessionKey(t) == <<t, nonce>>
ReadAuthOk ==
  /\ Answered("AUTH_OK")
  /\ token' = learnt'.token
  /\ base' = learnt'.version
  /\ kmac' = SessionKey(learnt'.token)
  /\ step' = IF token = None THEN "first" ELSE "idle"
  /\ UNCHANGED <<toServer, asked, heard, askedSoFar>>

\* ensure_session gives up; the server has closed the connection.
ReadAuthFail ==
  /\ LET f == Head(toClient) IN Receives(f) /\ Welcome(f) /\ f.type = "AUTH_FAIL"
  /\ step' = IF token = None THEN "off" ELSE "idle"
  /\ up' = FALSE
  /\ UNCHANGED <<memory, parts, handler, tables, toServer, conns, asked, heard, told, learnt,
                 askedSoFar>>

\* fetch_vault, put_vault and ping, with the key of the session.
Request(m) ==
  /\ up
  /\ askedSoFar < MaxAsked
  /\ askedSoFar' = askedSoFar + 1
  /\ Ask(kmac, m)
  /\ UNCHANGED <<up, memory, parts, handler, tables, toClient, conns, told, learnt>>

AskGet ==
  /\ step \in {"first", "idle"}
  /\ step' = IF step = "first" THEN "first_data" ELSE "reply"
  /\ Request([type |-> "VAULT_GET", vault |-> Vault, known |-> base])
AskPut ==
  /\ step = "idle"
  /\ step' = "reply"
  /\ \E blob \in Blobs : Request([type |-> "VAULT_PUT", vault |-> Vault, base |-> base, blob |-> blob])
AskPing ==
  /\ step = "idle"
  /\ step' = "reply"
  /\ Request([type |-> "PING", time |-> askedSoFar])

\* The first VAULT_DATA and every VAULT_ACK are followed by save_cache.
ReadData ==
  /\ Answered("VAULT_DATA")
  /\ base' = learnt'.version
  /\ step' = IF step = "first_data" THEN "save" ELSE "idle"
  /\ UNCHANGED <<token, kmac, toServer, asked, heard, askedSoFar>>
ReadAck ==
  /\ Answered("VAULT_ACK")
  /\ base' = learnt'.version
  /\ step' = "save"
  /\ UNCHANGED <<token, kmac, toServer, asked, heard, askedSoFar>>
ReadOther ==
  /\ Answered("PONG") \/ Answered("ERROR")
  /\ step' = "idle"
  /\ UNCHANGED <<token, kmac, base, toServer, asked, heard, askedSoFar>>

\* bye sends its frame and closes; main ends.
Bye ==
  /\ step = "idle" /\ up
  /\ Ask(kmac, [type |-> "BYE"])
  /\ up' = FALSE
  /\ step' = "off"
  /\ UNCHANGED <<memory, parts, handler, tables, toClient, conns, told, learnt, askedSoFar>>

-----------------------------------------------------------------------------
\* save_cache: the blob that came, or the vault of the PUT encrypted again.

ToSave ==
  [login |-> Name, vault |-> Vault, version |-> base,
   blob |-> IF learnt.type = "VAULT_DATA" THEN learnt.blob ELSE asked.blob]
File == CacheFile(ToSave.login, ToSave.vault, ToSave.version, ToSave.blob)

SaveCache ==
  /\ step = "save"
  /\ step' = "idle"
  /\ UNCHANGED <<up, memory, parts, handler, tables, queues, conns, asked, heard, told, learnt, askedSoFar>>

-----------------------------------------------------------------------------
\* The server: handle_client.

HandlerKey == IF state = "ESTABLISHED" THEN hkey ELSE Dummy
Expected ==
  CASE state = "GREETING" -> {"HELLO"}
    [] state = "AUTHENTICATING" -> {"AUTH"}
    [] state = "ESTABLISHED" ->
         IF buffer = None THEN {"PING", "BYE", "VAULT_GET", "VAULT_PUT"} ELSE {"VAULT_PUT"}

Assembled(f) ==
  IF "FRAGMENTED" \in f.flags /\ buffer # None THEN buffer \o f.payload ELSE f.payload
MoreFragments(f) ==
  f.type = "VAULT_PUT" /\ "FRAGMENTED" \in f.flags /\ "LAST_FRAG" \notin f.flags

Accepted(f) ==
  /\ ShortEnough(f) /\ Authentic(f, HandlerKey) /\ KnownType(f)
  /\ f.type \in Expected
  /\ f.type = "VAULT_PUT" => ("LAST_FRAG" \in f.flags => "FRAGMENTED" \in f.flags)
  /\ "FRAGMENTED" \in f.flags => Len(Assembled(f)) <= MaxBlob + IdLen + 12
  /\ MoreFragments(f) \/ ServerAccepts(f.type, Assembled(f))

HandlerReads(f) ==
  /\ state # "closed"
  /\ toServer # <<>>
  /\ f = Head(toServer)
  /\ toServer' = Tail(toServer)
  /\ UNCHANGED <<step, up, memory, parts, conns, asked, learnt, askedSoFar>>

\* SVPFormatError or SVPHmacError: the connection is closed.
HandlerRefuses ==
  /\ HandlerReads(Head(toServer)) /\ ~Accepted(Head(toServer))
  /\ state' = "closed"
  /\ UNCHANGED <<hnonce, hclient, hkey, buffer, tables, toClient, heard, told>>

HandlerKeeps ==
  /\ HandlerReads(Head(toServer)) /\ Accepted(Head(toServer)) /\ MoreFragments(Head(toServer))
  /\ buffer' = Assembled(Head(toServer))
  /\ UNCHANGED <<state, hnonce, hclient, hkey, tables, toClient, heard, told>>

\* A whole message is heard.
Hears(type) ==
  LET f == Head(toServer)
  IN  /\ HandlerReads(f) /\ Accepted(f) /\ f.type = type /\ ~MoreFragments(f)
      /\ heard' = ServerParse(type, Assembled(f))

HandleHello ==
  /\ Hears("HELLO")
  /\ hnonce' = heard'.nonce
  /\ hclient' = heard'.client
  /\ state' = "AUTHENTICATING"
  /\ Tell(Dummy, [type |-> "CHALLENGE", nonce |-> ServerNonce, time |-> conns])
  /\ UNCHANGED <<hkey, buffer, tables>>

\* The HMAC of the right password, or a token of this client that has not expired.
Valid(m) ==
  IF m.token = None THEN m.hmac = Proof(hnonce, ServerNonce)
  ELSE <<m.token, hclient>> \in sessions /\ m.token \notin lapsed

HandleAuth ==
  /\ Hears("AUTH")
  /\ LET new == Repeated(conns, KeyLen)
     IN  \/ /\ Valid(heard')
            /\ sessions' = sessions \cup {<<new, hclient>>}
            /\ state' = "ESTABLISHED"
            /\ hkey' = <<new, hnonce>>
            /\ Tell(Dummy, [type |-> "AUTH_OK", token |-> new, expiry |-> conns, version |-> 0])
         \/ /\ ~Valid(heard')
            /\ state' = "closed"
            /\ Tell(Dummy, [type |-> "AUTH_FAIL", code |-> AuthFailed])
            /\ UNCHANGED <<sessions, hkey>>
  /\ UNCHANGED <<hnonce, hclient, buffer, lapsed, stored>>

HandlePing ==
  /\ Hears("PING")
  /\ Tell(hkey, [type |-> "PONG", time |-> heard'.time])
  /\ UNCHANGED <<handler, tables>>

HandleBye ==
  /\ Hears("BYE")
  /\ Tell(hkey, [type |-> "BYE"])
  /\ state' = "closed"
  /\ UNCHANGED <<hnonce, hclient, hkey, buffer, tables>>

HandleGet ==
  /\ Hears("VAULT_GET")
  /\ Tell(hkey, IF stored = None THEN [type |-> "ERROR", code |-> NotFound]
                ELSE [type |-> "VAULT_DATA", vault |-> heard'.vault, version |-> stored.version,
                      blob |-> stored.blob])
  /\ UNCHANGED <<handler, tables>>

Current == IF stored = None THEN 0 ELSE stored.version
HandlePut ==
  /\ Hears("VAULT_PUT")
  /\ buffer' = None
  /\ \/ /\ heard'.base = Current
        /\ stored' = [version |-> Current + 1, blob |-> heard'.blob]
        /\ Tell(hkey, [type |-> "VAULT_ACK", vault |-> heard'.vault, version |-> Current + 1])
     \/ /\ heard'.base # Current
        /\ Tell(hkey, [type |-> "ERROR", code |-> Conflict])
        /\ UNCHANGED stored
  /\ UNCHANGED <<state, hnonce, hclient, hkey, sessions, lapsed>>

-----------------------------------------------------------------------------
\* The environment.

\* The connection breaks, or the handler has closed it; what was under way is
\* lost.  The command that waited fails; at startup main goes on offline, which
\* needs no server, and ends.
LinkBreaks ==
  /\ up
  /\ up' = FALSE
  /\ step' = IF step \notin Waiting \cup {"first"} THEN step
             ELSE IF token = None \/ step \in {"first", "first_data"} THEN "off" ELSE "idle"
  /\ parts' = None
  /\ toServer' = <<>>
  /\ toClient' = <<>>
  /\ state' = "closed"
  /\ UNCHANGED <<memory, hnonce, hclient, hkey, buffer, tables, conns, asked, heard, told, learnt,
                 askedSoFar>>

\* Ctrl-C, or a crash.
Kill ==
  /\ step # "off"
  /\ step' = "off"
  /\ up' = FALSE
  /\ UNCHANGED <<memory, parts, handler, tables, queues, conns, asked, heard, told, learnt,
                 askedSoFar>>

Lapse ==
  /\ token # None /\ token \notin lapsed
  /\ lapsed' = lapsed \cup {token}
  /\ UNCHANGED <<step, up, memory, parts, handler, sessions, stored, queues, conns, asked, heard,
                 told, learnt, askedSoFar>>
-----------------------------------------------------------------------------
Init ==
  /\ step = "off" /\ up = FALSE /\ process = 0 /\ base = 0
  /\ nonce = None /\ token = None /\ kmac = None /\ parts = None
  /\ state = "closed" /\ hnonce = None /\ hclient = None /\ hkey = None /\ buffer = None
  /\ sessions = {} /\ lapsed = {}
  /\ stored \in {None} \cup [version : {Base - 1}, blob : {b \in Blobs : Len(b) <= MaxBlob}]
  /\ toServer = <<>> /\ toClient = <<>> /\ conns = 0
  /\ asked = None /\ heard = None /\ told = None /\ learnt = None /\ askedSoFar = 0

Next ==
  \/ Start \/ Reconnect \/ SendAuth \/ ReadAuthOk \/ ReadAuthFail
  \/ AskGet \/ AskPut \/ AskPing \/ Bye
  \/ ReadFragment \/ ReadData \/ ReadAck \/ ReadOther
  \/ SaveCache
  \/ HandlerRefuses \/ HandlerKeeps \/ HandleHello \/ HandleAuth
  \/ HandlePing \/ HandleBye \/ HandleGet \/ HandlePut
  \/ LinkBreaks \/ Kill \/ Lapse

Spec == Init /\ [][Next]_vars

-----------------------------------------------------------------------------
\* Properties.

Short(queue) == \A i \in 1..Len(queue) : ShortEnough(queue[i])
Bits(b) == b \in Seq(0..Base - 1)
BytesOk ==
  /\ step \in Waiting \cup {"off", "first", "idle", "save"}
  /\ state \in {"closed", "GREETING", "AUTHENTICATING", "ESTABLISHED"}
  /\ up \in BOOLEAN
  /\ process \in 0..conns /\ conns \in 0..MaxConns /\ askedSoFar \in 0..MaxAsked
  /\ \A b \in {nonce, token, parts, hnonce, hclient, buffer} : b # None => Bits(b)
  /\ buffer # None => Len(buffer) <= MaxBlob + IdLen + 12
  /\ stored # None => stored.version \in Nat /\ Bits(stored.blob)
  /\ \A entry \in sessions : Bits(entry[1]) /\ Bits(entry[2])
  /\ Short(toServer) /\ Short(toClient)

\* What is remembered has room in its fields.
FieldsOk ==
  /\ {nonce, token, hnonce} \subseteq Text(KeyLen) \cup {None}
  /\ hclient \in Text(IdLen) \cup {None}
  /\ base \in Fits(8)
  /\ asked \in ClientMessages \cup {None}
  /\ {told, learnt} \subseteq ServerMessages \cup {None}

\* A key is derived from a whole token and a whole nonce.
KeysOk ==
  /\ \A key \in {kmac, hkey} : key # None => key \in Text(KeyLen) \X Text(KeyLen)
  /\ lapsed \subseteq Text(KeyLen)
  /\ heard \in ClientMessages \cup {None}

TypeOk == BytesOk /\ FieldsOk /\ KeysOk

\* Through first logins, reconnects with the token and new processes, neither side
\* refuses what the other sends, by length, key, type or state of the connection:
\* the server only a vault larger than it takes, and a token that has expired
\* (decode, recv_frame, handle_client, _expect, _derive_mac_key, _compute_kmac).
OnlyOversizeIsRefused ==
  /\ up /\ step \in Waiting /\ toClient # <<>> => Welcome(Head(toClient))
  /\ state # "closed" /\ toServer # <<>> =>
       LET f == Head(toServer)
       IN  /\ Accepted(f) \/ (asked.type = "VAULT_PUT" /\ Len(asked.blob) > MaxBlob)
           /\ state = "AUTHENTICATING" =>
                LET m == ServerParse("AUTH", f.payload) IN Valid(m) \/ m.token \in lapsed

\* Never do client and handler wait for each other: a message, whatever its size,
\* ends with a frame that its reader takes for the last (put_vault,
\* _send_fragmented_payload, fetch_vault, handle_client).
NoStandstill ==
  up /\ step \in Waiting /\ state # "closed" => toServer # <<>> \/ toClient # <<>>

\* What one side made of a message is what the other meant, and a vault cut into
\* frames is put together again (the _parse and _build functions, _send_fragmented_payload,
\* put_vault, fetch_vault).
Understood ==
  [][/\ heard' \notin {None, heard} => heard' = asked
     /\ step \in Waiting /\ step' # step /\ up' => learnt' = told]_vars

\* A cache is loaded as it was saved, and never the beginning of it that a process
\* which died, or a full disk, has left (save_cache, load_cache).
OnlyWholeCacheLoads ==
  step = "save" =>
    /\ LoadCache(File) = ToSave
    /\ \A n \in 0..Len(File) - 1 : LoadCache(SubSeq(File, 1, n)) = None

-----------------------------------------------------------------------------
\* Why the safety properties are invariant.  All that is under way is one message:
\* what asked means, or what told means.

Me == Repeated(process, IdLen)
AskKey == IF asked.type \in {"HELLO", "AUTH"} THEN Dummy ELSE kmac
TellKey == IF told.type \in {"CHALLENGE", "AUTH_OK", "AUTH_FAIL"} THEN Dummy ELSE hkey

\* The queue is what is left of the frames of p, and part what was taken.
UnderWay(queue, key, type, p, part) ==
  LET sent == Frames(key, type, p)
  IN  \E k \in 0..Len(sent) - 1 :
        /\ queue = SubSeq(sent, k + 1, Len(sent))
        /\ part = IF k = 0 THEN None ELSE SubSeq(p, 1, k * MaxPayload)
Asking == UnderWay(toServer, AskKey, asked.type, ClientPayload(asked), buffer)
Telling == UnderWay(toClient, TellKey, told.type, ServerPayload(told), parts)

\* Who is connected has a nonce, and a token its session.
MemoryOk ==
  /\ FieldsOk
  /\ up \/ state # "closed" => conns > 0 /\ nonce # None
  /\ token # None => <<token, Me>> \in sessions

\* Versions stay in their fields: each counts a request.
Pending == IF state # "closed" /\ toServer # <<>> /\ asked.type = "VAULT_PUT" THEN 1 ELSE 0
VersionsOk ==
  /\ stored # None => stored.version \in Nat /\ stored.blob \in Seq(Byte) /\ Len(stored.blob) <= MaxBlob
  /\ Current + Pending <= Base - 1 + askedSoFar

Requests ==
  CASE state = "GREETING" -> {"HELLO"}
    [] state = "AUTHENTICATING" -> {"AUTH"}
    [] state = "ESTABLISHED" -> {"PING", "BYE", "VAULT_GET", "VAULT_PUT"}
ProvesLogin ==
  IF asked.token = None THEN asked.hmac = Proof(hnonce, ServerNonce)
  ELSE <<asked.token, hclient>> \in sessions

\* A handler that is there reads the message its client has sent last.
HandlerOk ==
  state # "closed" =>
    /\ IF toServer = <<>> THEN buffer = None
       ELSE asked \in ClientMessages /\ asked.type \in Requests /\ Asking
    /\ state = "GREETING" =>
         toServer # <<>> /\ asked.nonce = nonce /\ asked.client = Me
    /\ state # "GREETING" => hnonce = nonce /\ hclient = Me
    /\ state = "AUTHENTICATING" /\ toServer # <<>> => ProvesLogin
    /\ state = "ESTABLISHED" /\ toServer # <<>> => hkey = kmac

\* A client that waits has its request or its answer under way, or it has asked for
\* more than the server takes.
OnlyAsked == toServer # <<>> /\ toClient = <<>> /\ parts = None
OnlyTold(types) ==
  toServer = <<>> /\ told \in ServerMessages /\ told.type \in types /\ Telling
Answers ==
  CASE asked.type = "VAULT_GET" -> {"VAULT_DATA", "ERROR"}
    [] asked.type = "VAULT_PUT" -> {"VAULT_ACK", "ERROR"}
    [] asked.type = "PING" -> {"PONG"}
GreetingOk ==
  \/ state = "GREETING" /\ OnlyAsked
  \/ state = "AUTHENTICATING" /\ OnlyTold({"CHALLENGE"}) /\ told.nonce = ServerNonce
LoginOk ==
  \/ state = "AUTHENTICATING" /\ OnlyAsked
  \/ state = "closed" /\ OnlyTold({"AUTH_FAIL"})
  \/ /\ state = "ESTABLISHED" /\ OnlyTold({"AUTH_OK"})
     /\ told.token \in Text(KeyLen) /\ <<told.token, hclient>> \in sessions
     /\ hkey = <<told.token, hnonce>>
RequestOk ==
  /\ asked \in ClientMessages /\ asked.type \in {"VAULT_GET", "VAULT_PUT", "PING"}
  /\ step = "first_data" => asked.type = "VAULT_GET"
  /\ \/ state = "ESTABLISHED" /\ hkey = kmac /\ (OnlyAsked \/ OnlyTold(Answers))
     \/ state = "closed" /\ toClient = <<>> /\ TooLarge(asked)
RestOk ==
  state = "ESTABLISHED" /\ hkey = kmac /\ toServer = <<>> /\ toClient = <<>> /\ parts = None
ClientOk ==
  /\ up => /\ step # "off"
           /\ step = "challenge" => GreetingOk
           /\ step = "auth" => LoginOk
           /\ step \in {"first_data", "reply"} => RequestOk
           /\ step \in {"first", "idle", "save"} => RestOk
  /\ step = "save" =>
       /\ asked \in ClientMessages /\ learnt \in ServerMessages
       /\ learnt.type = "VAULT_DATA" \/ (learnt.type = "VAULT_ACK" /\ asked.type = "VAULT_PUT")

SessionInv == MemoryOk /\ VersionsOk /\ HandlerOk /\ ClientOk
=============================================================================
