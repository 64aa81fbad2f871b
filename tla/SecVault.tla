------------------------------- MODULE SecVault -------------------------------
(***************************************************************************)
(* The devices of one user and the vault they share: the REPL, do_sync and *)
(* startup of client-py/secvault.py over class Client of                   *)
(* client-py/svpclient.py, against the server as module VersionedVault     *)
(* states it (SVPServer implements that): one request is one step.         *)
(*                                                                         *)
(* A device is one thread that waits for the answer to its last request;   *)
(* pc[d] names what it waits for.  A connection can break at any moment,   *)
(* and a PUT already sent on it may still be handled long afterwards.      *)
(* HELLO and CHALLENGE are part of the AUTH exchange.                      *)
(***************************************************************************)
EXTENDS VaultMerge, Sequences, FiniteSets

CONSTANTS
  Devices,
  None,        \* no message, no cache file
  Torn,        \* the cache file between open("wb") and the end of the write
  Commands,    \* the commands users give, and the ways they start other than a login
  MaxMoves,    \* bound: starts and commands
  MaxFaults,   \* bound: broken links, failed connects, killed clients, expired tokens,
               \* failed writes of the cache
  MaxTime      \* bound on the clock

ASSUME BoundsAssumption == {MaxMoves, MaxFaults, MaxTime} \subseteq Nat

VARIABLES
  versions,  \* server: versions[n] is the n-th accepted PUT
  live,      \* server: the device's last session token has not expired
  late,      \* PUTs sent on links that broke, which the server may still handle
  link,      \* cli.conn: "none", "up", or "dead": an object whose TCP connection is gone
  chan,      \* the request sent on the link, or the reply to it
  pc,
  cmd,       \* the command being executed
  tries,     \* PUTs do_sync has sent
  version,   \* cli.vault_version
  local,     \* vault: the decrypted vault in memory
  dirty,
  cache,     \* the cache file
  now,       \* time.time() in seconds, the same on every device
  used,      \* entry ids ever generated
  seen,      \* history: versions merged into local, or acknowledged
  gone,      \* history: entries the user removed and has not got back
  trouble,   \* history: what happened to the current or last command
  moves, faults

serverVars == <<versions, live, late>>
linkVars == <<link, chan>>
vaultVars == <<version, local, dirty, seen, gone>>
userVars == <<used, moves>>
vars == <<versions, live, late, link, chan, pc, cmd, tries, version, local, dirty, cache,
          now, used, seen, gone, trouble, moves, faults>>

Syncs == {"sync", "quit"}
Prompts == {"repl", "offline"}
Waiting == {"login", "first_fetch", "ping", "refresh", "put", "conflict_fetch", "pull_fetch"}
CommandPcs == Waiting \ {"login", "first_fetch"}
Saving == {"save", "write"}
\* How the user answers the prompts of a start: with login and password, with a
\* wrong password, or asking for a new account.
Openings == {"LOGIN"} \cup ({"BAD_LOGIN", "REGISTER"} \cap Commands)

PutRequest == [type : {"PUT"}, by : Devices, base : Nat, content : Content,
               seen : SUBSET Nat, gone : SUBSET Ids]
Version == [by : Devices, content : Content, seen : SUBSET Nat, gone : SUBSET Ids]
Message ==
  PutRequest
    \cup [type : {"LOGIN", "BAD_LOGIN", "REGISTER", "REFRESH", "PING", "GET",
                  "AUTH_FAIL", "PONG", "NOT_FOUND", "CONFLICT"}]
    \cup [type : {"AUTH_OK", "ACK"}, version : Nat]
    \cup [type : {"DATA"}, version : Nat, content : Content]
CacheFile == [version : Nat, content : Content]
Causes == {"link", "token", "disk", "password", "register"}
Trouble == [causes : SUBSET Causes, rivals : Nat, failed : BOOLEAN]
NoTrouble == [causes |-> {}, rivals |-> 0, failed |-> FALSE]

TypeOk ==
  /\ versions \in Seq(Version)
  /\ live \in [Devices -> BOOLEAN]
  /\ late \subseteq PutRequest
  /\ link \in [Devices -> {"none", "up", "dead"}]
  /\ chan \in [Devices -> Message \cup {None}]
  /\ pc \in [Devices -> {"off", "start_connect", "connect"} \cup Saving \cup Prompts \cup Waiting]
  /\ cmd \in [Devices -> {"sync", "quit", "pull", "ping", None}]
  /\ tries \in [Devices -> 0..3]
  /\ version \in [Devices -> Nat]
  /\ local \in [Devices -> Content]
  /\ dirty \in [Devices -> BOOLEAN]
  /\ cache \in [Devices -> CacheFile \cup {None, Torn}]
  /\ now \in Nat
  /\ used \subseteq Ids
  /\ seen \in [Devices -> SUBSET Nat]
  /\ gone \in [Devices -> SUBSET Ids]
  /\ trouble \in [Devices -> Trouble]
  /\ moves \in 0..MaxMoves
  /\ faults \in 0..MaxFaults

Init ==
  /\ versions = <<>>
  /\ live = [d \in Devices |-> FALSE]
  /\ late = {}
  /\ link = [d \in Devices |-> "none"]
  /\ chan = [d \in Devices |-> None]
  /\ pc = [d \in Devices |-> "off"]
  /\ cmd = [d \in Devices |-> None]
  /\ tries = [d \in Devices |-> 0]
  /\ version = [d \in Devices |-> 0]
  /\ local = [d \in Devices |-> EmptyVault]
  /\ dirty = [d \in Devices |-> FALSE]
  /\ cache = [d \in Devices |-> None]
  /\ now = 0
  /\ used = {}
  /\ seen = [d \in Devices |-> {}]
  /\ gone = [d \in Devices |-> {}]
  /\ trouble = [d \in Devices |-> NoTrouble]
  /\ moves = 0
  /\ faults = 0

-----------------------------------------------------------------------------
\* The server: one request, one step.

Current == Len(versions)
InCommand(d) == pc[d] \in CommandPcs \cup {"connect"}
Caused(d, cause) == [trouble[d] EXCEPT !.causes = @ \cup {cause}]

\* Mutants: AUTH_OK names the current version, as the documents say; a refused
\* refresh is not answered.
AuthOkVersionCurrent == Current
AnswersRefreshWhileLive(d) == live[d]

\* handle_client always tells version 0.
AuthOkVersion == 0
Accepts(r) == r.base = Current
AnswersRefresh(d) == TRUE

\* What an accepted PUT changes; devices beaten by it count it.
Accept(r, beaten) ==
  /\ versions' = Append(versions, [by |-> r.by, content |-> r.content, seen |-> r.seen, gone |-> r.gone])
  /\ trouble' = [d \in Devices |-> IF d \in beaten /\ InCommand(d)
                                   THEN [trouble[d] EXCEPT !.rivals = @ + 1] ELSE trouble[d]]

Asked(d, type) == chan[d] # None /\ chan[d].type = type
Answer(d, m) == chan' = [chan EXCEPT ![d] = m]
AuthOk == [type |-> "AUTH_OK", version |-> AuthOkVersion]

ServeLogin(d) ==
  /\ \/ /\ Asked(d, "LOGIN")
        /\ live' = [live EXCEPT ![d] = TRUE]
        /\ Answer(d, AuthOk)
     \/ /\ Asked(d, "BAD_LOGIN")
        /\ Answer(d, [type |-> "AUTH_FAIL"])
        /\ UNCHANGED live
  /\ UNCHANGED <<versions, trouble>>

ServeRefresh(d) ==
  /\ Asked(d, "REFRESH") /\ AnswersRefresh(d)
  /\ Answer(d, IF live[d] THEN AuthOk ELSE [type |-> "AUTH_FAIL"])
  /\ UNCHANGED <<versions, live, trouble>>

ServePing(d) ==
  /\ Asked(d, "PING")
  /\ Answer(d, [type |-> "PONG"])
  /\ UNCHANGED <<versions, live, trouble>>

ServeGet(d) ==
  /\ Asked(d, "GET")
  /\ Answer(d, IF Current = 0 THEN [type |-> "NOT_FOUND"]
               ELSE [type |-> "DATA", version |-> Current, content |-> versions[Current].content])
  /\ UNCHANGED <<versions, live, trouble>>

ServePut(d) ==
  /\ Asked(d, "PUT")
  /\ \/ /\ Accepts(chan[d])
        /\ Accept(chan[d], Devices \ {d})
        /\ Answer(d, [type |-> "ACK", version |-> Current + 1])
     \/ /\ ~Accepts(chan[d])
        /\ Answer(d, [type |-> "CONFLICT"])
        /\ UNCHANGED <<versions, trouble>>
  /\ UNCHANGED live

\* The server has no REGISTER message: SVPFormatError ends the connection.
ServeRegister(d) ==
  /\ Asked(d, "REGISTER")
  /\ link' = [link EXCEPT ![d] = "dead"]
  /\ Answer(d, None)
  /\ trouble' = [trouble EXCEPT ![d] = Caused(d, "register")]
  /\ UNCHANGED <<serverVars, pc, cmd, tries, vaultVars, cache, now, userVars, faults>>

Serve(d) ==
  /\ ServeLogin(d) \/ ServeRefresh(d) \/ ServePing(d) \/ ServeGet(d) \/ ServePut(d)
  /\ UNCHANGED <<late, link, pc, cmd, tries, vaultVars, cache, now, userVars, faults>>

\* A PUT whose client is no longer there to read the answer; one that is refused
\* changes nothing.  An element of late may stand for equal PUTs, so it stays.
ServeLate ==
  /\ \E r \in late : Accepts(r) /\ Accept(r, Devices)
  /\ UNCHANGED <<live, late, linkVars, pc, cmd, tries, vaultVars, cache, now, userVars, faults>>

-----------------------------------------------------------------------------
\* Building blocks of the client.

Goto(d, p) == pc' = [pc EXCEPT ![d] = p]
Ask(d, m) == chan' = [chan EXCEPT ![d] = m]
Got(d, p, type) == pc[d] = p /\ chan[d] # None /\ chan[d].type = type

PutOf(d, base, content, s, g) ==
  [type |-> "PUT", by |-> d, base |-> base, content |-> content, seen |-> s, gone |-> g]

\* The process ends: what was in memory is gone.
PowerOff(d) ==
  /\ Goto(d, "off")
  /\ cmd' = [cmd EXCEPT ![d] = None]
  /\ link' = [link EXCEPT ![d] = "none"]
  /\ chan' = [chan EXCEPT ![d] = None]
  /\ tries' = [tries EXCEPT ![d] = 0]
  /\ version' = [version EXCEPT ![d] = 0]
  /\ local' = [local EXCEPT ![d] = EmptyVault]
  /\ dirty' = [dirty EXCEPT ![d] = FALSE]
  /\ seen' = [seen EXCEPT ![d] = {}]
  /\ gone' = [gone EXCEPT ![d] = {}]

\* Back at the prompt.
Prompt(d) ==
  /\ Goto(d, "repl")
  /\ cmd' = [cmd EXCEPT ![d] = None]
  /\ tries' = [tries EXCEPT ![d] = 0]
  /\ Ask(d, None)

\* An exception that reaches the REPL, or do_sync giving up: at "quit" the
\* program ends all the same.
CommandFails(d, why) ==
  /\ trouble' = [trouble EXCEPT ![d] = [why EXCEPT !.failed = TRUE]]
  /\ IF cmd[d] = "quit" THEN PowerOff(d)
     ELSE Prompt(d) /\ UNCHANGED <<version, local, dirty, seen, gone>>

-----------------------------------------------------------------------------
\* Startup: login, the first fetch, or the cache when there is no server.

Move == moves < MaxMoves /\ moves' = moves + 1
Fault == faults < MaxFaults /\ faults' = faults + 1

Start(d) ==
  /\ pc[d] = "off"
  /\ Move
  /\ Goto(d, "start_connect")
  /\ trouble' = [trouble EXCEPT ![d] = NoTrouble]
  /\ UNCHANGED <<serverVars, linkVars, cmd, tries, vaultVars, cache, now, used, faults>>

StartConnect(d) ==
  /\ pc[d] = "start_connect"
  /\ link' = [link EXCEPT ![d] = "up"]
  /\ \E opening \in Openings : Ask(d, [type |-> opening])
  /\ Goto(d, "login")
  /\ UNCHANGED <<serverVars, cmd, tries, vaultVars, cache, now, userVars, trouble, faults>>

\* load_cache and Vault.decrypt: a torn file is no cache.
LoadCache(d) ==
  IF cache[d] \in {None, Torn}
  THEN PowerOff(d)
  ELSE /\ local' = [local EXCEPT ![d] = cache[d].content]
       /\ Goto(d, "offline")
       /\ link' = [link EXCEPT ![d] = "none"]
       /\ chan' = [chan EXCEPT ![d] = None]
       /\ UNCHANGED <<cmd, tries, version, dirty, seen, gone>>

\* No connection, or it is lost before the vault is there.
StartFails(d) ==
  /\ \/ /\ pc[d] = "start_connect" /\ Fault
        /\ trouble' = [trouble EXCEPT ![d] = [Caused(d, "link") EXCEPT !.failed = TRUE]]
     \/ /\ pc[d] \in {"login", "first_fetch"} /\ link[d] = "dead"
        /\ trouble' = [trouble EXCEPT ![d].failed = TRUE]
        /\ UNCHANGED faults
  /\ LoadCache(d)
  /\ UNCHANGED <<serverVars, cache, now, userVars>>

\* --offline.
StartOffline(d) ==
  /\ "offline" \in Commands
  /\ pc[d] = "off"
  /\ Move
  /\ LoadCache(d)
  /\ trouble' = [trouble EXCEPT ![d] = NoTrouble]
  /\ UNCHANGED <<serverVars, cache, now, used, faults>>

\* A ProtocolError ends the program.
LoginRefused(d) ==
  /\ Got(d, "login", "AUTH_FAIL")
  /\ PowerOff(d)
  /\ trouble' = [trouble EXCEPT ![d] = [Caused(d, "password") EXCEPT !.failed = TRUE]]
  /\ UNCHANGED <<serverVars, cache, now, userVars, faults>>

LoggedIn(d) ==
  /\ Got(d, "login", "AUTH_OK")
  /\ version' = [version EXCEPT ![d] = chan[d].version]
  /\ Ask(d, [type |-> "GET"])
  /\ Goto(d, "first_fetch")
  /\ UNCHANGED <<serverVars, link, cmd, tries, local, dirty, seen, gone, cache, now, userVars, trouble, faults>>

FirstFetch(d) ==
  /\ \/ /\ Got(d, "first_fetch", "DATA")
        /\ local' = [local EXCEPT ![d] = chan[d].content]
        /\ version' = [version EXCEPT ![d] = chan[d].version]
        /\ seen' = [seen EXCEPT ![d] = {chan[d].version}]
        /\ Goto(d, "save")
     \/ /\ Got(d, "first_fetch", "NOT_FOUND")
        /\ Goto(d, "repl")
        /\ UNCHANGED <<local, version, seen>>
  /\ Ask(d, None)
  /\ UNCHANGED <<serverVars, link, cmd, tries, dirty, gone, cache, now, userVars, trouble, faults>>

\* save_cache: open(path, "wb") truncates the file, then the new one is written.
OpenCache(d) ==
  /\ pc[d] = "save"
  /\ cache' = [cache EXCEPT ![d] = Torn]
  /\ Goto(d, "write")
  /\ UNCHANGED <<serverVars, linkVars, cmd, tries, vaultVars, now, userVars, trouble, faults>>

SaveCache(d) ==
  /\ pc[d] = "write"
  /\ cache' = [cache EXCEPT ![d] = [version |-> version[d], content |-> local[d]]]
  /\ Prompt(d)
  /\ UNCHANGED <<serverVars, link, vaultVars, now, userVars, trouble, faults>>

\* OSError while opening or writing: at startup the program goes offline although
\* the server is there; after "sync" the error is shown, the vault stays clean.
SaveFails(d) ==
  /\ pc[d] \in Saving
  /\ Fault
  /\ trouble' = [trouble EXCEPT ![d] = [Caused(d, "disk") EXCEPT !.failed = TRUE]]
  /\ IF cmd[d] = None THEN LoadCache(d)
     ELSE Prompt(d) /\ UNCHANGED <<link, version, local, dirty, seen, gone>>
  /\ UNCHANGED <<serverVars, cache, now, userVars>>

-----------------------------------------------------------------------------
\* Editing in memory, online or offline.

Editing(d) ==
  /\ pc[d] \in Prompts
  /\ Move
  /\ dirty' = [dirty EXCEPT ![d] = TRUE]
  /\ UNCHANGED <<serverVars, linkVars, pc, cmd, tries, version, cache, now, seen, trouble, faults>>

Add(d) ==
  /\ "add" \in Commands
  /\ Editing(d)
  /\ \E i \in Ids \ used, val \in Vals :
       /\ local' = [local EXCEPT ![d] = Stored(@, i, val, now)]
       /\ used' = used \cup {i}
  /\ UNCHANGED gone

\* An empty answer keeps a field, so val may be the old one; the time stamp
\* moves all the same.
Edit(d) ==
  /\ "edit" \in Commands
  /\ Editing(d)
  /\ \E i \in Present(local[d]), val \in Vals :
       local' = [local EXCEPT ![d] = Stored(@, i, val, now)]
  /\ UNCHANGED <<used, gone>>

Remove(d) ==
  /\ "rm" \in Commands
  /\ Editing(d)
  /\ \E i \in Present(local[d]) :
       /\ local' = [local EXCEPT ![d] = Removed(@, i)]
       /\ gone' = [gone EXCEPT ![d] = @ \cup {i}]
  /\ UNCHANGED used

-----------------------------------------------------------------------------
\* Commands that need the server.

\* ensure_session: a PING on the connection there is, or a new connection.
EnsureSession(d, command) ==
  /\ cmd' = [cmd EXCEPT ![d] = command]
  /\ trouble' = [trouble EXCEPT ![d] = NoTrouble]
  /\ \/ /\ link[d] = "none"
        /\ Goto(d, "connect")
        /\ UNCHANGED chan
     \/ /\ link[d] # "none"
        /\ Ask(d, IF link[d] = "up" THEN [type |-> "PING"] ELSE None)
        /\ Goto(d, "ping")
  /\ UNCHANGED <<serverVars, link, tries, vaultVars, cache, now, used, faults>>

Command(d) ==
  /\ pc[d] = "repl"
  /\ Move
  /\ \E command \in Commands \cap {"sync", "pull", "ping"} : EnsureSession(d, command)

\* quit, exit or end of input: unsaved changes are synchronised first.
Quit(d) ==
  /\ "quit" \in Commands
  /\ Move
  /\ \/ pc[d] = "repl" /\ dirty[d] /\ EnsureSession(d, "quit")
     \/ /\ pc[d] = "offline" \/ (pc[d] = "repl" /\ ~dirty[d])
        /\ PowerOff(d)
        /\ UNCHANGED <<serverVars, cache, now, used, trouble, faults>>

\* The session is there; base is cli.vault_version.
Proceed(d, base) ==
  \/ /\ cmd[d] \in Syncs
     /\ Ask(d, PutOf(d, base, local[d], seen[d], gone[d]))
     /\ tries' = [tries EXCEPT ![d] = 1]
     /\ Goto(d, "put")
     /\ UNCHANGED cmd
  \/ /\ cmd[d] = "pull"
     /\ Ask(d, [type |-> "GET"])
     /\ Goto(d, "pull_fetch")
     /\ UNCHANGED <<cmd, tries>>
  \/ cmd[d] = "ping" /\ Prompt(d)

Pong(d) ==
  /\ Got(d, "ping", "PONG")
  /\ Proceed(d, version[d])
  /\ UNCHANGED <<serverVars, link, vaultVars, cache, now, userVars, trouble, faults>>

PingFails(d) ==
  /\ pc[d] = "ping" /\ link[d] = "dead"
  /\ link' = [link EXCEPT ![d] = "none"]
  /\ Goto(d, "connect")
  /\ UNCHANGED <<serverVars, chan, cmd, tries, vaultVars, cache, now, userVars, trouble, faults>>

Connect(d) ==
  /\ pc[d] = "connect"
  /\ link' = [link EXCEPT ![d] = "up"]
  /\ Ask(d, [type |-> "REFRESH"])
  /\ Goto(d, "refresh")
  /\ UNCHANGED <<serverVars, cmd, tries, vaultVars, cache, now, userVars, trouble, faults>>

ConnectFails(d) ==
  /\ pc[d] = "connect"
  /\ Fault
  /\ CommandFails(d, Caused(d, "link"))
  /\ cmd[d] # "quit" => UNCHANGED link
  /\ UNCHANGED <<serverVars, cache, now, userVars>>

Refreshed(d) ==
  /\ Got(d, "refresh", "AUTH_OK")
  /\ version' = [version EXCEPT ![d] = chan[d].version]
  /\ Proceed(d, chan[d].version)
  /\ UNCHANGED <<serverVars, link, local, dirty, seen, gone, cache, now, userVars, trouble, faults>>

\* _expect turns AUTH_FAIL into ERR_INTERNAL, which ensure_session raises
\* again; the server has closed the connection.
RefreshRefused(d) ==
  /\ Got(d, "refresh", "AUTH_FAIL")
  /\ CommandFails(d, Caused(d, "token"))
  /\ cmd[d] # "quit" => link' = [link EXCEPT ![d] = "dead"]
  /\ UNCHANGED <<serverVars, cache, now, userVars, faults>>

\* VAULT_ACK.  After "sync" the vault is clean and cached; after "quit" the
\* program ends.
PutAcked(d) ==
  /\ Got(d, "put", "ACK")
  /\ \/ /\ cmd[d] = "sync"
        /\ version' = [version EXCEPT ![d] = chan[d].version]
        /\ seen' = [seen EXCEPT ![d] = @ \cup {chan[d].version}]
        /\ dirty' = [dirty EXCEPT ![d] = FALSE]
        /\ Ask(d, None)
        /\ Goto(d, "save")
        /\ UNCHANGED <<link, cmd, tries, local, gone>>
     \/ cmd[d] = "quit" /\ PowerOff(d)
  /\ UNCHANGED <<serverVars, cache, now, userVars, trouble, faults>>

PutConflict(d) ==
  /\ Got(d, "put", "CONFLICT")
  /\ Ask(d, [type |-> "GET"])
  /\ Goto(d, "conflict_fetch")
  /\ UNCHANGED <<serverVars, link, cmd, tries, vaultVars, cache, now, userVars, trouble, faults>>

\* fetch_vault, Vault.decrypt and merge_from.
Merged(d) == MergeFrom(local[d], chan[d].content)
MergeFetched(d) ==
  /\ version' = [version EXCEPT ![d] = chan[d].version]
  /\ local' = [local EXCEPT ![d] = Merged(d)]
  /\ seen' = [seen EXCEPT ![d] = @ \cup {chan[d].version}]
  /\ gone' = [gone EXCEPT ![d] = @ \ Present(Merged(d))]

\* Mutants: a conflict is not retried; retries are not counted out.
ConflictFetchedOnce(d) ==
  /\ Got(d, "conflict_fetch", "DATA")
  /\ MergeFetched(d)
  /\ cmd[d] = "sync"
  /\ Prompt(d)
  /\ trouble' = [trouble EXCEPT ![d].failed = TRUE]
  /\ UNCHANGED <<serverVars, link, dirty, cache, now, userVars, faults>>
ConflictFetchedNoLimit(d) ==
  /\ Got(d, "conflict_fetch", "DATA")
  /\ MergeFetched(d)
  /\ Ask(d, PutOf(d, version'[d], local'[d], seen'[d], gone'[d]))
  /\ tries' = [tries EXCEPT ![d] = @ + 1]
  /\ Goto(d, "put")
  /\ UNCHANGED <<serverVars, link, cmd, dirty, trouble, cache, now, userVars, faults>>

\* The version of the server is merged and the PUT repeated, three PUTs in all.
ConflictFetched(d) ==
  /\ Got(d, "conflict_fetch", "DATA")
  /\ \/ /\ tries[d] < 3
        /\ MergeFetched(d)
        /\ Ask(d, PutOf(d, version'[d], local'[d], seen'[d], gone'[d]))
        /\ tries' = [tries EXCEPT ![d] = @ + 1]
        /\ Goto(d, "put")
        /\ UNCHANGED <<link, cmd, dirty, trouble>>
     \/ /\ tries[d] = 3
        /\ cmd[d] = "sync"
        /\ MergeFetched(d)
        /\ Prompt(d)
        /\ trouble' = [trouble EXCEPT ![d].failed = TRUE]
        /\ UNCHANGED <<link, dirty>>
     \/ /\ tries[d] = 3
        /\ cmd[d] = "quit"
        /\ PowerOff(d)
        /\ trouble' = [trouble EXCEPT ![d].failed = TRUE]
  /\ UNCHANGED <<serverVars, cache, now, userVars, faults>>

\* Mutants: pull saves the merged vault like sync does; it counts as one.
PullFetchedSaved(d) ==
  /\ Got(d, "pull_fetch", "DATA")
  /\ MergeFetched(d)
  /\ Ask(d, None)
  /\ Goto(d, "save")
  /\ UNCHANGED <<serverVars, link, cmd, tries, dirty, cache, now, userVars, trouble, faults>>
PullFetchedClean(d) ==
  /\ Got(d, "pull_fetch", "DATA")
  /\ MergeFetched(d)
  /\ Prompt(d)
  /\ dirty' = [dirty EXCEPT ![d] = FALSE]
  /\ UNCHANGED <<serverVars, link, cache, now, userVars, trouble, faults>>

PullFetched(d) ==
  /\ Got(d, "pull_fetch", "DATA")
  /\ MergeFetched(d)
  /\ Prompt(d)
  /\ UNCHANGED <<serverVars, link, dirty, cache, now, userVars, trouble, faults>>

PullNotFound(d) ==
  /\ Got(d, "pull_fetch", "NOT_FOUND")
  /\ Prompt(d)
  /\ UNCHANGED <<serverVars, link, vaultVars, cache, now, userVars, trouble, faults>>

\* The connection is lost while an answer is awaited: the exception reaches
\* the REPL and the dead connection object stays.  (A conflict is never
\* followed by ERR_NOT_FOUND: the server deletes no vault.)
CommandBreaks(d) ==
  /\ pc[d] \in CommandPcs \ {"ping"}
  /\ link[d] = "dead"
  /\ CommandFails(d, trouble[d])
  /\ cmd[d] # "quit" => UNCHANGED link
  /\ UNCHANGED <<serverVars, cache, now, userVars, faults>>

-----------------------------------------------------------------------------
\* The environment.

\* A PUT that was on its way is lost, or reaches the server later.
Strand(d) ==
  \/ UNCHANGED late
  \/ Asked(d, "PUT") /\ late' = late \cup {chan[d]}

\* Reset, network failure, 90 s of silence, a handler that failed or a server
\* that crashed.
LinkBreaks(d) ==
  /\ link[d] = "up"
  /\ Fault
  /\ Strand(d)
  /\ link' = [link EXCEPT ![d] = "dead"]
  /\ chan' = [chan EXCEPT ![d] = None]
  /\ trouble' = [trouble EXCEPT ![d] = IF pc[d] \in Waiting THEN Caused(d, "link") ELSE @]
  /\ UNCHANGED <<versions, live, pc, cmd, tries, vaultVars, cache, now, userVars>>

\* Ctrl-C or a crash of the client.
Kill(d) ==
  /\ pc[d] # "off"
  /\ Fault
  /\ Strand(d)
  /\ PowerOff(d)
  /\ trouble' = [trouble EXCEPT ![d] = NoTrouble]
  /\ UNCHANGED <<versions, live, cache, now, userVars>>

TokenExpires(d) ==
  /\ live[d]
  /\ Fault
  /\ live' = [live EXCEPT ![d] = FALSE]
  /\ UNCHANGED <<versions, late, linkVars, pc, cmd, tries, vaultVars, cache, now, userVars, trouble>>

Tick ==
  /\ now < MaxTime
  /\ now' = now + 1
  /\ UNCHANGED <<serverVars, linkVars, pc, cmd, tries, vaultVars, cache, userVars, trouble, faults>>

\* Users may leave their devices at the prompt.
Quiet ==
  /\ \A d \in Devices : pc[d] \in Prompts \cup {"off"}
  /\ UNCHANGED vars

-----------------------------------------------------------------------------
UserStep(d) == Start(d) \/ StartOffline(d) \/ Add(d) \/ Edit(d) \/ Remove(d) \/ Command(d) \/ Quit(d)

ClientStep(d) ==
  \/ StartConnect(d) \/ LoggedIn(d) \/ LoginRefused(d) \/ FirstFetch(d)
  \/ OpenCache(d) \/ SaveCache(d)
  \/ Pong(d) \/ PingFails(d) \/ Connect(d) \/ Refreshed(d) \/ RefreshRefused(d)
  \/ PutAcked(d) \/ PutConflict(d) \/ ConflictFetched(d)
  \/ PullFetched(d) \/ PullNotFound(d) \/ CommandBreaks(d) \/ StartFails(d)

Next ==
  \/ \E d \in Devices :
       \/ UserStep(d) \/ ClientStep(d) \/ Serve(d) \/ ServeRegister(d)
       \/ ConnectFails(d) \/ SaveFails(d) \/ LinkBreaks(d) \/ Kill(d) \/ TokenExpires(d)
  \/ ServeLate
  \/ Tick
  \/ Quiet

Spec == Init /\ [][Next]_vars

\* A client runs until it waits; the server answers what reaches it.
FairSpec == Spec /\ \A d \in Devices : WF_vars(ClientStep(d)) /\ WF_vars(Serve(d) \/ ServeRegister(d))

-----------------------------------------------------------------------------
\* Properties.

\* No blind overwrite: whoever wrote version n had merged, or written itself,
\* version n - 1, through reconnects, lost answers, PUTs that arrive late and
\* killed clients (do_sync, put_vault, fetch_vault, ensure_session).
WriterHadMerged ==
  \A n \in 2..Current : n - 1 \in versions[n].seen

\* From one version to the next an entry disappears only when the writer's
\* user removed it, and another value for it is never an older one
\* (merge_from, do_sync).
Advances(old, new, removed) ==
  \A i \in Ids : old[i] # Absent =>
    /\ new[i] = Absent => i \in removed
    /\ new[i] # Absent /\ new[i].val # old[i].val => new[i].ts >= old[i].ts
EntriesOnlyAdvance ==
  \A n \in 2..Current : Advances(versions[n - 1].content, versions[n].content, versions[n].gone)

\* A vault that is not dirty holds nothing the server never stored: what the
\* user added or edited is not forgotten (dirty, do_sync).
CleanMeansSaved ==
  \A d \in Devices : \A i \in Present(local[d]) :
    pc[d] # "offline" /\ ~dirty[d] =>
      \E n \in 1..Current : versions[n].content[i] = local[d][i]

\* The cache is a version the server stored, under its number (save_cache).
CacheIsVersion ==
  \A d \in Devices : cache[d] \notin {None, Torn} =>
    /\ cache[d].version \in 1..Current
    /\ cache[d].content = versions[cache[d].version].content

\* A start or a command fails only because a connection broke under it, the token
\* had expired, the disk failed, the user mistyped the password or asked for a new
\* account, or others stored two versions while it ran (main, ensure_session,
\* do_sync).
FailureHasCause ==
  \A d \in Devices : trouble[d].failed =>
    trouble[d].causes # {} \/ trouble[d].rivals >= 2

\* Every start and every command ends: with no answer lost for ever, no
\* device waits for ever.
CommandsEnd ==
  \A d \in Devices :
    (pc[d] \notin Prompts \cup {"off"}) ~> (pc[d] \in Prompts \cup {"off"})

\* svpclient.py:283, :295: ensure_session guarantees an active session, and
\* logs in again when the token has expired.
SessionIsEnsured ==
  \A d \in Devices : trouble[d].failed =>
    trouble[d].causes # {"token"} \/ trouble[d].rivals >= 2

\* SecVault_etap2.md:219 "zmienione tylko w B -> z B": what the user of B removed
\* and nobody changed does not come back.
RemovedStaysRemoved ==
  [][\A d \in Devices, i \in Ids :
       i \in gone[d] /\ i \notin gone'[d] /\ pc'[d] # "off"
       => \E m, n \in 1..Current :
            Absent \notin {versions[m].content[i], versions[n].content[i]}
              /\ versions[m].content[i] # versions[n].content[i]]_vars
-----------------------------------------------------------------------------
\* Why the safety properties are invariant: what every device, and every request
\* on its way, knows of the versions the server stores.

IsVersion(n, content) == n \in 1..Current /\ versions[n].content = content

\* Version n has been merged, and content goes on from it.
GoesOnFrom(n, content, merged, removed) ==
  n # 0 => n \in 1..Current /\ n \in merged /\ Advances(versions[n].content, content, removed)
PutOk(r) == GoesOnFrom(r.base, r.content, r.seen, r.gone)

\* Nothing is stamped later than now.
Past(content) == \A i \in Present(content) : content[i].ts <= now

\* A device that is not at a prompt without a server has the vault of its version,
\* edited and merged, and writes to the cache what the server has.
HoldsVersion(d) ==
  /\ pc[d] # "offline" => GoesOnFrom(version[d], local[d], seen[d], gone[d])
  /\ pc[d] \in Saving => IsVersion(version[d], local[d])
  /\ Past(local[d])

\* What is on a connection belongs to what its device waits for.
InExchange(d) ==
  chan[d] # None =>
    /\ link[d] = "up"
    /\ \/ /\ pc[d] = "login"
          /\ chan[d].type \in {"LOGIN", "BAD_LOGIN", "REGISTER", "AUTH_OK", "AUTH_FAIL"}
       \/ /\ pc[d] \in {"first_fetch", "conflict_fetch", "pull_fetch"}
          /\ chan[d].type \in {"GET", "DATA", "NOT_FOUND"}
       \/ pc[d] = "ping" /\ chan[d].type \in {"PING", "PONG"}
       \/ pc[d] = "refresh" /\ chan[d].type \in {"REFRESH", "AUTH_OK", "AUTH_FAIL"}
       \/ pc[d] = "put" /\ chan[d].type \in {"PUT", "ACK", "CONFLICT"}

\* Every answer tells what the server stores, every PUT was built on what it names.
MessageOk(d) ==
  /\ Asked(d, "AUTH_OK") => chan[d].version = 0
  /\ Asked(d, "PUT") => PutOk(chan[d]) /\ chan[d].content = local[d]
  /\ Asked(d, "ACK") => IsVersion(chan[d].version, local[d])
  /\ Asked(d, "DATA") => IsVersion(chan[d].version, chan[d].content)

\* A connection lost under a start or a command is a cause; every PUT but the first
\* was refused because others had stored a version since the one it was built on.
CauseKnown(d) ==
  /\ pc[d] \in Waiting \ {"ping"} /\ link[d] # "up" => trouble[d].causes # {}
  /\ Asked(d, "PUT") =>
       /\ trouble[d].rivals + 2 >= tries[d]
       /\ ~Accepts(chan[d]) => trouble[d].rivals + 1 >= tries[d]
  /\ Asked(d, "CONFLICT") \/ (pc[d] = "conflict_fetch" /\ Asked(d, "GET")) =>
       trouble[d].rivals + 1 >= tries[d]
  /\ pc[d] = "conflict_fetch" /\ Asked(d, "DATA") =>
       /\ trouble[d].rivals + 1 >= tries[d]
       /\ chan[d].version # Current => trouble[d].rivals >= tries[d]

SyncInv ==
  /\ \A d \in Devices : HoldsVersion(d) /\ InExchange(d) /\ MessageOk(d) /\ CauseKnown(d)
  /\ \A r \in late : PutOk(r) /\ Past(r.content)
  /\ \A n \in 1..Current : Past(versions[n].content)
  /\ WriterHadMerged /\ EntriesOnlyAdvance /\ CacheIsVersion /\ CleanMeansSaved /\ FailureHasCause
=============================================================================
