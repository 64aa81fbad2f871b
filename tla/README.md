# SecVault in TLA+

Formal models of SecVault, a password manager with end-to-end encrypted vaults:
a Python `asyncio` server (`server-py/`) that stores one versioned blob per
vault in SQLite, and a command-line client (`client-py/`) that keeps the
decrypted vault in memory, edits it, and synchronises it by optimistic locking
and an entry-by-entry merge. They speak SVP, a framed binary protocol over
TLS 1.3. The models are translated from the Python sources; the two design
documents (`SecVault_etap1.md`, `SecVault_etap2.md`) are used only for what the
program is said to do, and every disagreement met on the way is a run of its own.

## The system and its parts

| Part | State it keeps | Operations | Interacts with |
|---|---|---|---|
| Connection handler, `server.py handle_client` (one coroutine per TLS connection) | protocol state, client id, authenticated user, MAC key, fragment buffer and its start time; locals that live across awaits (the row read, the new version) | HELLO, AUTH by password (+TOTP) or by token, PING, BYE, VAULT_GET, VAULT_PUT (also fragmented), timeouts, error exits | the other handlers only through SQLite; its client through frames |
| Frame reader, `server.py _read_frame` under `wait_for` | bytes not yet read, the header already consumed, the current timeout | read header, read rest, be cancelled | the handler loop, `protocol.py SVPCodec` |
| Database, `database.py` | tables `users`, `vaults`, `sessions`; per connection a transaction | init, get_user, create_session, get_session, get_vault, update_vault (upsert with compare-and-set), close | every handler has a connection of its own; one write lock |
| Session protocol, `svpclient.py` | connection, keys, session token, vault id, `vault_version` | connect, login, refresh_session, fetch_vault, put_vault, ping, bye, ensure_session | the server, one request at a time |
| Command loop and synchronisation, `secvault.py` | `vault`, `dirty`, `online`, the cache file | start, add, edit, rm, sync, pull, ping, quit, do_sync | session protocol, vault, file system |
| Vault, `vault.py` | list of entries (id, fields, updated_at) | add, find, remove, encrypt, decrypt, merge_from | command loop |
| Transport and framing, `transport.py`, `framing.py`; server codec, `protocol.py` and the `_parse` and `_build` functions of `server.py` | a TLS socket; for each side the key it signs and checks frames with | send and receive a frame, cut and reassemble a vault, encode and decode a payload | session protocol, connection handler |
| Cache file, `secvault.py save_cache`, `load_cache` | a file | truncate, write, load | command loop |
| Start-up and TLS, `server.py main`; ciphers of `svpcrypto.py`; C++ client, `client/`; stub server and tests | – | – | not modelled, see below |

What is hard here, and what makes each part correct:

- **Handler and database.** Every `await` lets other handlers run: the row a PUT
  was checked against may be replaced before it is updated; two users may
  create the same vault id; `execute` and `commit` are two awaits with the
  write lock held between them; any of them may fail and the process may die at
  any of them. Correct when the row is always the last accepted PUT, versions
  count the accepted PUTs, an owner never changes, and each answer states
  something that is committed. Sessions: every chain of token refreshes goes
  back to a full login.
- **Frame reader.** Three clocks, and a cancelled read that may have consumed a
  header. Correct when only whole vaults ever reach the database and the
  session of a vanished client ends.
- **Wire.** The format is written twice, by client and server, and so are the
  derivation of the session key and the cutting of vaults into frames. Correct
  when, through any sequence of logins, reconnects, refreshes and requests, no side
  refuses, misreads or waits in vain for what the other sends.
- **Synchronisation.** Several devices, lost answers, PUTs that arrive after
  their client gave up, killed clients, expired tokens. Correct when nobody
  overwrites a version it has not merged, no entry is lost or set back from one
  version to the next, `dirty` never lies, and every command ends.
- **The two together.** Client and server each close their own end of a
  connection, notice the other's at some later time, and the server may crash
  between any two awaits. Correct when the devices need not know: it all looks
  like a server that answers each request at once.

The complete list of hazards, each at its line with the properties that cover
it, is `hazards` in `PROJECT.json`.

## Modules

| Module | Models | Notes |
|---|---|---|
| `VaultDB` | `database.py`: tables, transactions, the write lock | an open transaction is the image of the tables its commit will publish |
| `SVPServer` | `handle_client` for any number of connections, on `VaultDB` | one action per stretch of code between two awaits; `pc[c]` names the await a handler is in; `log[c]` is what was answered, `hist[v]` the accepted PUTs, `shown` the credentials presented (history variables) |
| `VersionedVault` | the promise: a vault is a log of accepted writes, reads and acknowledgements tell entries of it | `SVPServer` implements it with `log <- hist` |
| `FrameStream` | `_read_frame`, `wait_for` and fragment reassembly for one established connection | a frame is two units because `readexactly` is called twice; time in ticks |
| `VaultMerge` | `vault.py`: entries and `merge_from` | the four text fields are one value |
| `SecVault` | `secvault.py` and `svpclient.py` for several devices of one user, against a server that takes one step per request | the abstract specification of the next |
| `SecVaultSystem` | the devices of `SecVault` against the handlers, database and crashes of `SVPServer` | instantiates both, adds what lies between them: which connection a device is on, PUTs still in a stream, tokens; implements `SecVault` |
| `SVPWire` | the payloads, frames and the cache file, as bytes: `framing.py`, `protocol.py`, the `_parse` and `_build` functions, `save_cache`, `load_cache` | operators only; the size of a byte and of keys, ids and frames are constants |
| `SVPSession` | one client that starts, reconnects, refreshes and moves vaults against one handler after the other, exchanging the frames of `SVPWire` | keys, nonces and tokens are bytes, a MAC is what was signed and the key |
| `MCServer`, `MCFrames`, `MCSecVault`, `MCSystem`, `MCSession` | small instances | frames the clients send, sizes, symmetry |
| `SVPServer_proofs` (types), `SVPServerSafety_proofs` (what is stored, sessions), `SVPServerTold_proofs` (what clients are told, refinement) | theorems about `SVPServer` | each extends the one before |
| `SecVaultSystem_proofs` | theorems about `SecVaultSystem` | uses `SVPServerSafety_proofs` and `SecVault_proofs` by INSTANCE |
| `SecVault_proofs`, `FrameStream_proofs`, `SVPWire_proofs`, `SVPSession_proofs` | theorems about the module of the same name, `SecVault_proofs` also about `VaultMerge` | `SVPSession_proofs` rests on `SVPWire_proofs` |

How code maps to actions:

- `SVPServer`. A frame that is read is one action with its handler up to the
  first database call (`Auth`, `VaultGet`, `VaultPut`) or to its answer
  (`Hello`, `Ping`, `Bye`, `PutFragment`). A PUT then goes through `PutRead`
  (`get_vault`), `PutCheck` (owner, then base version), `PutExecute` and
  `PutCommit` (the two awaits of `update_vault`) and `PutDone` (the answer). A
  login goes through `Authenticate`, `SessionExecute`, `SessionCommit`, `AuthOk`.
  `Finish` is every way out of the `try` block: the database connection is
  closed, which rolls back what was not committed. `ReadEnds` is the idle
  timeout, end of stream, and every frame that makes the loop raise
  (wrong state, unknown type, bad HMAC, an interrupted fragment series).
  `BusyTimeout` and `HandlerFails` are the exceptions no `except` clause takes.
  A session token is named by the connection that issued it, since a connection
  issues at most one. The reads of `users` and `sessions` during AUTH are one step
  with the decision: `users` does not change, session rows are never changed or
  deleted, and of a session inserted between the reads no client knows the token.
- `SecVault`. `pc[d]` is the answer a device waits for; `chan[d]` is the one
  frame under way on its connection. `put_vault`, `fetch_vault` and `ping` are
  an action that asks and actions for each answer, `do_sync`'s loop is `PutAcked`,
  `PutConflict` and `ConflictFetched` with `tries`. `LinkBreaks` kills a
  connection; a PUT under way is lost or left in `late`, from where `ServeLate`
  may hand it to the server at any later time. `Kill` ends a client anywhere,
  also between the truncation and the writing of the cache (`Torn`). The server
  side (`Serve*`) does in one step what `SVPServer` does in several: that
  this is all the devices can see is what the run `system` shows. A start is with
  login and password, with a wrong password (`LoginRefused`), with a registration
  (`ServeRegister` closes the connection, `StartFails` goes offline) or `--offline`;
  the first three are `Openings`. The cache is written by `OpenCache` (truncates) and
  `SaveCache`; `SaveFails` is an `OSError` in either. `trouble` is a history variable:
  what went wrong under the current or last command, how many versions others
  stored meanwhile, and whether it failed.
- `SecVaultSystem`. The state is that of the two modules without what they
  share: the versions of `SecVault` are read off `SVPServer`'s history, `conn[d]` is the
  connection of device `d`'s `cli.conn`. Each server action is `SVPServer`'s, together
  with what it puts into the device's channel (`Deliver`); each device action is
  `SecVault`'s, together with what it does to the connection (`Connect`, `Settled`,
  `Break`). A handler goes on with a request whose device has left; `unread` is a PUT
  that nobody has read yet, and the server may have closed a connection
  (`HandlerEnds`, `Crash`) long before its device finds out (`Break`). The refinement
  mapping `Answered` takes a request as answered when its answer can no
  longer change: for a PUT at the commit, for a read at `get_vault`.
- `SVPSession`. `step` is what the client does or waits for, `state` the handler's
  state; frames travel in `toServer` and `toClient`. The client's actions are
  `Open` (connect and HELLO), `SendAuth` (login or refresh), `ReadAuthOk`, the requests
  `AskGet`, `AskPut`, `AskPing`, `Bye`, and `ReadFragment`, `ReadData`, `ReadAck`, `ReadOther` for the
  answers; the handler reads a frame (`HandlerReads`), refuses it, keeps it as a
  fragment, or hears a whole message. `asked`, `heard`, `told`, `learnt` (history
  variables) are the messages the senders meant and what the receivers made
  of them.
- `FrameStream`. `timeout` is the value `wait_for` was called with, `readAge`
  the time since, `fragAge` the time since the first buffered fragment; a tick is
  impossible while a timer is due.

## What the runs check

| Run | Question | Bounds, and why they suffice |
|---|---|---|
| `server_put` | do two connections' reads and writes of a vault keep `RowIsLastPut`, `OneOwner`, `AckIsCommitted`, `OneAckPerVersion`, `DataIsCommitted`, `MonotonicReplies` (with `RowIsRecent`), and implement `VersionedVault`? | 2 connections, of the same user or of two, 1 vault, 2 blobs, 4 answers each (two of them after the handshake): a read or a PUT can fall before, between and after every await of the other's PUT, and crash or fail there |
| `server_sessions` | does every session go back to a full login (`SessionsBackedByLogin`), is every token told stored (`TokenIsStored`), is every frame answered or its connection closed (`Answered`), the write lock given back (`WriteLockReleased`)? | 2 connections, so a login and its refresh from the same or the other client; users with and without TOTP, an unknown name, 2 clients, right, partial and missing factors, every kind of request, 1 tick of time with a TTL of 1. Longer chains of refreshes are left to the proof |
| `sync_merge` | do entries only advance from one version to the next (`EntriesOnlyAdvance`), is a clean vault a saved one (`CleanMeansSaved`), does nobody overwrite unseen (`WriterHadMerged`), is the cache a stored version (`CacheIsVersion`)? Is `SyncInv` true? | 2 devices, 2 entries, 2 values, 2 time stamps, 6 user moves, 1 fault: enough for both devices to start, edit, conflict, and merge both ways, with an answer lost on the way |
| `sync_faults` | through faults, the same, and does a start or command fail only for a cause (`FailureHasCause`), and does each of them end (`CommandsEnd`)? | 2 devices, 1 entry and 1 value (the properties do not look at values), all ways to start, 4 moves, 2 faults of any kind (broken link, kill, failed connect, expired token, failed write): a lost answer and a second failure during recovery |
| `system` | do handlers, transactions, half-closed connections and crashes together look like `SecVault`'s server (`ImplementsSecVault`), and are tokens still valid after all that (`TokenWorks`)? Is `SystemInv` true? | 2 devices, 4 connections, 4 moves, 1 fault (a connection that the server gives up counts while its device is still on it), sync, pull, quit and registration: a reconnect after a lost answer while the old PUT is at any of its awaits, against the other device's PUT |
| `session` | does neither side refuse the other's frames (`OnlyOversizeIsRefused`), misread them (`Understood`) or wait in vain (`NoStandstill`), is no part of a cache loaded (`OnlyWholeCacheLoads`)? Is `SessionInv` true? | 3 connections of up to 3 processes, 4 requests, up to 2 refreshes; bytes of 4 values, frames of 20 bytes, a vault limit of 28, vaults that fill one or two frames exactly, miss that by one in either direction, or exceed the limit |
| `frames_stream` | are only whole vaults handed on (`OnlyWholePuts`), are buffers runs of fragments freed in time (`BufferIsRun`, `BufferExpires`), does the session of a vanished client end (`VanishedIsClosed`)? Is `StreamInv` true? | uploads of 2, 1, 2 and 5 fragments with a limit of 3; the fragment timeout is 2 ticks and the idle timeout 6, the code's 30 s and 90 s in units of 15 s |

`TypeOk` is checked in the first run of each module. `SafetyInv` and `RowIsRecent` (in
`server_put`), `SyncInv`, `StreamInv`, `SessionInv` and `SystemInv` are what the proofs
found to be inductive: the runs check them too. `ImplementsVersionedVault` and
`ImplementsSecVault` are refinements of safety: `VersionedVault` and the `Spec` of
`SecVault` state no fairness.

The bounds in the modules are `MaxReplies` (answers per connection), `MaxFrags`
(size limit in fragments), `MaxTime`, `MaxMoves` (what users do), `MaxFaults`,
`MaxConns` and `MaxAsked` (connections and requests of `SVPSession`), `Affordable`
(connections the server gives up in `SecVaultSystem`);
`TTL` stands for 24 h. Deadlock is checked in every run but `session`: `AllClosed`,
`Quiet` and `Closed` are the only states in which nothing has to happen. In `session`
the bounds on connections and requests end every behaviour; that nobody is stuck
before that is `NoStandstill`.

### Fairness

- `SVPServer!FairSpec`: weak fairness of every handler's own steps. The event
  loop runs every ready coroutine and database calls run in threads that finish;
  a handler that waits for the write lock either gets it or is thrown out by the
  busy timeout, so weak fairness is enough. Nothing is assumed of clients,
  timers, failures or crashes.
- `SecVault!FairSpec`: a client that is not waiting runs on, and a server that has
  a request on a live connection answers it or closes the connection; a broken connection is eventually
  noticed, which the client owes to TCP, since its `recv` has no timeout. Users
  need not do anything.
- `FrameStream!FairSpec`: the server's steps and the clock. The client may stop
  anywhere.

### Where the code and what is said of it differ

Each of these is a run that ends in a counterexample; the quotation is in
`findings` of `PROJECT.json`.

| Run | What the counterexample shows |
|---|---|
| `expired_session` | an established session stores vaults after its expiry |
| `sync_expired` | `ensure_session` cannot log in again after the token expired: `_expect` turns AUTH_FAIL into ERR_INTERNAL and the branch for ERR_SESSION_EXPIRED is dead (a bug) |
| `sync_removed` | an entry removed on one device comes back at its next merge |
| `frames_idle` | a silent session may live 120 s instead of 90 s |
| `frames_align` | a header consumed by a cancelled read is lost, and the payload is read as a header |

Differences that are plain from one line of the code and have no run:

- AUTH_OK always carries version 0 (`server.py:483`), not the vault's version
  (`SecVault_etap1.md:155`). Synchronisation depends on it: because a reconnected
  client believes in version 0, its PUT conflicts and it merges first. With the
  documented value it would overwrite unseen versions; the mutant of
  `WriterHadMerged` is exactly that change.
- A refreshed token stays valid (`server.py:470`; `SecVault_etap2.md:232` says the
  old one is invalidated).
- The read-only offline mode accepts edits, which are then lost (`secvault.py:268`;
  `secvault.py:171`, `:226`).
- The upload of a slow client that is still there is cut 30 s after its first
  fragment (`server.py:338`; `SecVault_etap1.md:342` speaks of a client that
  vanished).
- A `SEQ_ID` that is not new is not dropped, and the version byte is not checked by
  the server (`SecVault_etap1.md:165`, `:160`; `protocol.py:107`).
- A malformed frame closes the connection without the ERROR frame that
  `SecVault_etap1.md:160` to `:167` name (`server.py:677`).
- The client offers registration, and the server has no such message
  (`svpclient.py:166`, `protocol.py:18`).
- A wrong password is reported as an internal error (`svpclient.py:79`), so the hint
  at `secvault.py:221` is never shown.
- Of two entries that differ in nothing but the time stamp the local one is kept,
  also when it is the older (`vault.py:121`; `vault.py:112` says that the newer one is).
  Its older time stamp then lets an edit made in between win over the newest, so
  `EntriesOnlyAdvance` holds from one version to the next and not over several.

## What is proved

Every safety property that a run checks, of the server, the devices, the two together,
the frame stream and the session, for all values of the constants: any number of connections, users, vaults, devices,
entries, uploads and requests, any sizes and limits. What is assumed of the
constants stands in the modules as named assumptions: `None` is not one of the data,
bounds and timeouts are natural numbers, TOTP users are users
(`UsersAssumption`), in `SecVaultSystem` that `Absent` is no entry, `None` none of
the data and that its bounds are natural numbers (`SystemAssumption`), and for the bytes
(`WireAssumption`, `BlobLengthFits`, `SessionAssumption`) that a name's length fits into a byte and a vault's into four,
that everything but a vault fits into one frame, and that versions fit into their
eight bytes. The numbers of `protocol.py` and `framing.py` satisfy these with much room
(a base of 256, frames of 1 MiB, vaults of 50 MiB). `MaxConns < Base` in
`SessionAssumption` is about the model only: there a nonce is told from another by the
value of its bytes.

All proofs go the same way. A property is seldom inductive, since what a message
says when it is read depends on what its sender knew when it was built. So
each module has an inductive invariant that says what everybody knows in the
middle of an exchange. `Init` gives it, one lemma per action (or group of actions with the
same frame) keeps it, the properties follow.

### The server

- `TypeCorrect`: `Spec => [](TypeOk /\ ControlOk)`. `ControlOk` relates a handler's
  place to its protocol state and to the request it works on; it is what types
  `req[c].vault` and the like, so the two are proved together.
- `KnowledgeHolds`: `Spec => []SafetyInv`, the inductive invariant below; from it
  `VaultIsVersioned` (`RowIsLastPut`), `OwnerNeverChanges` (`OneOwner`), `AcksAreTrue`
  (`AckIsCommitted`), `AcksAreUnique` (`OneAckPerVersion`), `DataIsTrue` (`DataIsCommitted`) and
  `TokensAreStored` (`TokenIsStored`).
- `SessionsComeFromLogins`: `Spec => []SessionsBackedByLogin`.
- `ClientsNeverGoBack`: `Spec => []MonotonicReplies`, and `RowsAreRecent`
  (`RowIsRecent`), which it rests on.
- `ServerIsVersionedVault`: `Spec => ImplementsVersionedVault`, the refinement.

The properties of the server are not inductive: that an acknowledged
version is committed depends on what a handler knows between its read and its
answer. `SafetyInv` adds this knowledge, one conjunct per place:

- `RowWasCommitted`: a row that was read is a version in `hist`, though maybe no
  longer the current one;
- `PutWasChecked`: past the check, the base version of the request is that row's
  version, and the row is the user's;
- `TxnOk`: the write lock belongs to a handler between execute and commit, and
  the open transaction is the committed tables with that handler's one change;
- `PutIsDone`: after its commit, an upsert that hit is the entry of `hist` under its
  new version and nobody has acknowledged it;
- `SessionIsDone`, `EarlyReplies`: the same for sessions, and what may have been
  answered before a session exists.

`NextSafety` shows that every action keeps `SafetyInv`: the lemmas lean on three facts,
that `hist` only grows (`KeepTrue`), that an answer is checked against what its
handler knows (`TellTrue`), and that another handler's knowledge is not disturbed
(`KnownElsewhere`). The step that matters is `PutCommitSafety`: the lock keeps
the row as it was at execute, so the compare-and-set of the upsert holds at the
commit as well.

`SessionsComeFromLogins` is about who proved what. `SessionsBackedByLogin` speaks of
the stored sessions only; its invariant adds `HandlersBacked`: between the decision
to let a user in and the commit of the session, somebody has shown credentials
that prove this user from this client. As sessions are never changed or deleted
and credentials shown stay shown, what was backed once is backed for ever; the
one step to look at is `Authenticate`, where a valid refresh hands on the backing
of the session whose token it presents.

`ClientsNeverGoBack` needs that a row a handler holds is at least as new as all
its client was told (`RowIsRecent`). A handler answers one request at a time, so
nothing is told between the read and the answer, and the row read is the newest
there is. The refinement adds no invariant: with `log <- hist`, a
commit of an upsert that hit is an accepted write, an answer is a version told or
an acknowledgement by `SafetyInv` and `RowIsRecent`, and every other step of handlers, database,
clients and crashes changes nothing that `VersionedVault` speaks of.

### The devices

- `MergeKeepsEntries`, `MergeNeverBeatenByOlder`, `MergeIdempotent` about `merge_from`.
- `DevicesTyped` (`TypeOk`); `DevicesInStep` (`SyncInv`), the inductive invariant; from it
  `NoBlindOverwrite` (`WriterHadMerged`), `EntriesAdvance` (`EntriesOnlyAdvance`),
  `NothingForgotten` (`CleanMeansSaved`), `CacheCorrect` (`CacheIsVersion`) and
  `FailuresExplained` (`FailureHasCause`).

`SyncInv` says of every device what it has built on:

- `HoldsVersion`: the vault in memory goes on from the version the device names, which
  it has merged, and no entry of that version is missing or older but those its
  user removed; while the cache is written, it is that version;
- `InExchange`, `MessageOk`: what is on a connection belongs to what the device waits
  for, a PUT carries the vault in memory, an answer names what the server stores;
- `CauseKnown`: how often a PUT was refused is explained by the versions others have
  stored since;
- every PUT in `late` was built like one under way, so it does no harm whenever it
  arrives: either its base is the current version, which its device had merged,
  or it is refused;
- `Past`: nothing is stamped later than now, so an edit is newer than what it replaces.

The cases to look at are the reconnect, where version 0 makes `HoldsVersion` trivial
and the conflict that follows restores it, and the commit of a late PUT, which must keep
`HoldsVersion` of a device that has gone on meanwhile: its own version is still
one the server stores, only not the current one.

### Clients and server together

- `InStep`: `Spec => []SystemInv`, the inductive invariant; from it `TokensWork` (`TokenWorks`).
- `DevicesSeeSecVault`: `Spec => ImplementsSecVault`, the refinement.
- `SystemKeepsVaults`: so `WriterHadMerged`, `EntriesOnlyAdvance`, `CleanMeansSaved`,
  `CacheIsVersion` and `FailureHasCause` hold with the real handlers and crashes behind the
  devices, not only with the server of `SecVault`.

Both halves are reused, not proved again. Every server action of the composition is one
of `SVPServer` (`SameActions`) and leaves its other variables alone, so the types and
`SafetyInv` of `SVPServer` hold of the composition (`ServerNext`); every step is, seen
through `Answered`, one of `SecVault` or a stutter (`NextStep`), so its `SyncInv` holds too
(`DevicesNext`). The proof of a step may use all three invariants in the state before it.

`SystemInv` ties the two sides together:

- `LinkOk`: a device has a connection as long as it thinks so, for itself;
- `RequestOk`: the handler on a device's connection works on what this device waits for,
  and the answer is decided exactly when it can no longer change (`Settling`);
- `LateOk`: a PUT that is handled or unread though its device has gone is in `late`;
- `BaseOk`: a PUT is never checked against a version older than the one it was built on,
  and one that is refused was beaten by another;
- `SessionOk`, `HasToken`: a connection issues its token once, and a device that runs
  online holds one that is stored.

The steps to look at are those where a request is decided. `GetReadStep`: `get_vault` fixes the
answer of a read, although it is sent later and other PUTs may be committed meanwhile.
`HitStep`: a commit of an upsert that hit is `SecVault`'s `ServePut` if a device is on
the connection, and its `ServeLate` if that device has left. `MissStep`, `ConflictStep`: one that
missed, or was refused before, is a conflict in `SecVault` as well, since somebody
else has stored a version after the one it was based on (`HitsCurrent`, `BaseKnown`). `BreakStep`: whether a
PUT whose device leaves was stored, is late or is lost depends on how far its
handler is.

### The frame stream

- `StreamTyped` (`TypeOk`); `StreamInStep` (`StreamInv`), the inductive invariant; from it
  `WholePutsOnly` (`OnlyWholePuts`), `BufferInOrder` (`BufferIsRun`) and `FragmentsExpire`
  (`BufferExpires`).

`StreamInv`: what the client sends next, the wire, the header a read has consumed and
the buffer continue one another, unit by unit (`UploadOrder`, `WireOrder`, `PartOrder`,
`BufOrder`). A read that is cancelled in the middle of a frame is the one place where
this chain breaks: the buffer is emptied in the same step, and a payload read for a
header (`Garbage`) never makes a frame that is accepted. `ClocksInv`: the running read ends before the
buffered fragments are overdue, because its timeout was what was left to them.

### The wire and the session

- `NumbersReadBack`: a number that fits into its field is read back as it was written.
- `ServerUnderstands`, `ClientUnderstands`: each side's parsers turn what the other side's
  builders make of a message back into that message, for all values the fields
  have room for; the server refuses vaults above its limit only.
- `FragmentsTile`: the fragments of a payload of any length and for any frame size
  are full but for the last, which has at least a byte and ends the payload, and
  each begins where the one before ends; only the last is marked as the last.
- `WholeCacheLoads`: a whole cache loads as it was saved, no proper beginning of it loads.
- `SessionTyped` (`TypeOk`: besides bytes, counters and lengths, that a session key is
  made of a whole token and a whole nonce, and that the messages meant and
  understood have room in their fields); `SessionInStep` (`SessionInv`), the inductive invariant; from it
  `OnlyOversizeRefused` (`OnlyOversizeIsRefused`), `NeverStill` (`NoStandstill`),
  `CacheIsWhole` (`OnlyWholeCacheLoads`) and the action property `SidesUnderstand` (`Understood`).

`Number` sums up bytes by a recursive function, and the library's induction
theorems cannot be used. `NumbersReadBack` therefore takes the least index at which
the sum differs from the number modulo `Power`; there is one, as the
order on `Nat` is well-founded (`NatLessThanWellFounded`, `WFMin`), and at the index
before it, it does not differ.

`SessionInv` has four parts. `MemoryOk`: the memories hold fields of the right
length (`FieldsOk`, shared with `TypeOk`), and a client's token is one the server has issued to it. `VersionsOk`:
versions count requests, so they fit into their fields. `HandlerOk` and `ClientOk`: at
any time one message is under way at most, and what is in a queue together with
what its reader has put aside are the frames of that message (`UnderWay`), signed with
the key the reader has. The lemmas `NextFrame` (a frame that is taken leaves the
same message under way), `HandlerHead` and `ClientHead` (the frame at the head has the type, the
flags and the MAC its reader expects) are what all reading steps use; the parsing
itself is `ServerUnderstands` and `ClientUnderstands`.

### What is only model-checked

- All liveness: `Answered` and `WriteLockReleased`, `CommandsEnd`, `VanishedIsClosed`. The prover
  handles neither fairness nor ENABLED.
- The counterexamples of the five runs that end in one.

## What is not modelled, and why

- Ciphers, TLS, password hashing: an HMAC or a blob is right or it is not;
  decryption with the right key gives back what was encrypted. A fetched blob
  that cannot be decrypted is not modelled, as devices of a user share the key.
- SEQ_ID and the version byte, which the server does not verify; the reserved
  flags, which nobody sets; the clock skew check of HELLO (clocks agree).
- `ls`, `get`, `help`, `--selftest`, and lookup of entries by service name, which change
  no state.
- TOTP in `SecVault`: `main` never asks for a code. The server's side is in
  `SVPServer`, the wire format in `SVPSession`.
- Expired tokens and wrong passwords in `SecVaultSystem`; both are in the two modules
  it composes.
- The listening socket, certificates, logging, SQL as text.
- The C++ client, its stub server and its older binary contract.
- Devices with different clocks: `SecVault` has one clock.

## Plan

Done: `VaultDB`, `SVPServer`, `VersionedVault`, `FrameStream`, `VaultMerge`, `SecVault`, their
composition `SecVaultSystem`, `SVPWire` and `SVPSession`, with the runs above and
the proofs of all their safety properties.

Next, in this order:

1. `MergeList`: `merge_from` as the loop it is, on lists with duplicate ids,
   compared with `MergeFrom`.
2. `FrameStream` for the other direction: a client that stops reading while a
   fragmented VAULT_DATA is sent to it.
3. The C++ client's contract against the Python server's.
