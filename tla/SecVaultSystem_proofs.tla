------------------------- MODULE SecVaultSystem_proofs -------------------------
(***************************************************************************)
(* Clients and server together, for every value of the constants: the      *)
(* server of SecVaultSystem is SVPServer's, and to the devices it is the   *)
(* server of SecVault.                                                     *)
(***************************************************************************)
EXTENDS SecVaultSystem, TLAPS

\* What is proved of the two modules, for the instances that meet here.
SP == INSTANCE SVPServerSafety_proofs WITH
  Users <- {User}, Names <- {User}, TotpUsers <- {}, Clients <- Devices, Vaults <- {VaultId},
  Blobs <- D!Version, TTL <- 1, Frames <- S!Request, MaxReplies <- 4 * MaxMoves, MaxFrags <- 0,
  MaxTime <- 0, pc <- await, now <- clock
VP == INSTANCE SecVault_proofs WITH versions <- Versions, chan <- Answered, MaxTime <- 0

-----------------------------------------------------------------------------
\* The assumptions of the two modules.

LEMMA SameRequests == S!Request = SP!Request
  BY DEF S!Request, SP!Request, S!HelloReq, SP!HelloReq, S!AuthReq, SP!AuthReq, S!GetReq, SP!GetReq,
     S!PutReq, SP!PutReq, S!SignalReq, SP!SignalReq, S!Factors, SP!Factors

LEMMA ServerAssumptions ==
  SP!UsersAssumption /\ SP!BoundsAssumption /\ SP!FramesAssumption /\ SP!NoneAssumption
<1>1. SP!UsersAssumption
  BY DEF SP!UsersAssumption
<1>2. SP!BoundsAssumption
  BY SystemAssumption DEF SP!BoundsAssumption
<1>3. SP!FramesAssumption
  BY SameRequests DEF SP!FramesAssumption
<1>4. SP!NoneAssumption
  BY SystemAssumption DEF SP!NoneAssumption, SP!VaultRow, SP!SessionRow, SP!Txn,
     S!VaultRow, S!SessionRow, S!Txn
<1> QED
  BY <1>1, <1>2, <1>3, <1>4

LEMMA DeviceAssumptions == VP!BoundsAssumption /\ VP!AbsentAssumption
  BY SystemAssumption DEF VP!BoundsAssumption, VP!AbsentAssumption, VP!Entry, D!Entry

LEMMA ServerTypeInit == SP!Init => SP!Inv
  BY ServerAssumptions, SP!InitTypeInv, SP!InitSafetyInv DEF SP!Inv
LEMMA ServerNext == SP!Inv /\ [SP!Next]_SP!vars => SP!Inv'
  BY ServerAssumptions, SP!NextTypeInv, SP!NextSafety DEF SP!Inv
LEMMA DevicesInit == VP!Init => VP!TypeOk /\ VP!SyncInv
  BY DeviceAssumptions, VP!InitType, VP!InitSync
LEMMA DevicesNext == VP!TypeOk /\ VP!SyncInv /\ [VP!Next]_VP!vars => VP!TypeOk' /\ VP!SyncInv'
  BY DeviceAssumptions, VP!NextType, VP!NextSync

-----------------------------------------------------------------------------
\* The server's steps are SVPServer's.

LEMMA SameDatabase ==
  ASSUME NEW c
  PROVE  /\ S!Commit(c) => SP!Commit(c)
         /\ S!Rollback(c) => SP!Rollback(c)
         /\ S!CrashRollback => SP!CrashRollback
         /\ S!Finish(c) => SP!Finish(c)
         /\ S!Continue(c) => SP!Continue(c)
         /\ \A p : S!Goto(c, p) => SP!Goto(c, p)
         /\ \A r, rep : S!LogReply(c, r, rep) => SP!LogReply(c, r, rep)
         /\ \A s : S!Reading(c, s) => SP!Reading(c, s)
         /\ S!CanReply(c) => SP!CanReply(c)
         /\ S!Open(c) <=> SP!Open(c)
<1>1. S!Commit(c) => SP!Commit(c)
  BY DEF S!Commit, SP!Commit
<1>2. (S!Rollback(c) => SP!Rollback(c)) /\ (S!CrashRollback => SP!CrashRollback)
  BY DEF S!Rollback, SP!Rollback, S!CrashRollback, SP!CrashRollback
<1>3. S!Finish(c) => SP!Finish(c)
  BY <1>2 DEF S!Finish, SP!Finish
<1>4. \A p : S!Goto(c, p) => SP!Goto(c, p)
  BY DEF S!Goto, SP!Goto
<1>5. S!Continue(c) => SP!Continue(c)
  BY <1>4 DEF S!Continue, SP!Continue
<1>6. \A r, rep : S!LogReply(c, r, rep) => SP!LogReply(c, r, rep)
  BY DEF S!LogReply, SP!LogReply
<1>7. \A s : S!Reading(c, s) => SP!Reading(c, s)
  BY DEF S!Reading, SP!Reading
<1>8. S!CanReply(c) => SP!CanReply(c)
  BY DEF S!CanReply, SP!CanReply
<1>9. S!Open(c) <=> SP!Open(c)
  BY DEF S!Open, SP!Open
<1> QED
  BY <1>1, <1>2, <1>3, <1>4, <1>5, <1>6, <1>7, <1>8, <1>9

LEMMA SameGreeting ==
  ASSUME NEW c, NEW f
  PROVE  /\ S!Accept(c) => SP!Accept(c)
         /\ S!Hello(c, f) => SP!Hello(c, f)
         /\ S!Auth(c, f) => SP!Auth(c, f)
<1>1. S!Accept(c) => SP!Accept(c)
  BY SameDatabase DEF S!Accept, SP!Accept, S!dbVars, SP!dbVars
<1>2. S!Hello(c, f) => SP!Hello(c, f)
  BY SameDatabase DEF S!Hello, SP!Hello, S!dbVars, SP!dbVars
<1>3. S!Auth(c, f) => SP!Auth(c, f)
  BY SameDatabase DEF S!Auth, SP!Auth, S!dbVars, SP!dbVars, S!Presentable, SP!Presentable
<1> QED
  BY <1>1, <1>2, <1>3

LEMMA SameLogin ==
  ASSUME NEW c
  PROVE  /\ S!Authenticate(c) => SP!Authenticate(c)
         /\ S!SessionExecute(c) => SP!SessionExecute(c)
         /\ S!SessionCommit(c) => SP!SessionCommit(c)
         /\ S!AuthOk(c) => SP!AuthOk(c)
<1>1. S!AuthValid(c, req[c]) <=> SP!AuthValid(c, req[c])
  BY DEF S!AuthValid, SP!AuthValid, S!PasswordValid, SP!PasswordValid, S!RefreshValid, SP!RefreshValid
<1>2. S!Authenticate(c) => SP!Authenticate(c)
  BY <1>1, SameDatabase DEF S!Authenticate, SP!Authenticate, S!dbVars, SP!dbVars
<1>3. S!SessionExecute(c) => SP!SessionExecute(c)
  BY SameDatabase DEF S!SessionExecute, SP!SessionExecute, S!ExecuteSession, SP!ExecuteSession
<1>4. S!SessionCommit(c) => SP!SessionCommit(c)
  BY SameDatabase DEF S!SessionCommit, SP!SessionCommit
<1>5. S!AuthOk(c) => SP!AuthOk(c)
  BY SameDatabase DEF S!AuthOk, SP!AuthOk, S!dbVars, SP!dbVars
<1> QED
  BY <1>2, <1>3, <1>4, <1>5

LEMMA SameGet ==
  ASSUME NEW c, NEW f
  PROVE  /\ S!Ping(c, f) => SP!Ping(c, f)
         /\ S!VaultGet(c, f) => SP!VaultGet(c, f)
         /\ S!GetRead(c) => SP!GetRead(c)
         /\ S!GetDone(c) => SP!GetDone(c)
<1>1. S!Ping(c, f) => SP!Ping(c, f)
  BY SameDatabase DEF S!Ping, SP!Ping, S!dbVars, SP!dbVars
<1>2. S!VaultGet(c, f) => SP!VaultGet(c, f)
  BY SameDatabase DEF S!VaultGet, SP!VaultGet, S!dbVars, SP!dbVars
<1>3. S!GetRead(c) => SP!GetRead(c)
  BY SameDatabase DEF S!GetRead, SP!GetRead, S!ReadRow, SP!ReadRow, S!dbVars, SP!dbVars
<1>4. S!GetDone(c) => SP!GetDone(c)
  BY SameDatabase DEF S!GetDone, SP!GetDone, S!GetReply, SP!GetReply, S!ForeignRow, SP!ForeignRow,
     S!ErrorReply, SP!ErrorReply, S!dbVars, SP!dbVars
<1> QED
  BY <1>1, <1>2, <1>3, <1>4

LEMMA SamePut ==
  ASSUME NEW c, NEW f
  PROVE  /\ S!VaultPut(c, f) => SP!VaultPut(c, f)
         /\ S!PutRead(c) => SP!PutRead(c)
         /\ S!PutCheck(c) => SP!PutCheck(c)
         /\ S!PutExecute(c) => SP!PutExecute(c)
         /\ S!PutCommit(c) => SP!PutCommit(c)
         /\ S!PutDone(c) => SP!PutDone(c)
<1> USE DEF S!dbVars, SP!dbVars
<1>1. S!VaultPut(c, f) => SP!VaultPut(c, f)
  BY SameDatabase DEF S!VaultPut, SP!VaultPut
<1>2. S!PutRead(c) => SP!PutRead(c)
  BY SameDatabase DEF S!PutRead, SP!PutRead, S!ReadRow, SP!ReadRow
<1>3. (S!ForeignRow(c) <=> SP!ForeignRow(c)) /\ S!CurrentVersion(c) = SP!CurrentVersion(c)
  BY DEF S!ForeignRow, SP!ForeignRow, S!CurrentVersion, SP!CurrentVersion
<1>4. S!NewVersion(c) = SP!NewVersion(c)
  BY <1>3 DEF S!NewVersion, SP!NewVersion
<1>5. S!PutCheck(c) => SP!PutCheck(c)
  BY <1>3, SameDatabase DEF S!PutCheck, SP!PutCheck, S!ErrorReply, SP!ErrorReply
<1>6. S!PutExecute(c) => SP!PutExecute(c)
  BY <1>4, SameDatabase DEF S!PutExecute, SP!PutExecute, S!ExecuteUpsert, SP!ExecuteUpsert,
     S!UpsertHits, SP!UpsertHits
<1>7. S!PutCommit(c) => SP!PutCommit(c)
  BY SameDatabase DEF S!PutCommit, SP!PutCommit
<1>8. S!PutReply(c) = SP!PutReply(c)
  BY <1>4 DEF S!PutReply, SP!PutReply, S!ErrorReply, SP!ErrorReply
<1>9. S!PutDone(c) => SP!PutDone(c)
  BY <1>8, SameDatabase DEF S!PutDone, SP!PutDone
<1> QED
  BY <1>1, <1>2, <1>5, <1>6, <1>7, <1>9

LEMMA SameEnds ==
  ASSUME NEW c
  PROVE  /\ S!ReadEnds(c) => SP!ReadEnds(c)
         /\ S!BusyTimeout(c) => SP!BusyTimeout(c)
         /\ S!HandlerFails(c) => SP!HandlerFails(c)
         /\ S!Crash => SP!Crash
<1>1. S!ReadEnds(c) => SP!ReadEnds(c)
  BY SameDatabase DEF S!ReadEnds, SP!ReadEnds
<1>2. S!BusyTimeout(c) => SP!BusyTimeout(c)
  BY SameDatabase DEF S!BusyTimeout, SP!BusyTimeout, S!LockedByOther, SP!LockedByOther
<1>3. S!HandlerFails(c) => SP!HandlerFails(c)
  BY SameDatabase DEF S!HandlerFails, SP!HandlerFails
<1>4. S!Crash => SP!Crash
  BY SameDatabase DEF S!Crash, SP!Crash, S!Open, SP!Open
<1> QED
  BY <1>1, <1>2, <1>3, <1>4

-----------------------------------------------------------------------------
\* The devices' steps are SecVault's, with the answers a device has not yet read in
\* place of what is on its connection.

\* A device that waits for no settled answer sees its connection as it is.
SameToDevice(d) ==
  /\ Answered[d] = chan[d]
  /\ \A m : chan' = [chan EXCEPT ![d] = m] => Answered' = [Answered EXCEPT ![d] = m]
  /\ chan' = chan => Answered' = Answered
  /\ Versions' = Versions

LEMMA SameNames ==
  /\ D!Syncs = VP!Syncs /\ D!Prompts = VP!Prompts /\ D!Waiting = VP!Waiting
  /\ D!CommandPcs = VP!CommandPcs /\ D!Saving = VP!Saving /\ D!Openings = VP!Openings
  /\ D!EmptyVault = VP!EmptyVault /\ D!NoTrouble = VP!NoTrouble
  /\ \A c : D!Present(c) = VP!Present(c)
  /\ \A d, why : D!Caused(d, why) = VP!Caused(d, why)
  /\ \A l, s : D!MergeFrom(l, s) = VP!MergeFrom(l, s)
  /\ \A c, i, val, n : D!Stored(c, i, val, n) = VP!Stored(c, i, val, n)
  /\ \A c, i : D!Removed(c, i) = VP!Removed(c, i)
  /\ \A d, n, c, s, g : D!PutOf(d, n, c, s, g) = VP!PutOf(d, n, c, s, g)
<1>1. /\ D!Syncs = VP!Syncs /\ D!Prompts = VP!Prompts /\ D!Waiting = VP!Waiting
      /\ D!CommandPcs = VP!CommandPcs /\ D!Saving = VP!Saving /\ D!Openings = VP!Openings
      /\ D!EmptyVault = VP!EmptyVault /\ D!NoTrouble = VP!NoTrouble
  BY DEF D!Syncs, VP!Syncs, D!Prompts, VP!Prompts, D!Waiting, VP!Waiting, D!CommandPcs, VP!CommandPcs,
     D!Saving, VP!Saving, D!Openings, VP!Openings, D!EmptyVault, VP!EmptyVault, D!NoTrouble, VP!NoTrouble
<1>2. /\ \A c : D!Present(c) = VP!Present(c)
      /\ \A d, why : D!Caused(d, why) = VP!Caused(d, why)
      /\ \A l, s : D!MergeFrom(l, s) = VP!MergeFrom(l, s)
  BY DEF D!Present, VP!Present, D!Caused, VP!Caused, D!MergeFrom, VP!MergeFrom, D!ServerWins, VP!ServerWins
<1>3. /\ \A c, i, val, n : D!Stored(c, i, val, n) = VP!Stored(c, i, val, n)
      /\ \A c, i : D!Removed(c, i) = VP!Removed(c, i)
      /\ \A d, n, c, s, g : D!PutOf(d, n, c, s, g) = VP!PutOf(d, n, c, s, g)
  BY DEF D!Stored, VP!Stored, D!Removed, VP!Removed, D!PutOf, VP!PutOf
<1> QED
  BY <1>1, <1>2, <1>3

\* The blocks the actions are built from.
LEMMA SameBlocks ==
  ASSUME NEW d, SameToDevice(d)
  PROVE  /\ \A p : D!Goto(d, p) => VP!Goto(d, p)
         /\ \A m : D!Ask(d, m) => VP!Ask(d, m)
         /\ \A p, type : D!Got(d, p, type) => VP!Got(d, p, type)
         /\ D!Move => VP!Move
         /\ D!Fault => VP!Fault
         /\ D!PowerOff(d) => VP!PowerOff(d)
         /\ D!Prompt(d) => VP!Prompt(d)
         /\ \A why : D!CommandFails(d, why) => VP!CommandFails(d, why)
         /\ D!LoadCache(d) => VP!LoadCache(d)
         /\ D!MergeFetched(d) => VP!MergeFetched(d)
         /\ \A n : D!Proceed(d, n) => VP!Proceed(d, n)
         /\ \A command : D!EnsureSession(d, command) => VP!EnsureSession(d, command)
<1> USE DEF SameToDevice, D!vaultVars, VP!vaultVars, D!serverVars, VP!serverVars
<1>1. \A p : D!Goto(d, p) => VP!Goto(d, p)
  BY DEF D!Goto, VP!Goto
<1>2. \A m : D!Ask(d, m) => VP!Ask(d, m)
  BY DEF D!Ask, VP!Ask
<1>3. \A p, type : D!Got(d, p, type) => VP!Got(d, p, type)
  BY DEF D!Got, VP!Got
<1>4. (D!Move => VP!Move) /\ (D!Fault => VP!Fault)
  BY DEF D!Move, VP!Move, D!Fault, VP!Fault
<1>5. D!PowerOff(d) => VP!PowerOff(d)
  BY <1>1, SameNames DEF D!PowerOff, VP!PowerOff
<1>6. D!Prompt(d) => VP!Prompt(d)
  BY <1>1, <1>2 DEF D!Prompt, VP!Prompt
<1>7. \A why : D!CommandFails(d, why) => VP!CommandFails(d, why)
  BY <1>5, <1>6 DEF D!CommandFails, VP!CommandFails
<1>8. D!LoadCache(d) => VP!LoadCache(d)
  BY <1>1, <1>5 DEF D!LoadCache, VP!LoadCache
<1>9. D!MergeFetched(d) => VP!MergeFetched(d)
  BY SameNames DEF D!MergeFetched, VP!MergeFetched, D!Merged, VP!Merged
<1>10. \A n : D!Proceed(d, n) => VP!Proceed(d, n)
  BY <1>1, <1>2, <1>6, SameNames DEF D!Proceed, VP!Proceed
<1>11. \A command : D!EnsureSession(d, command) => VP!EnsureSession(d, command)
  BY <1>1, <1>2, SameNames DEF D!EnsureSession, VP!EnsureSession
<1> QED
  BY <1>1, <1>2, <1>3, <1>4, <1>5, <1>6, <1>7, <1>8, <1>9, <1>10, <1>11

LEMMA SameActions ==
  ASSUME NEW d, SameToDevice(d)
  PROVE  /\ D!UserStep(d) => VP!UserStep(d)
         /\ D!StartConnect(d) => VP!StartConnect(d)
         /\ D!LoggedIn(d) => VP!LoggedIn(d)
         /\ D!FirstFetch(d) => VP!FirstFetch(d)
         /\ D!OpenCache(d) => VP!OpenCache(d)
         /\ D!SaveCache(d) => VP!SaveCache(d)
         /\ D!Pong(d) => VP!Pong(d)
         /\ D!PingFails(d) => VP!PingFails(d)
         /\ D!Connect(d) => VP!Connect(d)
         /\ D!Refreshed(d) => VP!Refreshed(d)
         /\ D!PutAcked(d) => VP!PutAcked(d)
         /\ D!PutConflict(d) => VP!PutConflict(d)
         /\ D!ConflictFetched(d) => VP!ConflictFetched(d)
         /\ D!PullFetched(d) => VP!PullFetched(d)
         /\ D!PullNotFound(d) => VP!PullNotFound(d)
         /\ D!CommandBreaks(d) => VP!CommandBreaks(d)
         /\ D!StartFails(d) => VP!StartFails(d)
         /\ D!ConnectFails(d) => VP!ConnectFails(d)
         /\ D!SaveFails(d) => VP!SaveFails(d)
<1> USE SameBlocks, SameNames DEF SameToDevice, D!serverVars, VP!serverVars, D!linkVars, VP!linkVars,
     D!vaultVars, VP!vaultVars, D!userVars, VP!userVars
<1>1. D!Start(d) => VP!Start(d)
  BY DEF D!Start, VP!Start
<1>2. D!StartOffline(d) => VP!StartOffline(d)
  BY DEF D!StartOffline, VP!StartOffline
<1>3. D!Command(d) => VP!Command(d)
  BY DEF D!Command, VP!Command
<1>4. D!Quit(d) => VP!Quit(d)
  BY DEF D!Quit, VP!Quit
<1>5. D!Add(d) => VP!Add(d)
  BY DEF D!Add, VP!Add, D!Editing, VP!Editing
<1>6. D!Edit(d) => VP!Edit(d)
  BY DEF D!Edit, VP!Edit, D!Editing, VP!Editing
<1>7. D!Remove(d) => VP!Remove(d)
  BY DEF D!Remove, VP!Remove, D!Editing, VP!Editing
<1>8. D!UserStep(d) => VP!UserStep(d)
  BY <1>1, <1>2, <1>3, <1>4, <1>5, <1>6, <1>7 DEF D!UserStep, VP!UserStep
<1>9. D!StartConnect(d) => VP!StartConnect(d)
  BY DEF D!StartConnect, VP!StartConnect
<1>10. D!LoggedIn(d) => VP!LoggedIn(d)
  BY DEF D!LoggedIn, VP!LoggedIn
<1>11. D!FirstFetch(d) => VP!FirstFetch(d)
  BY DEF D!FirstFetch, VP!FirstFetch
<1>12. D!OpenCache(d) => VP!OpenCache(d)
  BY DEF D!OpenCache, VP!OpenCache
<1>13. D!SaveCache(d) => VP!SaveCache(d)
  BY DEF D!SaveCache, VP!SaveCache
<1>14. D!Pong(d) => VP!Pong(d)
  BY DEF D!Pong, VP!Pong
<1>15. D!PingFails(d) => VP!PingFails(d)
  BY DEF D!PingFails, VP!PingFails
<1>16. D!Connect(d) => VP!Connect(d)
  BY DEF D!Connect, VP!Connect
<1>17. D!Refreshed(d) => VP!Refreshed(d)
  BY DEF D!Refreshed, VP!Refreshed
<1>18. D!PutAcked(d) => VP!PutAcked(d)
  BY DEF D!PutAcked, VP!PutAcked
<1>19. D!PutConflict(d) => VP!PutConflict(d)
  BY DEF D!PutConflict, VP!PutConflict
<1>20. D!ConflictFetched(d) => VP!ConflictFetched(d)
  BY DEF D!ConflictFetched, VP!ConflictFetched
<1>21. D!PullFetched(d) => VP!PullFetched(d)
  BY DEF D!PullFetched, VP!PullFetched
<1>22. D!PullNotFound(d) => VP!PullNotFound(d)
  BY DEF D!PullNotFound, VP!PullNotFound
<1>23. D!CommandBreaks(d) => VP!CommandBreaks(d)
  BY DEF D!CommandBreaks, VP!CommandBreaks
<1>24. D!StartFails(d) => VP!StartFails(d)
  BY DEF D!StartFails, VP!StartFails
<1>25. D!ConnectFails(d) => VP!ConnectFails(d)
  BY DEF D!ConnectFails, VP!ConnectFails
<1>26. D!SaveFails(d) => VP!SaveFails(d)
  BY DEF D!SaveFails, VP!SaveFails
<1> QED
  BY <1>8, <1>9, <1>10, <1>11, <1>12, <1>13, <1>14, <1>15, <1>16, <1>17, <1>18, <1>19, <1>20, <1>21, <1>22, <1>23, <1>24, <1>25, <1>26

-----------------------------------------------------------------------------
\* The inductive invariant: each module's own, and what relates them.

IInv == SP!Inv /\ VP!TypeOk /\ VP!SyncInv /\ SystemInv

\* SP!TypeOk and SP!ControlOk, on the server's variables.
LEMMA ServerTypes ==
  ASSUME SP!Inv
  PROVE  /\ state \in [Conns -> {"new", "GREETING", "AUTHENTICATING", "ESTABLISHED", "closed"}]
         /\ await \in [Conns -> {"read", "done"} \cup S!AuthPcs \cup S!GetPcs \cup S!PutPcs]
         /\ client \in [Conns -> Devices \cup {None}]
         /\ user \in [Conns -> {User, None}]
         /\ expiry \in [Conns -> Nat]
         /\ req \in [Conns -> S!Request \cup {None}]
         /\ row \in [Conns -> S!VaultRow \cup {None}]
         /\ hit \in [Conns -> BOOLEAN]
         /\ DOMAIN log = Conns
         /\ \A c \in Conns : Len(log[c]) \in Nat /\ DOMAIN log[c] = 1..Len(log[c])
         /\ vaults \in [{VaultId} -> S!VaultRow \cup {None}]
         /\ sessions \in [Conns -> S!SessionRow \cup {None}]
         /\ DOMAIN hist = {VaultId}
<1>1. SP!TypeOk
  BY DEF SP!Inv, SP!TypeInv
<1>2. S!SessionRow = SP!SessionRow /\ S!VaultRow = SP!VaultRow
  BY DEF S!SessionRow, SP!SessionRow, S!VaultRow, SP!VaultRow
<1>3. \A c \in Conns : log[c] \in Seq(SP!Exchange)
  BY <1>1 DEF SP!TypeOk
<1>4. \A c \in Conns : Len(log[c]) \in Nat /\ DOMAIN log[c] = 1..Len(log[c])
  BY <1>3
<1> QED
  BY <1>1, <1>2, <1>4, SameRequests DEF SP!TypeOk, SP!DbTypeOk, SP!States, SP!Pcs, S!AuthPcs, S!GetPcs, S!PutPcs

LEMMA ServerControl ==
  ASSUME SP!Inv, NEW c \in Conns
  PROVE  /\ state[c] = "closed" <=> await[c] = "done"
         /\ state[c] \in {"new", "GREETING"} => await[c] = "read"
         /\ state[c] = "AUTHENTICATING" => await[c] \in {"read"} \cup S!AuthPcs
         /\ state[c] = "ESTABLISHED" => await[c] \in {"read"} \cup S!GetPcs \cup S!PutPcs
         /\ state[c] = "ESTABLISHED" \/ await[c] \in S!AuthPcs \ {"auth"} => user[c] = User
         /\ await[c] \in S!AuthPcs => req[c] \in S!AuthReq
         /\ await[c] \in S!GetPcs => req[c] \in S!GetReq
         /\ await[c] \in S!PutPcs => req[c] \in S!PutReq
<1>1. SP!ControlOk
  BY DEF SP!Inv, SP!TypeInv
<1>2. S!AuthReq = SP!AuthReq /\ S!GetReq = SP!GetReq /\ S!PutReq = SP!PutReq
  BY DEF S!AuthReq, SP!AuthReq, S!GetReq, SP!GetReq, S!PutReq, SP!PutReq, S!Factors, SP!Factors
<1>3. S!AuthPcs = SP!AuthPcs /\ S!GetPcs = SP!GetPcs /\ S!PutPcs = SP!PutPcs
  BY DEF S!AuthPcs, SP!AuthPcs, S!GetPcs, SP!GetPcs, S!PutPcs, SP!PutPcs
<1> QED
  BY <1>1, <1>2, <1>3 DEF SP!ControlOk

\* The history is a sequence of PUTs, and Versions of what they stored.
LEMMA VersionsOfHistory ==
  ASSUME SP!Inv
  PROVE  /\ Len(Versions) = Len(hist[VaultId]) /\ Len(Versions) \in Nat
         /\ Versions \in Seq(D!Version)
         /\ DOMAIN hist[VaultId] = 1..Len(Versions)
         /\ \A n \in 1..Len(Versions) : hist[VaultId][n].user = User /\ Versions[n] = hist[VaultId][n].blob
                                    /\ Versions[n] \in D!Version
<1>1. hist[VaultId] \in Seq([by : Conns, user : {User}, blob : D!Version])
  BY DEF SP!Inv, SP!TypeInv, SP!TypeOk, SP!Accepted
<1> DEFINE T == [by : Conns, user : {User}, blob : D!Version]
           h == hist[VaultId]
<1>2. /\ Len(h) \in Nat /\ DOMAIN h = 1..Len(h)
      /\ \A n \in 1..Len(h) : h[n] \in T
  <2> HIDE DEF T, h
  <2>1. h \in Seq(T)
    BY <1>1 DEF T, h
  <2> QED
    BY <2>1
<1>3. Versions = [n \in 1..Len(hist[VaultId]) |-> hist[VaultId][n].blob]
  BY <1>2 DEF Versions
<1>4. Len(Versions) = Len(hist[VaultId])
  BY <1>2, <1>3
<1>5. Versions \in Seq(D!Version)
  <2> DEFINE B == D!Version
  <2>1. \A n \in 1..Len(h) : h[n].blob \in B
    BY <1>2
  <2> HIDE DEF B
  <2> QED
    BY <1>2, <1>3, <2>1
<1> QED
  BY <1>2, <1>3, <1>4, <1>5

\* What a device waits for, when no answer is settled yet, is on its connection.
LEMMA OnTheLink ==
  ASSUME IInv, NEW d \in Devices
  PROVE  /\ Answered[d] = IF decided[d] # None THEN decided[d] ELSE chan[d]
         /\ decided[d] # None => chan[d] # None /\ chan[d].type \in {"GET", "PUT"}
         /\ chan[d] # None => link[d] = "up" /\ pc[d] \in D!Waiting
         /\ decided[d] = None => D!InExchange(d)
<1>1. Answered[d] = IF decided[d] # None THEN decided[d] ELSE chan[d]
  BY DEF Answered
<1>2. decided[d] # None => chan[d] # None /\ chan[d].type \in {"GET", "PUT"}
  BY DEF IInv, SystemInv, RequestOk, D!Asked
<1>3. VP!InExchange(d)
  BY DEF IInv, VP!SyncInv
<1>4. chan[d] # None => link[d] = "up" /\ pc[d] \in D!Waiting
  BY <1>1, <1>3 DEF VP!InExchange, D!Waiting
<1>5. decided[d] = None => D!InExchange(d)
  BY <1>1, <1>3 DEF VP!InExchange, D!InExchange
<1> QED
  BY <1>1, <1>2, <1>4, <1>5

LEMMA SeesItsLink ==
  ASSUME IInv, NEW d \in Devices, decided[d] = None, UNCHANGED <<hist, decided>>
  PROVE  SameToDevice(d)
<1>1. Answered[d] = chan[d] /\ (chan' = chan => Answered' = Answered)
  BY DEF Answered
<1>2. DOMAIN chan = Devices
  BY DEF IInv, SystemInv, LinkTypes
<1>3. ASSUME NEW m, chan' = [chan EXCEPT ![d] = m]
      PROVE  Answered' = [Answered EXCEPT ![d] = m]
  BY <1>2, <1>3 DEF Answered
<1>4. Versions' = Versions
  BY DEF Versions
<1> QED
  BY <1>1, <1>3, <1>4 DEF SameToDevice

\* While an answer is settled and not yet read, the device waits.
LEMMA Undecided ==
  ASSUME NEW d, chan[d] # None, chan[d].type \in {"GET", "PUT"}, link[d] = "up", pc[d] \in D!Waiting
  PROVE  /\ ~ D!UserStep(d) /\ ~ D!StartConnect(d) /\ ~ D!LoggedIn(d) /\ ~ D!FirstFetch(d)
         /\ ~ D!OpenCache(d) /\ ~ D!SaveCache(d) /\ ~ D!Pong(d) /\ ~ D!PingFails(d)
         /\ ~ D!Connect(d) /\ ~ D!Refreshed(d) /\ ~ D!PutAcked(d) /\ ~ D!PutConflict(d)
         /\ ~ D!ConflictFetched(d) /\ ~ D!PullFetched(d) /\ ~ D!PullNotFound(d)
         /\ ~ D!CommandBreaks(d) /\ ~ D!StartFails(d) /\ ~ D!ConnectFails(d) /\ ~ D!SaveFails(d)
<1>1. ~ D!UserStep(d)
  BY DEF D!UserStep, D!Start, D!StartOffline, D!Add, D!Edit, D!Remove, D!Editing, D!Command, D!Quit,
     D!Waiting, D!Prompts
<1>2. /\ ~ D!StartConnect(d) /\ ~ D!OpenCache(d) /\ ~ D!SaveCache(d) /\ ~ D!Connect(d)
      /\ ~ D!ConnectFails(d) /\ ~ D!SaveFails(d)
  BY DEF D!StartConnect, D!OpenCache, D!SaveCache, D!Connect, D!ConnectFails, D!SaveFails, D!Saving, D!Waiting
<1>3. /\ ~ D!LoggedIn(d) /\ ~ D!FirstFetch(d) /\ ~ D!Pong(d) /\ ~ D!Refreshed(d) /\ ~ D!PutAcked(d)
      /\ ~ D!PutConflict(d) /\ ~ D!ConflictFetched(d) /\ ~ D!PullFetched(d) /\ ~ D!PullNotFound(d)
  BY DEF D!LoggedIn, D!FirstFetch, D!Pong, D!Refreshed, D!PutAcked, D!PutConflict, D!ConflictFetched,
     D!PullFetched, D!PullNotFound, D!Got
<1>4. ~ D!PingFails(d) /\ ~ D!CommandBreaks(d) /\ ~ D!StartFails(d)
  BY DEF D!PingFails, D!CommandBreaks, D!StartFails, D!Waiting
<1> QED
  BY <1>1, <1>2, <1>3, <1>4

\* What a step of a device changes of what it shares with the server.
Holding == {"first_fetch", "connect", "repl"} \cup D!Saving \cup D!CommandPcs
DeviceMoves(d) ==
  /\ UNCHANGED <<live, late>>
  /\ chan' = [chan EXCEPT ![d] = chan'[d]]
  /\ pc' = [pc EXCEPT ![d] = pc'[d]]
  /\ link' = [link EXCEPT ![d] = link'[d]]
  /\ chan[d] # None /\ chan[d].type \in {"LOGIN", "REFRESH", "GET", "PUT"} =>
       chan'[d] = chan[d] /\ link'[d] = link[d] /\ pc'[d] # "off"
  /\ chan'[d] # chan[d] /\ chan'[d] # None => chan'[d].type # "AUTH_OK"
  /\ link'[d] = "up" => link[d] = "up"
StillHolds(d) == pc'[d] \in Holding => pc[d] \in Holding

LEMMA DevicesMove ==
  ASSUME IInv, NEW d \in Devices, decided[d] = None, UNCHANGED <<serverVars, decided>>
  PROVE  /\ D!LoggedIn(d) => DeviceMoves(d)
         /\ D!Refreshed(d) => DeviceMoves(d)
         /\ D!FirstFetch(d) => DeviceMoves(d) /\ StillHolds(d)
         /\ D!OpenCache(d) => DeviceMoves(d) /\ StillHolds(d)
         /\ D!SaveCache(d) => DeviceMoves(d) /\ StillHolds(d)
         /\ D!Pong(d) => DeviceMoves(d) /\ StillHolds(d)
         /\ D!PingFails(d) => DeviceMoves(d) /\ StillHolds(d)
         /\ D!PutAcked(d) => DeviceMoves(d) /\ StillHolds(d)
         /\ D!PutConflict(d) => DeviceMoves(d) /\ StillHolds(d)
         /\ D!ConflictFetched(d) => DeviceMoves(d) /\ StillHolds(d)
         /\ D!PullFetched(d) => DeviceMoves(d) /\ StillHolds(d)
         /\ D!PullNotFound(d) => DeviceMoves(d) /\ StillHolds(d)
         /\ D!CommandBreaks(d) => DeviceMoves(d) /\ StillHolds(d)
         /\ D!StartFails(d) => DeviceMoves(d) /\ StillHolds(d)
         /\ D!UserStep(d) => DeviceMoves(d) /\ StillHolds(d)
         /\ D!ConnectFails(d) => DeviceMoves(d) /\ StillHolds(d)
         /\ D!SaveFails(d) => DeviceMoves(d) /\ StillHolds(d)
<1>1. /\ chan = [chan EXCEPT ![d] = chan[d]] /\ pc = [pc EXCEPT ![d] = pc[d]]
      /\ link = [link EXCEPT ![d] = link[d]]
      /\ DOMAIN chan = Devices /\ DOMAIN pc = Devices /\ DOMAIN link = Devices
  BY DEF IInv, SystemInv, LinkTypes, VP!TypeOk
<1>2. chan[d] # None => link[d] = "up" /\ pc[d] \in D!Waiting
  BY OnTheLink
<1> USE <1>1, <1>2 DEF DeviceMoves, StillHolds, Holding, D!Goto, D!Ask, D!Got, D!Prompt, D!PowerOff, D!CommandFails, D!LoadCache, D!Proceed, D!EnsureSession, D!serverVars, D!linkVars, D!vaultVars, D!userVars,
     D!Waiting, D!CommandPcs, D!Saving, D!Prompts, D!Syncs
<1>3. D!LoggedIn(d) => DeviceMoves(d)
  BY DEF D!LoggedIn
<1>4. D!Refreshed(d) => DeviceMoves(d)
  BY DEF D!Refreshed, D!PutOf
<1>5. D!FirstFetch(d) => DeviceMoves(d) /\ StillHolds(d)
  BY DEF D!FirstFetch
<1>6. D!OpenCache(d) => DeviceMoves(d) /\ StillHolds(d)
  BY DEF D!OpenCache
<1>7. D!SaveCache(d) => DeviceMoves(d) /\ StillHolds(d)
  BY DEF D!SaveCache
<1>8. D!Pong(d) => DeviceMoves(d) /\ StillHolds(d)
  BY DEF D!Pong, D!PutOf
<1>9. D!PingFails(d) => DeviceMoves(d) /\ StillHolds(d)
  BY DEF D!PingFails
<1>10. D!PutAcked(d) => DeviceMoves(d) /\ StillHolds(d)
  BY DEF D!PutAcked
<1>11. D!PutConflict(d) => DeviceMoves(d) /\ StillHolds(d)
  BY DEF D!PutConflict
<1>12. D!ConflictFetched(d) => DeviceMoves(d) /\ StillHolds(d)
  BY DEF D!ConflictFetched, D!PutOf, D!MergeFetched
<1>13. D!PullFetched(d) => DeviceMoves(d) /\ StillHolds(d)
  BY DEF D!PullFetched, D!MergeFetched
<1>14. D!PullNotFound(d) => DeviceMoves(d) /\ StillHolds(d)
  BY DEF D!PullNotFound
<1>15. D!CommandBreaks(d) => DeviceMoves(d) /\ StillHolds(d)
  BY DEF D!CommandBreaks
<1>16. D!StartFails(d) => DeviceMoves(d) /\ StillHolds(d)
  BY DEF D!StartFails
<1>17. D!Start(d) => DeviceMoves(d) /\ StillHolds(d)
  BY DEF D!Start
<1>18. D!StartOffline(d) => DeviceMoves(d) /\ StillHolds(d)
  BY DEF D!StartOffline
<1>19. D!Add(d) => DeviceMoves(d) /\ StillHolds(d)
  BY DEF D!Add, D!Editing
<1>20. D!Edit(d) => DeviceMoves(d) /\ StillHolds(d)
  BY DEF D!Edit, D!Editing
<1>21. D!Remove(d) => DeviceMoves(d) /\ StillHolds(d)
  BY DEF D!Remove, D!Editing
<1>22. D!Command(d) => DeviceMoves(d) /\ StillHolds(d)
  BY DEF D!Command
<1>23. D!Quit(d) => DeviceMoves(d) /\ StillHolds(d)
  BY DEF D!Quit
<1>24. D!UserStep(d) => DeviceMoves(d) /\ StillHolds(d)
  BY ONLY <1>17, <1>18, <1>19, <1>20, <1>21, <1>22, <1>23 DEF D!UserStep
<1>25. D!ConnectFails(d) => DeviceMoves(d) /\ StillHolds(d)
  BY DEF D!ConnectFails
<1>26. D!SaveFails(d) => DeviceMoves(d) /\ StillHolds(d)
  BY DEF D!SaveFails
<1> QED
  BY ONLY <1>3, <1>4, <1>5, <1>6, <1>7, <1>8, <1>9, <1>10, <1>11, <1>12, <1>13, <1>14, <1>15, <1>16, <1>24, <1>25, <1>26

\* Such a step keeps what relates devices and server, when the device drops its
\* connection with its link, and knows a token that is stored.
LEMMA DeviceKeeps ==
  ASSUME IInv, VP!TypeOk', VP!SyncInv', NEW d \in Devices, decided[d] = None, DeviceMoves(d),
         UNCHANGED <<serverVars, unread, decided>>,
         conn' = [conn EXCEPT ![d] = IF link'[d] = "up" THEN @ ELSE None],
         token' = [token EXCEPT ![d] = token'[d]],
         token'[d] # token[d] =>
           /\ chan[d] # None => chan[d].type \notin {"LOGIN", "REFRESH", "GET", "PUT"}
           /\ token'[d] = None \/ (token'[d] \in Conns /\ Stored(token'[d], d)),
         pc'[d] \in Holding => token'[d] # None /\ live[d]
  PROVE  SystemInv'
<1> USE DEF DeviceMoves
<1>1. LinkTypes /\ clock = 0 /\ TokenWorks /\ (\A e \in Devices : LinkOk(e) /\ RequestOk(e) /\ HasToken(e))
      /\ (\A c \in Conns : LateOk(c) /\ BaseOk(c) /\ SessionOk(c))
  BY DEF IInv, SystemInv
<1>2. DOMAIN chan = Devices /\ DOMAIN pc = Devices /\ DOMAIN link = Devices /\ DOMAIN conn = Devices
      /\ DOMAIN token = Devices
  BY <1>1 DEF IInv, LinkTypes, VP!TypeOk
<1>3. \A e \in Devices \ {d} : /\ chan'[e] = chan[e] /\ pc'[e] = pc[e] /\ link'[e] = link[e]
                               /\ conn'[e] = conn[e] /\ token'[e] = token[e]
  BY <1>2
<1>4. conn'[d] = IF link'[d] = "up" THEN conn[d] ELSE None
  BY <1>2
<1>5. UNCHANGED <<serverVars, unread, decided, live, late, clock>> /\ Versions' = Versions
  BY DEF serverVars, Versions
<1>6. \A e \in Devices : Answered'[e] = IF decided[e] # None THEN decided[e] ELSE chan'[e]
  BY <1>5 DEF Answered
<1>7. chan'[d] \in D!Message \cup {None}
  <2>1. Answered'[d] \in VP!Message \cup {None}
    BY DEF VP!TypeOk
  <2>2. VP!Message = D!Message
    BY DEF VP!Message, D!Message, VP!PutRequest, D!PutRequest, VP!Content, D!Content, VP!Entry, D!Entry
  <2> QED
    BY <1>6, <2>1, <2>2
<1>8. LinkTypes'
  <2>1. chan' \in [Devices -> D!Message \cup {None}]
    BY <1>1, <1>7 DEF LinkTypes
  <2>2. conn' \in [Devices -> Conns \cup {None}] /\ token' \in [Devices -> Conns \cup {None}]
    BY <1>1, <1>2, <1>4 DEF LinkTypes
  <2> QED
    BY <1>1, <1>5, <2>1, <2>2 DEF LinkTypes
<1>9. TokenWorks'
  <2> SUFFICES ASSUME NEW e \in Devices, token'[e] # None
               PROVE  sessions[token'[e]] # None /\ sessions[token'[e]].user = User /\ sessions[token'[e]].client = e
    BY <1>5 DEF TokenWorks, serverVars
  <2> QED
    BY <1>1, <1>3 DEF TokenWorks, Stored
<1>10. ASSUME NEW e \in Devices
       PROVE  LinkOk(e)'
  <2>1. link'[e] = "up" <=> conn'[e] # None
    BY <1>1, <1>3, <1>4 DEF LinkOk
  <2>2. conn'[e] # None => conn'[e] = conn[e]
    BY <1>3, <1>4
  <2>3. \A f \in Devices : conn'[f] # None => conn'[f] = conn[f]
    BY <1>3, <1>4
  <2> QED
    BY <1>1, <1>5, <2>1, <2>2, <2>3 DEF LinkOk, serverVars
<1>11. ASSUME NEW e \in Devices
       PROVE  RequestOk(e)'
  <2>1. CASE e # d
    <3>1. \A type : D!Asked(e, type)' <=> D!Asked(e, type)
      BY <1>3, <2>1 DEF D!Asked
    <3>2. Frame(e)' = Frame(e)
      BY <1>3, <2>1 DEF Frame
    <3>3. \A c : Settling(c)' = Settling(c)
      BY <1>5 DEF Settling, serverVars, S!GetReply, S!PutReply, S!ForeignRow, S!ErrorReply, S!NewVersion,
         S!CurrentVersion, Message
    <3>4. RequestOk(e) /\ conn'[e] = conn[e] /\ chan'[e] = chan[e]
      BY <1>1, <1>3, <2>1
    <3> QED
      BY <1>5, <3>1, <3>2, <3>3, <3>4 DEF RequestOk, serverVars, PutFrame
  <2>2. CASE e = d
    <3>1. RequestOk(d)
      BY <1>1
    <3>2. ASSUME D!Asked(d, "LOGIN") \/ D!Asked(d, "REFRESH") \/ D!Asked(d, "GET") \/ D!Asked(d, "PUT")
          PROVE  /\ \A type : D!Asked(d, type)' <=> D!Asked(d, type)
                 /\ Frame(d)' = Frame(d) /\ chan'[d] = chan[d]
      <4>1. chan[d] # None /\ chan[d].type \in {"LOGIN", "REFRESH", "GET", "PUT"}
        BY <3>2 DEF D!Asked
      <4>2. chan'[d] = chan[d] /\ token'[d] = token[d]
        BY <4>1
      <4> QED
        BY <4>2 DEF D!Asked, Frame
    <3>3. \A c : Settling(c)' = Settling(c)
      BY <1>5 DEF Settling, serverVars, S!GetReply, S!PutReply, S!ForeignRow, S!ErrorReply, S!NewVersion,
         S!CurrentVersion, Message
    <3>4. conn'[d] # None => conn'[d] = conn[d]
      BY <1>4
    <3> QED
      BY <1>5, <2>2, <3>1, <3>2, <3>3, <3>4 DEF RequestOk, serverVars, PutFrame
  <2> QED
    BY <2>1, <2>2
<1>12. ASSUME NEW e \in Devices
       PROVE  HasToken(e)'
  <2>1. CASE e # d
    BY <1>1, <1>3, <1>5, <2>1 DEF HasToken, D!Asked, Stored, serverVars
  <2>2. CASE e = d
    <3>1. pc'[d] \in {"first_fetch", "connect", "repl"} \cup D!Saving \cup D!CommandPcs =>
            token'[d] # None /\ live'[d]
      BY <1>5 DEF Holding
    <3>2. D!Asked(d, "AUTH_OK")' => chan'[d] = chan[d]
      BY DEF D!Asked
    <3>3. D!Asked(d, "AUTH_OK")' => D!Asked(d, "AUTH_OK")
      BY <3>2 DEF D!Asked
    <3>4. D!Asked(d, "AUTH_OK")' => conn'[d] = conn[d]
      <4>1. ASSUME D!Asked(d, "AUTH_OK")'
            PROVE  link'[d] = "up"
        <5>1. VP!InExchange(d)'
          BY DEF VP!SyncInv
        <5>2. Answered'[d] = chan'[d]
          BY <1>5, <1>6
        <5> QED
          BY <4>1, <5>1, <5>2 DEF VP!InExchange, D!Asked
      <4> QED
        BY <1>4, <4>1
    <3> QED
      BY <1>1, <1>5, <2>2, <3>1, <3>3, <3>4 DEF HasToken, Stored, serverVars
  <2> QED
    BY <2>1, <2>2
<1>13. ASSUME NEW c \in Conns
       PROVE  LateOk(c)' /\ BaseOk(c)' /\ SessionOk(c)'
  <2>1. BaseOk(c)' /\ SessionOk(c)'
    BY <1>1, <1>5 DEF BaseOk, SessionOk, S!CurrentVersion, serverVars
  <2>2. ASSUME await[c] \in S!PutPcs \ {"put_done"}, NEW e \in Devices, conn[e] = c
        PROVE  conn'[e] = c
    <3>1. e # d => conn'[e] = c
      BY <1>3, <2>2
    <3>2. e = d => D!Asked(d, "PUT") /\ link[d] = "up"
      <4>1. conn[e] # None
        BY <2>2, SystemAssumption
      <4> QED
        BY <1>1, <2>2, <4>1 DEF RequestOk, LinkOk
    <3>3. e = d => link'[d] = "up"
      BY <3>2 DEF D!Asked
    <3> QED
      BY <1>4, <2>2, <3>1, <3>3
  <2>3. LateOk(c)
    BY <1>1
  <2>4. LateOk(c)'
    BY <1>5, <2>2, <2>3 DEF LateOk, serverVars, PutFrame
  <2> QED
    BY <2>1, <2>4
<1> QED
  BY <1>1, <1>5, <1>8, <1>9, <1>10, <1>11, <1>12, <1>13 DEF SystemInv, serverVars

-----------------------------------------------------------------------------
\* The steps of the devices.

\* What a device does, it does with no settled answer on its way.
LEMMA NothingSettled ==
  ASSUME IInv, NEW d \in Devices, Run(d) \/ Happen(d) \/ TakeToken(d) \/ Connect(d)
  PROVE  decided[d] = None
<1> SUFFICES ASSUME decided[d] # None PROVE FALSE
  OBVIOUS
<1>1. chan[d] # None /\ chan[d].type \in {"GET", "PUT"} /\ link[d] = "up" /\ pc[d] \in D!Waiting
  BY OnTheLink
<1> QED
  BY <1>1, Undecided DEF Run, Happen, TakeToken, Connect

\* A step of a device is a step of SecVault.
LEMMA DeviceSteps ==
  ASSUME IInv, NEW d \in Devices, SameToDevice(d), Run(d) \/ Happen(d) \/ TakeToken(d) \/ Connect(d)
  PROVE  VP!Next
<1>1. VP!UserStep(d) \/ VP!ClientStep(d) \/ VP!ConnectFails(d) \/ VP!SaveFails(d)
  BY SameActions DEF Run, Happen, TakeToken, Connect, VP!ClientStep
<1> QED
  BY <1>1 DEF VP!Next

LEMMA ServerRests ==
  ASSUME IInv, UNCHANGED serverVars
  PROVE  SP!Inv'
<1>1. UNCHANGED SP!vars
  BY DEF serverVars, SP!vars
<1> QED
  BY <1>1, ServerNext DEF IInv

LEMMA OwnStep ==
  ASSUME IInv, NEW d \in Devices, Run(d) \/ Happen(d) \/ TakeToken(d)
  PROVE  IInv' /\ VP!Next
<1>1. decided[d] = None
  BY NothingSettled
<1>2. UNCHANGED <<serverVars, hist, unread, decided>>
  BY DEF Run, Happen, TakeToken, Settled, serverVars
<1>3. SameToDevice(d)
  BY <1>1, <1>2, SeesItsLink
<1>4. VP!Next
  BY <1>3, DeviceSteps
<1>5. VP!TypeOk' /\ VP!SyncInv'
  BY <1>4, DevicesNext DEF IInv
<1>6. SP!Inv'
  BY <1>2, ServerRests
<1>7. LinkTypes /\ LinkOk(d) /\ HasToken(d) /\ DOMAIN conn = Devices /\ DOMAIN token = Devices
  BY DEF IInv, SystemInv, LinkTypes
<1>8. ASSUME Run(d) \/ Happen(d)
      PROVE  SystemInv'
  <2>1. DeviceMoves(d) /\ StillHolds(d)
    BY <1>1, <1>2, <1>8, DevicesMove DEF Run, Happen
  <2>2. /\ conn' = [conn EXCEPT ![d] = IF link'[d] = "up" THEN @ ELSE None]
        /\ token' = [token EXCEPT ![d] = IF pc'[d] = "off" THEN None ELSE @]
    BY <1>8 DEF Run, Happen, Settled
  <2>3. token'[d] = IF pc'[d] = "off" THEN None ELSE token[d]
    BY <1>7, <2>2
  <2>4. token' = [token EXCEPT ![d] = token'[d]]
    BY <1>7, <2>2, <2>3
  <2>5. token'[d] # token[d] =>
          /\ chan[d] # None => chan[d].type \notin {"LOGIN", "REFRESH", "GET", "PUT"}
          /\ token'[d] = None
    BY <2>1, <2>3 DEF DeviceMoves
  <2>6. pc'[d] \in Holding => token'[d] # None /\ live[d]
    <3>1. "off" \notin Holding
      BY DEF Holding, D!Saving, D!CommandPcs, D!Waiting
    <3> QED
      BY <1>7, <2>1, <2>3, <3>1 DEF HasToken, StillHolds, Holding
  <2> QED
    BY <1>1, <1>2, <1>5, <2>1, <2>2, <2>4, <2>5, <2>6, DeviceKeeps
<1>9. ASSUME TakeToken(d)
      PROVE  SystemInv'
  <2>1. DeviceMoves(d)
    BY <1>1, <1>2, <1>9, DevicesMove DEF TakeToken
  <2>2. D!Asked(d, "AUTH_OK") /\ link[d] = "up" /\ link' = link
    <3>1. D!Asked(d, "AUTH_OK") /\ link' = link
      BY <1>9 DEF TakeToken, D!LoggedIn, D!Refreshed, D!Got, D!Asked
    <3> QED
      BY <3>1, OnTheLink DEF D!Asked
  <2>3. conn[d] \in Conns /\ conn[d] # None /\ Stored(conn[d], d) /\ live[d]
    BY <1>7, <2>2 DEF LinkTypes, LinkOk, HasToken
  <2>4. token' = [token EXCEPT ![d] = conn[d]] /\ conn' = conn
    BY <1>9 DEF TakeToken
  <2>5. token'[d] = conn[d] /\ token' = [token EXCEPT ![d] = token'[d]]
    BY <1>7, <2>4
  <2>6. conn' = [conn EXCEPT ![d] = IF link'[d] = "up" THEN @ ELSE None]
    BY <1>7, <2>2, <2>4 DEF LinkTypes
  <2>7. chan[d] # None => chan[d].type \notin {"LOGIN", "REFRESH", "GET", "PUT"}
    BY <2>2 DEF D!Asked
  <2>8. token'[d] \in Conns /\ Stored(token'[d], d) /\ token'[d] # None /\ live[d]
    BY <2>3, <2>5
  <2> QED
    BY <1>1, <1>2, <1>5, <2>1, <2>5, <2>6, <2>7, <2>8, DeviceKeeps
<1> QED
  BY <1>4, <1>5, <1>6, <1>8, <1>9 DEF IInv

\* TLS connect and accept: a connection nobody has had yet.
LEMMA ConnectStep ==
  ASSUME IInv, NEW d \in Devices, Connect(d)
  PROVE  IInv' /\ VP!Next
<1> DEFINE c == CHOOSE c \in Fresh : TRUE
<1>1. decided[d] = None
  BY NothingSettled
<1>2. /\ c \in Conns /\ state[c] = "new" /\ S!Accept(c)
      /\ conn' = [conn EXCEPT ![d] = c]
      /\ D!StartConnect(d) \/ D!Connect(d)
      /\ UNCHANGED <<token, unread, decided>>
  BY DEF Connect, Fresh
<1> HIDE DEF c
<1>3. /\ state' = [state EXCEPT ![c] = "GREETING"]
      /\ UNCHANGED <<vaults, sessions, txn, await, client, user, expiry, req, row, hit, log, clock, hist>>
  BY <1>2 DEF S!Accept, S!dbVars
<1>4. SameToDevice(d)
  BY <1>1, <1>2, <1>3, SeesItsLink
<1>5. VP!Next
  BY <1>4, DeviceSteps
<1>6. VP!TypeOk' /\ VP!SyncInv'
  BY <1>5, DevicesNext DEF IInv
<1>7. SP!Inv'
  <2>1. SP!Next
    BY <1>2, SameGreeting DEF SP!Next
  <2> QED
    BY <2>1, ServerNext DEF IInv
<1>8. /\ LinkTypes /\ clock = 0 /\ TokenWorks
      /\ \A e \in Devices : LinkOk(e) /\ RequestOk(e) /\ HasToken(e)
      /\ \A x \in Conns : LateOk(x) /\ BaseOk(x) /\ SessionOk(x)
  BY DEF IInv, SystemInv
<1>9. /\ DOMAIN chan = Devices /\ DOMAIN pc = Devices /\ DOMAIN link = Devices /\ DOMAIN conn = Devices
      /\ DOMAIN state = Conns
  BY <1>8, ServerTypes DEF IInv, LinkTypes, VP!TypeOk
<1>10. /\ pc[d] \in {"start_connect", "connect"} /\ link'[d] = "up" /\ UNCHANGED <<live, late>>
       /\ chan'[d] \in [type : {"LOGIN", "BAD_LOGIN", "REGISTER", "REFRESH"}]
       /\ pc'[d] = IF pc[d] = "connect" THEN "refresh" ELSE "login"
       /\ chan' = [chan EXCEPT ![d] = chan'[d]] /\ pc' = [pc EXCEPT ![d] = pc'[d]]
       /\ link' = [link EXCEPT ![d] = link'[d]]
  BY <1>2, <1>9 DEF D!StartConnect, D!Connect, D!Ask, D!Goto, D!Openings, D!serverVars
<1>11. chan[d] = None
  BY <1>10, OnTheLink DEF D!Waiting
<1>12. c # None /\ \A e \in Devices : conn[e] # c
  BY <1>2, <1>8, SystemAssumption DEF LinkOk
<1>13. conn'[d] = c /\ \A e \in Devices \ {d} :
         /\ chan'[e] = chan[e] /\ pc'[e] = pc[e] /\ link'[e] = link[e] /\ conn'[e] = conn[e]
  BY <1>2, <1>9, <1>10
<1>14. Versions' = Versions
  BY <1>3 DEF Versions
<1>15. state'[c] = "GREETING" /\ await[c] = "read" /\ \A x \in Conns \ {c} : state'[x] = state[x]
  BY <1>2, <1>3, <1>9, ServerControl DEF IInv
<1>16. \A x : Settling(x)' = Settling(x)
  BY <1>3 DEF Settling, S!GetReply, S!PutReply, S!ForeignRow, S!ErrorReply, S!NewVersion,
     S!CurrentVersion, Message
<1>17. LinkTypes'
  <2>1. chan'[d] \in D!Message
    BY <1>10 DEF D!Message
  <2>2. chan' \in [Devices -> D!Message \cup {None}]
    BY <1>8, <1>10, <2>1 DEF LinkTypes
  <2> QED
    BY <1>2, <1>8, <2>2 DEF LinkTypes
<1>18. ASSUME NEW e \in Devices, e # d
       PROVE  LinkOk(e)' /\ RequestOk(e)' /\ HasToken(e)'
  <2>1. LinkOk(e) /\ RequestOk(e) /\ HasToken(e) /\ conn[e] \in Conns \cup {None}
    BY <1>8 DEF LinkTypes
  <2>2. LinkOk(e)'
    BY <1>2, <1>3, <1>12, <1>13, <1>15, <1>18, <2>1 DEF LinkOk
  <2>3. \A type : D!Asked(e, type)' <=> D!Asked(e, type)
    BY <1>13, <1>18 DEF D!Asked
  <2>4. RequestOk(e)'
    BY <1>2, <1>3, <1>13, <1>16, <1>18, <2>1, <2>3 DEF RequestOk, Frame, PutFrame
  <2>5. HasToken(e)'
    BY <1>2, <1>3, <1>10, <1>13, <1>18, <2>1, <2>3 DEF HasToken, Stored
  <2> QED
    BY <2>2, <2>4, <2>5
<1>19. LinkOk(d)' /\ RequestOk(d)' /\ HasToken(d)'
  <2>1. LinkOk(d)'
    <3>1. unread[c] = None
      BY <1>2, <1>8 DEF LateOk
    <3> QED
      BY <1>2, <1>10, <1>12, <1>13, <1>15, <3>1 DEF LinkOk
  <2>2. RequestOk(d)'
    BY <1>1, <1>2, <1>3, <1>13, <1>15, <1>16 DEF RequestOk, Settling, S!AuthPcs, S!GetPcs, S!PutPcs
  <2>3. pc'[d] \in Holding => pc[d] \in Holding
    BY <1>10 DEF Holding, D!Saving, D!CommandPcs, D!Waiting
  <2>4. HasToken(d)'
    BY <1>2, <1>8, <1>10, <2>3 DEF HasToken, D!Asked, Holding
  <2> QED
    BY <2>1, <2>2, <2>4
<1>20. ASSUME NEW x \in Conns
       PROVE  LateOk(x)' /\ BaseOk(x)' /\ SessionOk(x)'
  <2>1. LateOk(x)'
    <3>1. ASSUME NEW e \in Devices, conn[e] = x, await[x] \in S!PutPcs
          PROVE  conn'[e] = x
      <4>1. e # d
        BY <1>8, <1>11, <3>1, SystemAssumption DEF RequestOk, D!Asked
      <4> QED
        BY <1>13, <3>1, <4>1
    <3> QED
      BY <1>2, <1>3, <1>8, <1>10, <1>15, <3>1 DEF LateOk, PutFrame
  <2>2. BaseOk(x)'
    BY <1>3, <1>8, <1>14 DEF BaseOk, S!CurrentVersion
  <2>3. SessionOk(x)'
    BY <1>2, <1>3, <1>8, <1>15 DEF SessionOk
  <2> QED
    BY <2>1, <2>2, <2>3
<1>21. clock' = 0 /\ TokenWorks'
  BY <1>2, <1>3, <1>8 DEF TokenWorks
<1> QED
  BY <1>5, <1>6, <1>7, <1>17, <1>18, <1>19, <1>20, <1>21 DEF IInv, SystemInv

\* A connection that breaks, or a device that is killed.
LEMMA BreakIsBreak ==
  ASSUME IInv, NEW d \in Devices, Break(d)
  PROVE  VP!Next
<1>1. /\ UNCHANGED serverVars
      /\ D!LinkBreaks(d) \/ D!Kill(d)
      /\ decided' = [decided EXCEPT ![d] = None]
      /\ chan' = [chan EXCEPT ![d] = None]
  BY DEF Break, D!LinkBreaks, D!Kill, D!PowerOff
<1>2. DOMAIN decided = Devices /\ DOMAIN chan = Devices
  BY DEF IInv, SystemInv, LinkTypes
<1>3. Answered' = [Answered EXCEPT ![d] = None]
  BY <1>1, <1>2 DEF Answered
<1>4. Versions' = Versions
  BY <1>1 DEF Versions, serverVars
<1>5. late' # late => VP!Asked(d, "PUT") /\ late' = late \cup {Answered[d]}
  <2> SUFFICES ASSUME late' # late
               PROVE  D!Asked(d, "PUT") /\ decided[d] = None /\ late' = late \cup {chan[d]}
    BY DEF D!Asked, VP!Asked, Answered
  <2>1. /\ D!Asked(d, "PUT") /\ state[conn[d]] = "ESTABLISHED" /\ late' = late \cup {chan[d]}
        /\ await[conn[d]] = "read" \/ decided[d] = None
    BY DEF Break
  <2>2. conn[d] # None /\ LinkOk(d) /\ RequestOk(d)
    BY <2>1, OnTheLink DEF IInv, SystemInv, LinkOk, D!Asked
  <2>3. await[conn[d]] = "read" => decided[d] = None
    BY <2>2 DEF RequestOk, Settling
  <2> QED
    BY <2>1, <2>3
<1>6. VP!Strand(d)
  BY <1>5 DEF VP!Strand
<1>7. D!Fault => VP!Fault
  BY DEF D!Fault, VP!Fault
<1> USE DEF D!vaultVars, VP!vaultVars, D!userVars, VP!userVars
<1>8. D!LinkBreaks(d) => VP!LinkBreaks(d)
  BY <1>3, <1>4, <1>6, <1>7, SameNames DEF D!LinkBreaks, VP!LinkBreaks
<1>9. D!PowerOff(d) => VP!PowerOff(d)
  BY <1>3, SameNames DEF D!PowerOff, VP!PowerOff, D!Goto, VP!Goto
<1>10. D!Kill(d) => VP!Kill(d)
  BY <1>4, <1>6, <1>7, <1>9, SameNames DEF D!Kill, VP!Kill
<1> QED
  BY <1>1, <1>8, <1>10 DEF VP!Next

LEMMA BreakStep ==
  ASSUME IInv, NEW d \in Devices, Break(d)
  PROVE  IInv' /\ VP!Next
<1>1. VP!Next
  BY BreakIsBreak
<1>2. VP!TypeOk' /\ VP!SyncInv'
  BY <1>1, DevicesNext DEF IInv
<1>3. UNCHANGED serverVars
  BY DEF Break
<1>4. SP!Inv'
  BY <1>3, ServerRests
<1>5. /\ LinkTypes /\ clock = 0 /\ TokenWorks
      /\ \A e \in Devices : LinkOk(e) /\ RequestOk(e) /\ HasToken(e)
      /\ \A x \in Conns : LateOk(x) /\ BaseOk(x) /\ SessionOk(x)
  BY DEF IInv, SystemInv
<1>6. /\ DOMAIN chan = Devices /\ DOMAIN pc = Devices /\ DOMAIN link = Devices /\ DOMAIN conn = Devices
      /\ DOMAIN token = Devices /\ DOMAIN decided = Devices /\ DOMAIN unread = Conns
  BY <1>5 DEF IInv, LinkTypes, VP!TypeOk
<1>7. /\ chan' = [chan EXCEPT ![d] = None] /\ decided' = [decided EXCEPT ![d] = None]
      /\ conn' = [conn EXCEPT ![d] = None]
      /\ token' = [token EXCEPT ![d] = IF pc'[d] = "off" THEN None ELSE @]
      /\ link'[d] # "up" /\ link' = [link EXCEPT ![d] = link'[d]]
      /\ pc'[d] \in {pc[d], "off"} /\ pc' = [pc EXCEPT ![d] = pc'[d]]
      /\ UNCHANGED live
  <2>1. pc = [pc EXCEPT ![d] = pc[d]]
    BY DEF IInv, VP!TypeOk
  <2> QED
    BY <1>6, <2>1 DEF Break, D!LinkBreaks, D!Kill, D!PowerOff, D!Goto
<1>8. /\ chan'[d] = None /\ decided'[d] = None /\ conn'[d] = None
      /\ token'[d] = IF pc'[d] = "off" THEN None ELSE token[d]
      /\ \A e \in Devices \ {d} :
           /\ chan'[e] = chan[e] /\ pc'[e] = pc[e] /\ link'[e] = link[e] /\ conn'[e] = conn[e]
           /\ token'[e] = token[e] /\ decided'[e] = decided[e]
  BY <1>6, <1>7
<1>9. /\ UNCHANGED <<state, await, client, req, row, hit, user, sessions, expiry, hist, clock>>
      /\ Versions' = Versions
  BY <1>3 DEF serverVars, Versions
<1>10. \/ /\ D!Asked(d, "PUT") /\ state[conn[d]] = "ESTABLISHED" /\ await[conn[d]] = "read"
          /\ late' = late \cup {chan[d]}
          /\ unread' = [unread EXCEPT ![conn[d]] = chan[d]]
       \/ /\ D!Asked(d, "PUT")
          /\ late' = late \cup {chan[d]}
          /\ UNCHANGED unread
       \/ /\ D!Asked(d, "PUT") /\ state[conn[d]] = "ESTABLISHED"
             => await[conn[d]] = "read" \/ decided[d] # None
          /\ UNCHANGED <<late, unread>>
  BY DEF Break
<1>11. D!Asked(d, "PUT") => conn[d] \in Conns /\ conn[d] # None /\ chan[d] \in D!PutRequest
  <2> SUFFICES ASSUME D!Asked(d, "PUT")
               PROVE  conn[d] \in Conns /\ conn[d] # None /\ chan[d] \in D!PutRequest
    OBVIOUS
  <2>1. conn[d] # None
    BY <1>5, OnTheLink DEF LinkOk, D!Asked
  <2>2. chan[d] \in D!Message /\ chan[d].type = "PUT"
    BY <1>5 DEF LinkTypes, D!Asked
  <2>3. chan[d] \in D!PutRequest
    BY <2>2 DEF D!Message
  <2> QED
    BY <1>5, <2>1, <2>3 DEF LinkTypes
<1>12. /\ late \subseteq late'
       /\ \A x \in Conns : x # conn[d] => unread'[x] = unread[x]
       /\ \A x \in Conns : unread'[x] # unread[x] =>
            unread'[x] \in D!PutRequest /\ unread'[x] \in late' /\ state[x] = "ESTABLISHED"
  BY <1>6, <1>10, <1>11
<1>13. LinkTypes'
  <2>1. unread' \in [Conns -> D!PutRequest \cup {None}]
    <3>1. DOMAIN unread' = Conns /\ unread' = [x \in Conns |-> unread'[x]]
      BY <1>5, <1>10 DEF LinkTypes
    <3>2. \A x \in Conns : unread'[x] \in D!PutRequest \cup {None}
      BY <1>5, <1>12 DEF LinkTypes
    <3> QED
      BY <3>1, <3>2
  <2>2. /\ chan' \in [Devices -> D!Message \cup {None}]
        /\ decided' \in [Devices -> D!Message \cup {None}]
        /\ conn' \in [Devices -> Conns \cup {None}]
        /\ token' \in [Devices -> Conns \cup {None}]
    BY <1>5, <1>7, <1>8 DEF LinkTypes
  <2> QED
    BY <2>1, <2>2 DEF LinkTypes
<1>14. \A x : Settling(x)' = Settling(x)
  BY <1>9 DEF Settling, S!GetReply, S!PutReply, S!ForeignRow, S!ErrorReply, S!NewVersion,
     S!CurrentVersion, Message
<1>15. ASSUME NEW e \in Devices, e # d
       PROVE  LinkOk(e)' /\ RequestOk(e)' /\ HasToken(e)'
  <2>1. LinkOk(e) /\ RequestOk(e) /\ HasToken(e) /\ LinkOk(d) /\ conn[e] \in Conns \cup {None}
    BY <1>5 DEF LinkTypes
  <2>2. LinkOk(e)'
    <3>1. conn[e] # None => conn[d] # conn[e]
      BY <1>15, <2>1 DEF LinkOk
    <3>2. conn[e] # None => unread'[conn[e]] = unread[conn[e]]
      BY <1>12, <2>1, <3>1
    <3> QED
      BY <1>8, <1>9, <1>15, <2>1, <3>2 DEF LinkOk
  <2>3. \A type : D!Asked(e, type)' <=> D!Asked(e, type)
    BY <1>8, <1>15 DEF D!Asked
  <2>4. RequestOk(e)'
    BY <1>8, <1>9, <1>14, <1>15, <2>1, <2>3 DEF RequestOk, Frame, PutFrame
  <2>5. HasToken(e)'
    BY <1>7, <1>8, <1>9, <1>15, <2>1, <2>3 DEF HasToken, Stored
  <2> QED
    BY <2>2, <2>4, <2>5
<1>16. LinkOk(d)' /\ RequestOk(d)' /\ HasToken(d)'
  <2>1. LinkOk(d)' /\ RequestOk(d)'
    BY <1>7, <1>8 DEF LinkOk, RequestOk
  <2>2. "off" \notin Holding
    BY DEF Holding, D!Saving, D!CommandPcs, D!Waiting
  <2>3. HasToken(d)'
    BY <1>5, <1>7, <1>8, <2>2 DEF HasToken, D!Asked, Holding
  <2> QED
    BY <2>1, <2>3
<1>17. ASSUME NEW x \in Conns
       PROVE  LateOk(x)' /\ BaseOk(x)' /\ SessionOk(x)'
  <2>1. ASSUME await[x] \in S!PutPcs \ {"put_done"}, NEW e \in Devices, conn[e] = x
        PROVE  (\E f \in Devices : conn'[f] = x) \/ (\E r \in late' : req[x] = PutFrame(r))
    <3>1. CASE e # d
      BY <1>8, <2>1, <3>1
    <3>2. CASE e = d
      <4>1. /\ D!Asked(d, "PUT") /\ req[x] = PutFrame(chan[d]) /\ decided[d] = Settling(x)
            /\ await[x] \notin {"read", "done"}
        BY <1>5, <2>1, <3>2, SystemAssumption DEF RequestOk, S!PutPcs
      <4>2. decided[d] = None
        BY <2>1, <4>1 DEF Settling, S!PutPcs
      <4>3. state[x] = "ESTABLISHED"
        <5>1. /\ state[x] \in {"new", "GREETING", "AUTHENTICATING", "ESTABLISHED", "closed"}
              /\ state[x] = "closed" <=> await[x] = "done"
              /\ state[x] \in {"new", "GREETING"} => await[x] = "read"
              /\ state[x] = "AUTHENTICATING" => await[x] \in {"read"} \cup S!AuthPcs
          BY ServerControl, ServerTypes DEF IInv
        <5> QED
          BY <2>1, <5>1 DEF S!PutPcs, S!AuthPcs
      <4> QED
        BY <1>10, <2>1, <3>2, <4>1, <4>2, <4>3
    <3> QED
      BY <3>1, <3>2
  <2>2. LateOk(x)
    BY <1>5
  <2>3. LateOk(x)'
    BY <1>9, <1>12, <2>1, <2>2 DEF LateOk, PutFrame
  <2>4. BaseOk(x)' /\ SessionOk(x)'
    BY <1>5, <1>9 DEF BaseOk, SessionOk, S!CurrentVersion
  <2> QED
    BY <2>3, <2>4
<1>18. clock' = 0 /\ TokenWorks'
  BY <1>5, <1>8, <1>9 DEF TokenWorks
<1> QED
  BY <1>1, <1>2, <1>4, <1>13, <1>15, <1>16, <1>17, <1>18 DEF IInv, SystemInv

-----------------------------------------------------------------------------
\* The steps of the server.

\* A handler works on its own connection.
ServerFrame(c) ==
  /\ clock' = clock
  /\ \A x \in Conns \ {c} :
       /\ state'[x] = state[x] /\ await'[x] = await[x] /\ client'[x] = client[x] /\ user'[x] = user[x]
       /\ expiry'[x] = expiry[x] /\ req'[x] = req[x] /\ row'[x] = row[x] /\ hit'[x] = hit[x]
       /\ sessions'[x] = sessions[x]
  /\ \A x \in Conns : sessions[x] # None => sessions'[x] = sessions[x]

LEMMA ReadFrames ==
  ASSUME IInv, NEW c \in Conns, NEW f
  PROVE  /\ S!Hello(c, f) => ServerFrame(c)
         /\ S!Auth(c, f) => ServerFrame(c)
         /\ S!Ping(c, f) => ServerFrame(c)
         /\ S!VaultGet(c, f) => ServerFrame(c)
         /\ S!VaultPut(c, f) => ServerFrame(c)
         /\ S!ReadEnds(c) => ServerFrame(c)
         /\ S!BusyTimeout(c) => ServerFrame(c)
         /\ S!HandlerFails(c) => ServerFrame(c)
<1> USE ServerTypes DEF IInv, ServerFrame, S!dbVars, S!Goto
<1>1. S!Hello(c, f) => ServerFrame(c)
  BY DEF S!Hello
<1>2. S!Auth(c, f) => ServerFrame(c)
  BY DEF S!Auth
<1>3. S!Ping(c, f) => ServerFrame(c)
  BY DEF S!Ping
<1>4. S!VaultGet(c, f) => ServerFrame(c)
  BY DEF S!VaultGet
<1>5. S!VaultPut(c, f) => ServerFrame(c)
  BY DEF S!VaultPut
<1>6. S!ReadEnds(c) => ServerFrame(c)
  BY DEF S!ReadEnds, S!Finish, S!Rollback
<1>7. S!BusyTimeout(c) => ServerFrame(c)
  BY DEF S!BusyTimeout, S!Finish, S!Rollback
<1>8. S!HandlerFails(c) => ServerFrame(c)
  BY DEF S!HandlerFails, S!Finish, S!Rollback
<1> QED
  BY ONLY <1>1, <1>2, <1>3, <1>4, <1>5, <1>6, <1>7, <1>8

\* What the commit of a handler publishes.
LEMMA Committed ==
  ASSUME IInv, NEW c \in Conns
  PROVE  /\ S!SessionCommit(c) =>
              sessions' = [sessions EXCEPT ![c] =
                [user |-> user[c], client |-> client[c], expiry |-> expiry[c]]]
         /\ S!PutCommit(c) => sessions' = sessions
<1>1. SP!SessionPending(c) /\ SP!PutPending(c)
  BY DEF IInv, SP!Inv, SP!SafetyInv, SP!TxnOk
<1> QED
  BY <1>1 DEF S!SessionCommit, S!PutCommit, S!Commit, SP!SessionPending, SP!PutPending

LEMMA HandlerFrames ==
  ASSUME IInv, NEW c \in Conns
  PROVE  /\ S!Authenticate(c) => ServerFrame(c)
         /\ S!SessionExecute(c) => ServerFrame(c)
         /\ S!SessionCommit(c) => ServerFrame(c)
         /\ S!AuthOk(c) => ServerFrame(c)
         /\ S!GetRead(c) => ServerFrame(c)
         /\ S!GetDone(c) => ServerFrame(c)
         /\ S!PutRead(c) => ServerFrame(c)
         /\ S!PutCheck(c) => ServerFrame(c)
         /\ S!PutExecute(c) => ServerFrame(c)
         /\ S!PutCommit(c) => ServerFrame(c)
         /\ S!PutDone(c) => ServerFrame(c)
<1> USE ServerTypes DEF IInv, ServerFrame, S!dbVars, S!Goto, S!Continue
<1>1. S!Authenticate(c) => ServerFrame(c)
  BY DEF S!Authenticate, S!Finish, S!Rollback
<1>2. S!SessionExecute(c) => ServerFrame(c)
  BY DEF S!SessionExecute, S!ExecuteSession
<1>3. S!SessionCommit(c) => ServerFrame(c)
  <2>1. S!SessionCommit(c) => sessions[c] = None
    <3>1. SessionOk(c)
      BY DEF SystemInv
    <3>2. await[c] = "session_commit" => state[c] = "AUTHENTICATING"
      BY ServerControl DEF S!AuthPcs, S!GetPcs, S!PutPcs
    <3> QED
      BY <3>1, <3>2 DEF SessionOk, S!SessionCommit
  <2>2. ASSUME S!SessionCommit(c)
        PROVE  /\ sessions' = [sessions EXCEPT ![c] = sessions'[c]] /\ sessions[c] = None
               /\ \A x \in Conns \ {c} : sessions'[x] = sessions[x]
    BY <2>1, <2>2, Committed
  <2> QED
    BY <2>2 DEF S!SessionCommit
<1>4. S!AuthOk(c) => ServerFrame(c)
  BY DEF S!AuthOk
<1>5. S!GetRead(c) => ServerFrame(c)
  BY DEF S!GetRead, S!ReadRow
<1>6. S!GetDone(c) => ServerFrame(c)
  BY DEF S!GetDone
<1>7. S!PutRead(c) => ServerFrame(c)
  BY DEF S!PutRead, S!ReadRow
<1>8. S!PutCheck(c) => ServerFrame(c)
  BY DEF S!PutCheck
<1>9. S!PutExecute(c) => ServerFrame(c)
  BY DEF S!PutExecute, S!ExecuteUpsert
<1>10. S!PutCommit(c) => ServerFrame(c)
  BY Committed DEF S!PutCommit
<1>11. S!PutDone(c) => ServerFrame(c)
  BY DEF S!PutDone
<1> QED
  BY ONLY <1>1, <1>2, <1>3, <1>4, <1>5, <1>6, <1>7, <1>8, <1>9, <1>10, <1>11

\* Only the device on the connection may see something of it.
DevicesFrame(c) ==
  /\ UNCHANGED <<conn, token, link, pc, late>>
  /\ unread' \in [Conns -> D!PutRequest \cup {None}]
  /\ \A x \in Conns \ {c} : unread'[x] = unread[x]
  /\ chan' = [e \in Devices |-> chan'[e]] /\ decided' = [e \in Devices |-> decided'[e]]
  /\ \A e \in Devices :
       /\ conn[e] # c => chan'[e] = chan[e] /\ decided'[e] = decided[e] /\ live'[e] = live[e]
       /\ decided'[e] # None => chan'[e] = chan[e]
  /\ Len(Versions') >= Len(Versions)

LEMMA Elsewhere ==
  ASSUME IInv, NEW c \in Conns, ServerFrame(c), DevicesFrame(c), SP!Inv'
  PROVE  /\ \A e \in Devices : conn[e] # c => LinkOk(e)' /\ RequestOk(e)' /\ HasToken(e)'
         /\ \A x \in Conns \ {c} : LateOk(x)' /\ BaseOk(x)' /\ SessionOk(x)'
<1>1. /\ LinkTypes
      /\ \A e \in Devices : LinkOk(e) /\ RequestOk(e) /\ HasToken(e)
      /\ \A x \in Conns : LateOk(x) /\ BaseOk(x) /\ SessionOk(x)
  BY DEF IInv, SystemInv
<1>2. \A x \in Conns \ {c} : Settling(x)' = Settling(x)
  BY DEF ServerFrame, Settling, S!GetReply, S!PutReply, S!ForeignRow, S!ErrorReply, S!NewVersion,
     S!CurrentVersion, Message
<1>3. ASSUME NEW e \in Devices, conn[e] # c
      PROVE  LinkOk(e)' /\ RequestOk(e)' /\ HasToken(e)'
  <2>1. LinkOk(e) /\ RequestOk(e) /\ HasToken(e) /\ conn[e] \in Conns \cup {None}
    BY <1>1 DEF LinkTypes
  <2>2. chan'[e] = chan[e] /\ decided'[e] = decided[e] /\ live'[e] = live[e]
    BY <1>3 DEF DevicesFrame
  <2>3. LinkOk(e)'
    BY <1>3, <2>1 DEF LinkOk, ServerFrame, DevicesFrame
  <2>4. \A type : D!Asked(e, type)' <=> D!Asked(e, type)
    BY <2>2 DEF D!Asked
  <2>5. Frame(e)' = Frame(e) /\ PutFrame(chan[e])' = PutFrame(chan[e])
    BY <2>2 DEF Frame, PutFrame, DevicesFrame
  <2>6. RequestOk(e)'
    BY <1>2, <1>3, <2>1, <2>2, <2>4, <2>5 DEF RequestOk, ServerFrame, DevicesFrame, PutFrame
  <2>7. HasToken(e)'
    <3>1. D!Asked(e, "AUTH_OK") => conn[e] \in Conns
      BY <2>1, OnTheLink DEF LinkOk, D!Asked
    <3> QED
      BY <1>3, <2>1, <2>2, <2>4, <3>1 DEF HasToken, Stored, ServerFrame, DevicesFrame
  <2> QED
    BY <2>3, <2>6, <2>7
<1>4. ASSUME NEW x \in Conns \ {c}
      PROVE  LateOk(x)' /\ BaseOk(x)' /\ SessionOk(x)'
  <2>1. LateOk(x)'
    <3>1. LateOk(x) /\ state'[x] = state[x] /\ await'[x] = await[x] /\ req'[x] = req[x]
      BY <1>1 DEF ServerFrame
    <3>2. unread'[x] = unread[x] /\ late' = late /\ conn' = conn
      BY DEF DevicesFrame
    <3> QED
      BY <3>1, <3>2 DEF LateOk, PutFrame
  <2>2. SessionOk(x)'
    BY <1>1 DEF SessionOk, ServerFrame
  <2>3. BaseOk(x)'
    <3>1. await[x] = "put_check" \/ await[x] = "put_done" => req[x].base \in Nat
      BY ServerControl DEF IInv, S!PutPcs, S!PutReq
    <3>2. Len(Versions) \in Nat /\ Len(Versions') \in Nat
      <4>1. Len(Versions) \in Nat
        BY VersionsOfHistory DEF IInv
      <4>2. SP!Inv' => (Len(Versions) \in Nat)'
        BY VersionsOfHistory, PTL
      <4> QED
        BY <4>1, <4>2
    <3> QED
      BY <1>1, <3>1, <3>2 DEF BaseOk, S!CurrentVersion, ServerFrame, DevicesFrame
  <2> QED
    BY <2>1, <2>2, <2>3
<1> QED
  BY <1>3, <1>4

\* What is left to show of a step of a handler: that it is one of SVPServer and one of
\* SecVault, and what concerns its own connection.
LEMMA HandlerStep ==
  ASSUME IInv, NEW c \in Conns, ServerFrame(c), DevicesFrame(c), [SP!Next]_SP!vars, [VP!Next]_VP!vars,
         \A d \in Devices : conn[d] = c => LinkOk(d)' /\ RequestOk(d)' /\ HasToken(d)',
         LateOk(c)' /\ BaseOk(c)' /\ SessionOk(c)'
  PROVE  IInv'
<1>1. SP!Inv'
  BY ServerNext DEF IInv
<1>2. VP!TypeOk' /\ VP!SyncInv'
  BY DevicesNext DEF IInv
<1>3. LinkTypes /\ clock = 0 /\ TokenWorks
  BY DEF IInv, SystemInv
<1>4. LinkTypes'
  <2>1. \A e \in Devices : Answered'[e] \in D!Message \cup {None}
    <3>1. VP!Message = D!Message
      BY DEF VP!Message, D!Message, VP!PutRequest, D!PutRequest, VP!Content, D!Content, VP!Entry, D!Entry
    <3> QED
      BY <1>2, <3>1 DEF VP!TypeOk
  <2>2. \A e \in Devices : Answered'[e] = IF decided'[e] # None THEN decided'[e] ELSE chan'[e]
    BY DEF Answered
  <2>3. \A e \in Devices : decided'[e] \in D!Message \cup {None} /\ chan'[e] \in D!Message \cup {None}
    BY <1>3, <2>1, <2>2 DEF LinkTypes, DevicesFrame
  <2>4. chan' \in [Devices -> D!Message \cup {None}] /\ decided' \in [Devices -> D!Message \cup {None}]
    BY <2>3 DEF DevicesFrame
  <2> QED
    BY <1>3, <2>4 DEF LinkTypes, DevicesFrame
<1>5. TokenWorks'
  BY <1>3 DEF TokenWorks, LinkTypes, ServerFrame, DevicesFrame
<1>6. clock' = 0
  BY <1>3 DEF ServerFrame
<1> QED
  BY <1>1, <1>2, <1>4, <1>5, <1>6, Elsewhere DEF IInv, SystemInv

LEMMA NothingSeen ==
  ASSUME UNCHANGED <<devicesOwn, trouble, live, hist>>, Answered' = Answered
  PROVE  UNCHANGED VP!vars
BY DEF devicesOwn, VP!vars, Versions

\* What a reply changes on the connection it is written to.
LEMMA Silent ==
  ASSUME IInv, NEW c \in Conns, Deliver(c), log' = log
  PROVE  UNCHANGED <<chan, decided, live>>
<1>1. /\ chan \in [Devices -> D!Message \cup {None}] /\ decided \in [Devices -> D!Message \cup {None}]
      /\ live \in [Devices -> BOOLEAN]
  BY DEF IInv, SystemInv, LinkTypes, VP!TypeOk
<1>2. chan' = [d \in Devices |-> chan[d]] /\ decided' = [d \in Devices |-> decided[d]]
      /\ live' = [d \in Devices |-> live[d]]
  BY <1>1 DEF Deliver
<1> QED
  BY <1>1, <1>2

LEMMA Delivered ==
  ASSUME IInv, NEW c \in Conns, NEW r, NEW rep, S!LogReply(c, r, rep), Deliver(c)
  PROVE  /\ chan' = [d \in Devices |-> IF conn[d] = c THEN Message(rep) ELSE chan[d]]
         /\ decided' = [d \in Devices |-> IF conn[d] = c THEN None ELSE decided[d]]
         /\ live' = [d \in Devices |-> live[d] \/ (conn[d] = c /\ rep.type = "AUTH_OK")]
<1> DEFINE E == SP!Exchange
           h == log[c]
           x == [req |-> r, rep |-> rep]
<1>1. h \in Seq(E) /\ log'[c] = Append(h, x) /\ x.rep = rep
  BY DEF IInv, SP!Inv, SP!TypeInv, SP!TypeOk, S!LogReply
<1>2. log'[c] # log[c] /\ log'[c][Len(log'[c])].rep = rep
  <2> HIDE DEF E, h, x
  <2>1. Append(h, x) # h /\ Append(h, x)[Len(Append(h, x))] = x
    <3>1. Len(Append(h, x)) = Len(h) + 1 /\ Len(h) \in Nat
      BY <1>1
    <3>2. Append(h, x)[Len(h) + 1] = x
      BY <1>1
    <3> QED
      BY <3>1, <3>2
  <2> QED
    BY <1>1, <2>1 DEF h
<1> HIDE DEF E, h, x
<1> QED
  BY <1>2 DEF Deliver

\* A step no device notices.
LEMMA QuietStep ==
  ASSUME IInv, NEW c \in Conns, ServerFrame(c), [SP!Next]_SP!vars,
         UNCHANGED <<devicesOwn, trouble, chan, decided, live, conn, token, hist>>,
         unread' \in [Conns -> D!PutRequest \cup {None}],
         \A x \in Conns \ {c} : unread'[x] = unread[x],
         \A d \in Devices : conn[d] = c => LinkOk(d)' /\ RequestOk(d)',
         LateOk(c)' /\ BaseOk(c)' /\ SessionOk(c)'
  PROVE  IInv' /\ UNCHANGED VP!vars
<1>1. UNCHANGED VP!vars
  <2>1. Answered' = Answered
    BY DEF Answered
  <2> QED
    BY <2>1, NothingSeen
<1>2. DevicesFrame(c)
  <2>1. chan = [e \in Devices |-> chan[e]] /\ decided = [e \in Devices |-> decided[e]]
    BY DEF IInv, SystemInv, LinkTypes
  <2>2. Len(Versions') = Len(Versions) /\ Len(Versions) \in Nat
    BY VersionsOfHistory DEF IInv, Versions
  <2> QED
    BY <2>1, <2>2 DEF DevicesFrame, devicesOwn
<1>3. \A d \in Devices : conn[d] = c => HasToken(d)'
  BY DEF IInv, SystemInv, HasToken, Stored, D!Asked, ServerFrame, devicesOwn
<1> QED
  BY <1>1, <1>2, <1>3, HandlerStep

\* A device and the handler of its connection.
LEMMA OnConnection ==
  ASSUME IInv, NEW d \in Devices, NEW c \in Conns, conn[d] = c
  PROVE  /\ LinkOk(d) /\ RequestOk(d) /\ HasToken(d) /\ link[d] = "up"
         /\ state[c] # "new" /\ unread[c] = None
         /\ state[c] \in {"AUTHENTICATING", "ESTABLISHED"} => client[c] = d
         /\ Holders(c) = {d} /\ \A e \in Devices : conn[e] = c => e = d
         /\ await[c] \in S!AuthPcs =>
              (D!Asked(d, "LOGIN") \/ D!Asked(d, "REFRESH")) /\ req[c] = Frame(d)
         /\ await[c] \in S!GetPcs => D!Asked(d, "GET")
         /\ await[c] \in S!PutPcs => D!Asked(d, "PUT") /\ req[c] = PutFrame(chan[d])
         /\ await[c] # "done" => decided[d] = Settling(c)
<1>1. LinkOk(d) /\ RequestOk(d) /\ HasToken(d) /\ conn[d] # None
  BY SystemAssumption DEF IInv, SystemInv
<1>2. Holders(c) = {d} /\ \A e \in Devices : conn[e] = c => e = d
  BY <1>1 DEF Holders, LinkOk
<1> QED
  BY <1>1, <1>2 DEF LinkOk, RequestOk

\* What devices and late PUTs ask for.
LEMMA AskedFrames ==
  ASSUME IInv
  PROVE  /\ \A r \in D!PutRequest : PutFrame(r) \in S!Request /\ PutFrame(r) \in S!PutReq
         /\ \A d \in Devices : D!Asked(d, "PUT") => chan[d] \in D!PutRequest
         /\ \A d \in Devices : D!Asked(d, "GET") \/ D!Asked(d, "PING") => Frame(d) \in S!Request
         /\ \A d \in Devices : D!Asked(d, "LOGIN") \/ D!Asked(d, "REFRESH") => Frame(d) \in S!Request
         /\ late \subseteq D!PutRequest
<1>1. \A r \in D!PutRequest : PutFrame(r) \in S!PutReq
  BY DEF D!PutRequest, PutFrame, S!PutReq, D!Version
<1>2. ASSUME NEW d \in Devices, D!Asked(d, "PUT")
      PROVE  chan[d] \in D!PutRequest
  BY <1>2 DEF IInv, SystemInv, LinkTypes, D!Asked, D!Message
<1>3. ASSUME NEW d \in Devices, D!Asked(d, "GET") \/ D!Asked(d, "PING")
      PROVE  Frame(d) \in S!GetReq \cup S!SignalReq
  BY <1>3 DEF Frame, D!Asked, S!GetReq, S!SignalReq
<1>4. ASSUME NEW d \in Devices, D!Asked(d, "LOGIN") \/ D!Asked(d, "REFRESH")
      PROVE  Frame(d) \in S!AuthReq
  <2>1. token[d] \in Conns \cup {None}
    BY DEF IInv, SystemInv, LinkTypes
  <2> QED
    BY <1>4, <2>1 DEF Frame, D!Asked, S!AuthReq, S!Factors
<1>5. late \subseteq D!PutRequest
  BY DEF IInv, VP!TypeOk, VP!PutRequest, D!PutRequest, VP!Content, D!Content, VP!Entry, D!Entry
<1> QED
  BY <1>1, <1>2, <1>3, <1>4, <1>5 DEF S!Request

\* A frame that is read and not yet answered.
LEMMA ReadHelloStep ==
  ASSUME IInv, NEW c \in Conns, NEW d \in Devices, ReadHello(c, d),
         UNCHANGED <<devicesOwn, trouble, conn, token>>
  PROVE  IInv' /\ UNCHANGED VP!vars
<1> DEFINE f == [type |-> "HELLO", client |-> d]
<1>1. S!Hello(c, f) /\ conn[d] = c /\ UNCHANGED <<live, chan, decided, unread>>
  BY DEF ReadHello
<1>2. ServerFrame(c)
  BY <1>1, ReadFrames
<1>3. SP!Next
  <2>1. f \in S!Request
    BY DEF S!Request, S!HelloReq
  <2> QED
    BY <1>1, <2>1, SameGreeting DEF SP!Next, SP!FrameStep
<1>4. /\ state[c] = "GREETING" /\ await[c] = "read"
      /\ state' = [state EXCEPT ![c] = "AUTHENTICATING"] /\ client' = [client EXCEPT ![c] = d]
      /\ UNCHANGED <<vaults, sessions, await, user, expiry, req, row, hit, hist>>
  BY <1>1 DEF S!Hello, S!Reading, S!dbVars
<1>5. state'[c] = "AUTHENTICATING" /\ client'[c] = d
  BY <1>4, ServerTypes DEF IInv
<1>6. ASSUME NEW e \in Devices, conn[e] = c
      PROVE  LinkOk(e)' /\ RequestOk(e)'
  <2>1. e = d
    BY <1>1, <1>6, OnConnection
  <2>2. LinkOk(d) /\ RequestOk(d) /\ decided[d] = Settling(c)
    BY <1>1, <1>4, OnConnection
  <2>3. LinkOk(e)'
    BY <1>1, <1>5, <2>1, <2>2 DEF LinkOk, devicesOwn
  <2>4. RequestOk(e)'
    BY <1>1, <1>4, <2>1, <2>2 DEF RequestOk, Settling, S!AuthPcs, S!GetPcs, S!PutPcs, D!Asked
  <2> QED
    BY <2>3, <2>4
<1>7. LateOk(c) /\ BaseOk(c) /\ SessionOk(c) /\ unread \in [Conns -> D!PutRequest \cup {None}]
  BY DEF IInv, SystemInv, LinkTypes
<1>8. LateOk(c)' /\ BaseOk(c)' /\ SessionOk(c)'
  BY <1>1, <1>4, <1>5, <1>7 DEF LateOk, BaseOk, SessionOk, S!PutPcs, devicesOwn
<1>9. UNCHANGED unread /\ UNCHANGED <<devicesOwn, trouble, chan, decided, live, conn, token, hist>>
  BY <1>1, <1>4
<1> QED
  BY <1>2, <1>3, <1>6, <1>7, <1>8, <1>9, QuietStep

LEMMA ReadAuthStep ==
  ASSUME IInv, NEW c \in Conns, NEW d \in Devices, conn[d] = c, S!Auth(c, Frame(d)),
         D!Asked(d, "LOGIN") \/ D!Asked(d, "REFRESH"),
         UNCHANGED <<devicesOwn, trouble, conn, token, live, chan, decided, unread>>
  PROVE  IInv' /\ UNCHANGED VP!vars
<1>1. ServerFrame(c)
  BY ReadFrames
<1>2. SP!Next
  BY SameGreeting, AskedFrames DEF SP!Next, SP!FrameStep
<1>3. /\ state[c] = "AUTHENTICATING" /\ await[c] = "read"
      /\ await' = [await EXCEPT ![c] = "auth"] /\ req' = [req EXCEPT ![c] = Frame(d)]
      /\ UNCHANGED <<vaults, sessions, state, client, user, expiry, row, hit, hist>>
  BY DEF S!Auth, S!Reading, S!Goto, S!dbVars
<1>4. await'[c] = "auth" /\ req'[c] = Frame(d)
  BY <1>3, ServerTypes DEF IInv
<1>5. ASSUME NEW e \in Devices, conn[e] = c
      PROVE  LinkOk(e)' /\ RequestOk(e)'
  <2>1. e = d
    BY <1>5, OnConnection
  <2>2. LinkOk(d) /\ RequestOk(d) /\ decided[d] = Settling(c)
    BY <1>3, OnConnection
  <2>3. decided[d] = None
    BY <1>3, <2>2 DEF Settling
  <2>4. LinkOk(e)'
    BY <1>3, <2>1, <2>2 DEF LinkOk, devicesOwn
  <2>5. Frame(d)' = Frame(d)
    BY DEF Frame
  <2>6. RequestOk(e)'
    BY <1>4, <2>1, <2>3, <2>5 DEF RequestOk, Settling, S!AuthPcs, S!GetPcs, S!PutPcs, D!Asked
  <2> QED
    BY <2>4, <2>6
<1>6. LateOk(c) /\ BaseOk(c) /\ SessionOk(c) /\ unread \in [Conns -> D!PutRequest \cup {None}]
  BY DEF IInv, SystemInv, LinkTypes
<1>7. LateOk(c)' /\ BaseOk(c)' /\ SessionOk(c)'
  BY <1>3, <1>4, <1>6 DEF LateOk, BaseOk, SessionOk, S!PutPcs, devicesOwn
<1> QED
  BY <1>1, <1>2, <1>3, <1>5, <1>6, <1>7, QuietStep

LEMMA ReadGetStep ==
  ASSUME IInv, NEW c \in Conns, NEW d \in Devices, conn[d] = c, S!VaultGet(c, Frame(d)), D!Asked(d, "GET"),
         UNCHANGED <<devicesOwn, trouble, conn, token, live, chan, decided, unread>>
  PROVE  IInv' /\ UNCHANGED VP!vars
<1>1. ServerFrame(c)
  BY ReadFrames
<1>2. SP!Next
  BY SameGet, AskedFrames DEF SP!Next, SP!FrameStep
<1>3. /\ state[c] = "ESTABLISHED" /\ await[c] = "read"
      /\ await' = [await EXCEPT ![c] = "get_read"] /\ req' = [req EXCEPT ![c] = Frame(d)]
      /\ UNCHANGED <<vaults, sessions, state, client, user, expiry, row, hit, hist>>
  BY DEF S!VaultGet, S!Reading, S!Goto, S!dbVars
<1>4. await'[c] = "get_read" /\ req'[c] = Frame(d)
  BY <1>3, ServerTypes DEF IInv
<1>5. ASSUME NEW e \in Devices, conn[e] = c
      PROVE  LinkOk(e)' /\ RequestOk(e)'
  <2>1. e = d
    BY <1>5, OnConnection
  <2>2. LinkOk(d) /\ RequestOk(d) /\ decided[d] = Settling(c)
    BY <1>3, OnConnection
  <2>3. decided[d] = None
    BY <1>3, <2>2 DEF Settling
  <2>4. LinkOk(e)'
    BY <1>3, <2>1, <2>2 DEF LinkOk, devicesOwn
  <2>5. RequestOk(e)'
    BY <1>4, <2>1, <2>3 DEF RequestOk, Settling, S!AuthPcs, S!GetPcs, S!PutPcs, D!Asked
  <2> QED
    BY <2>4, <2>5
<1>6. LateOk(c) /\ BaseOk(c) /\ SessionOk(c) /\ unread \in [Conns -> D!PutRequest \cup {None}]
  BY DEF IInv, SystemInv, LinkTypes
<1>7. LateOk(c)' /\ BaseOk(c)' /\ SessionOk(c)'
  BY <1>3, <1>4, <1>6 DEF LateOk, BaseOk, SessionOk, S!PutPcs, devicesOwn
<1> QED
  BY <1>1, <1>2, <1>3, <1>5, <1>6, <1>7, QuietStep

\* The PUT of the device on the connection, or of one that has left it.
LEMMA ReadPutStep ==
  ASSUME IInv, NEW c \in Conns, NEW r \in D!PutRequest, S!VaultPut(c, PutFrame(r)),
         \/ /\ UNCHANGED unread
            /\ \E d \in Devices : conn[d] = c /\ D!Asked(d, "PUT") /\ r = chan[d]
         \/ unread[c] = r /\ unread' = [unread EXCEPT ![c] = None],
         UNCHANGED <<devicesOwn, trouble, conn, token, live, chan, decided>>
  PROVE  IInv' /\ UNCHANGED VP!vars
<1>1. ServerFrame(c)
  BY ReadFrames
<1>2. SP!Next
  BY SamePut, AskedFrames DEF SP!Next, SP!FrameStep
<1>3. /\ state[c] = "ESTABLISHED" /\ await[c] = "read"
      /\ await' = [await EXCEPT ![c] = "put_read"] /\ req' = [req EXCEPT ![c] = PutFrame(r)]
      /\ UNCHANGED <<vaults, sessions, state, client, user, expiry, row, hit, hist>>
  BY DEF S!VaultPut, S!Reading, S!Goto, S!dbVars
<1>4. await'[c] = "put_read" /\ req'[c] = PutFrame(r)
  BY <1>3, ServerTypes DEF IInv
<1>5. LateOk(c) /\ BaseOk(c) /\ SessionOk(c) /\ unread \in [Conns -> D!PutRequest \cup {None}]
  BY DEF IInv, SystemInv, LinkTypes
<1>6. /\ unread' \in [Conns -> D!PutRequest \cup {None}]
      /\ \A x \in Conns \ {c} : unread'[x] = unread[x]
      /\ unread'[c] \in {unread[c], None}
  BY <1>5
<1>7. None \notin D!PutRequest
  BY SystemAssumption DEF D!Message
<1>8. ASSUME NEW e \in Devices, conn[e] = c
      PROVE  LinkOk(e)' /\ RequestOk(e)'
  <2>1. LinkOk(e) /\ RequestOk(e) /\ decided[e] = Settling(c) /\ unread[c] = None
        /\ \A d \in Devices : conn[d] = c => d = e
    BY <1>3, <1>8, OnConnection
  <2>2. D!Asked(e, "PUT") /\ r = chan[e] /\ UNCHANGED unread
    BY <1>7, <1>8, <2>1
  <2>3. decided[e] = None
    BY <1>3, <2>1 DEF Settling
  <2>4. LinkOk(e)'
    BY <1>3, <2>1, <2>2 DEF LinkOk, devicesOwn
  <2>5. RequestOk(e)'
    BY <1>4, <1>8, <2>2, <2>3 DEF RequestOk, Settling, S!AuthPcs, S!GetPcs, S!PutPcs, D!Asked, PutFrame
  <2> QED
    BY <2>4, <2>5
<1>9. (\E d \in Devices : conn[d] = c) \/ r \in late
  BY <1>5, <1>7 DEF LateOk
<1>10. LateOk(c)'
  BY <1>3, <1>4, <1>5, <1>6, <1>9 DEF LateOk, PutFrame, devicesOwn
<1>11. BaseOk(c)' /\ SessionOk(c)'
  BY <1>3, <1>4, <1>5 DEF BaseOk, SessionOk
<1> QED
  BY <1>1, <1>2, <1>3, <1>6, <1>8, <1>10, <1>11, QuietStep

\* A handler that goes on with its request.
LEMMA GoesOn ==
  ASSUME IInv, NEW c \in Conns, ServerFrame(c), [SP!Next]_SP!vars,
         UNCHANGED <<devicesOwn, trouble, chan, decided, live, conn, token, hist, unread, state, client, req>>,
         \/ await[c] \in S!AuthPcs /\ await'[c] \in S!AuthPcs
         \/ await[c] \in S!PutPcs \ {"put_done"} /\ await'[c] \in S!PutPcs,
         await'[c] = "put_done" => ~hit'[c],
         BaseOk(c)' /\ SessionOk(c)'
  PROVE  IInv' /\ UNCHANGED VP!vars
<1>1. ASSUME NEW d \in Devices, conn[d] = c
      PROVE  LinkOk(d)' /\ RequestOk(d)'
  <2>1. LinkOk(d) /\ RequestOk(d) /\ conn[d] # None
    BY <1>1, OnConnection, SystemAssumption
  <2>2. LinkOk(d)'
    BY <2>1 DEF LinkOk, devicesOwn
  <2>3. decided[d] = None
    BY <1>1, <2>1 DEF RequestOk, Settling, S!AuthPcs, S!PutPcs
  <2>4. Settling(c)' = None
    BY DEF Settling, S!AuthPcs, S!PutPcs
  <2>5. Frame(d)' = Frame(d) /\ PutFrame(chan[d])' = PutFrame(chan[d])
    BY DEF Frame, PutFrame
  <2>6. RequestOk(d)'
    BY <1>1, <2>1, <2>3, <2>4, <2>5 DEF RequestOk, S!AuthPcs, S!GetPcs, S!PutPcs, D!Asked, PutFrame
  <2> QED
    BY <2>2, <2>6
<1>2. unread \in [Conns -> D!PutRequest \cup {None}] /\ LateOk(c)
  BY DEF IInv, SystemInv, LinkTypes
<1>3. LateOk(c)'
  BY <1>2 DEF LateOk, PutFrame, S!AuthPcs, S!PutPcs, devicesOwn
<1> QED
  BY <1>1, <1>2, <1>3, QuietStep

\* Nobody is told anything when no device is on the connection.
LEMMA NobodyThere ==
  ASSUME IInv, NEW c \in Conns, Deliver(c), \A d \in Devices : conn[d] # c
  PROVE  UNCHANGED <<chan, decided, live>>
<1>1. /\ chan \in [Devices -> D!Message \cup {None}] /\ decided \in [Devices -> D!Message \cup {None}]
      /\ live \in [Devices -> BOOLEAN]
  BY DEF IInv, SystemInv, LinkTypes, VP!TypeOk
<1>2. chan' = [d \in Devices |-> chan[d]] /\ decided' = [d \in Devices |-> decided[d]]
      /\ live' = [d \in Devices |-> live[d]]
  BY <1>1 DEF Deliver
<1> QED
  BY <1>1, <1>2

\* Passwords are right, and the token of a refresh is stored.
LEMMA AuthPasses ==
  ASSUME IInv, NEW c \in Conns, NEW d \in Devices, conn[d] = c, await[c] = "auth"
  PROVE  S!AuthValid(c, req[c]) /\ req[c].user = User
<1>1. /\ D!Asked(d, "LOGIN") \/ D!Asked(d, "REFRESH")
      /\ req[c] = Frame(d)
      /\ state[c] = "AUTHENTICATING" /\ client[c] = d /\ HasToken(d)
  <2>1. state[c] = "AUTHENTICATING"
    <3>1. state[c] \in {"new", "GREETING", "AUTHENTICATING", "ESTABLISHED", "closed"}
      BY ServerTypes DEF IInv
    <3>2. /\ state[c] = "closed" => await[c] = "done"
          /\ state[c] \in {"new", "GREETING"} => await[c] = "read"
          /\ state[c] = "ESTABLISHED" => await[c] \in {"read"} \cup S!GetPcs \cup S!PutPcs
      BY ServerControl DEF IInv
    <3> QED
      BY <3>1, <3>2 DEF S!GetPcs, S!PutPcs
  <2> QED
    <3>1. LinkOk(d) /\ RequestOk(d) /\ HasToken(d)
      BY OnConnection
    <3>2. client[c] = d
      BY <2>1, <3>1, SystemAssumption DEF LinkOk
    <3>3. D!Asked(d, "LOGIN") \/ D!Asked(d, "REFRESH")
      BY <3>1, SystemAssumption DEF RequestOk, S!AuthPcs
    <3>4. req[c] = Frame(d)
      BY <3>1, SystemAssumption DEF RequestOk, S!AuthPcs
    <3> QED
      BY <2>1, <3>1, <3>2, <3>3, <3>4
<1>2. req[c] = [type |-> "AUTH", user |-> User,
                factors |-> IF chan[d].type = "LOGIN" THEN {"hmac"} ELSE {},
                refresh |-> IF chan[d].type = "REFRESH" THEN token[d] ELSE None]
  BY <1>1 DEF Frame, D!Asked
<1>3. CASE D!Asked(d, "LOGIN")
  BY <1>2, <1>3 DEF S!AuthValid, S!PasswordValid, D!Asked
<1>4. CASE D!Asked(d, "REFRESH")
  <2>1. pc[d] = "refresh"
    <3>1. Answered[d] = chan[d]
      BY <1>4, OnTheLink DEF D!Asked
    <3> QED
      BY <1>4, <3>1 DEF IInv, VP!SyncInv, VP!InExchange, D!Asked
  <2>2. token[d] # None
    BY <1>1, <2>1 DEF HasToken, D!CommandPcs, D!Waiting
  <2>3. /\ sessions[token[d]] # None /\ sessions[token[d]].user = User /\ sessions[token[d]].client = d
        /\ token[d] \in Conns /\ clock = 0
    BY <2>2 DEF IInv, SystemInv, TokenWorks, LinkTypes
  <2>4. sessions[token[d]].expiry = 1
    BY <2>3 DEF IInv, SystemInv, SessionOk
  <2> QED
    BY <1>1, <1>2, <1>4, <2>2, <2>3, <2>4 DEF S!AuthValid, S!RefreshValid, D!Asked
<1> QED
  BY <1>1, <1>2, <1>3, <1>4

LEMMA AuthenticateStep ==
  ASSUME IInv, NEW c \in Conns, S!Authenticate(c), Deliver(c),
         UNCHANGED <<devicesOwn, trouble, conn, token, unread>>
  PROVE  IInv' /\ UNCHANGED VP!vars
<1>1. ServerFrame(c)
  BY HandlerFrames
<1>2. SP!Next
  BY SameLogin DEF SP!Next, SP!HandlerStep
<1>3. await[c] = "auth" /\ state[c] = "AUTHENTICATING"
  BY ServerControl, ServerTypes DEF IInv, S!Authenticate, S!AuthPcs, S!GetPcs, S!PutPcs
<1>4. LateOk(c) /\ BaseOk(c) /\ SessionOk(c) /\ clock = 0 /\ unread \in [Conns -> D!PutRequest \cup {None}]
  BY DEF IInv, SystemInv, LinkTypes
<1>5. CASE S!AuthValid(c, req[c])
  <2>1. /\ expiry' = [expiry EXCEPT ![c] = 1] /\ await' = [await EXCEPT ![c] = "session_execute"]
        /\ UNCHANGED <<sessions, state, client, req, row, hit, log, hist>>
    BY <1>4, <1>5 DEF S!Authenticate, S!Goto, S!dbVars
  <2>2. expiry'[c] = 1 /\ await'[c] = "session_execute"
    BY <2>1, ServerTypes DEF IInv
  <2>3. UNCHANGED <<chan, decided, live>>
    BY <2>1, Silent
  <2>4. BaseOk(c)' /\ SessionOk(c)'
    BY <1>3, <1>4, <2>1, <2>2 DEF BaseOk, SessionOk
  <2> QED
    BY <1>1, <1>2, <1>3, <2>1, <2>2, <2>3, <2>4, GoesOn DEF S!AuthPcs
<1>6. CASE ~ S!AuthValid(c, req[c])
  <2>1. \A d \in Devices : conn[d] # c
    BY <1>3, <1>6, AuthPasses
  <2>2. UNCHANGED <<chan, decided, live>>
    BY <2>1, NobodyThere
  <2>3. /\ await' = [await EXCEPT ![c] = "done"] /\ state' = [state EXCEPT ![c] = "closed"]
        /\ UNCHANGED <<sessions, hist>>
    BY <1>6 DEF S!Authenticate, S!Finish, S!Rollback
  <2>4. await'[c] = "done" /\ state'[c] = "closed"
    BY <2>3, ServerTypes DEF IInv
  <2>5. LateOk(c)' /\ BaseOk(c)' /\ SessionOk(c)'
    BY <1>4, <2>3, <2>4 DEF LateOk, BaseOk, SessionOk, S!PutPcs, devicesOwn
  <2> QED
    BY <1>1, <1>2, <1>4, <2>1, <2>2, <2>3, <2>5, QuietStep
<1> QED
  BY <1>5, <1>6

LEMMA SessionStep ==
  ASSUME IInv, NEW c \in Conns, S!SessionExecute(c) \/ S!SessionCommit(c), Deliver(c),
         UNCHANGED <<devicesOwn, trouble, conn, token, unread>>
  PROVE  IInv' /\ UNCHANGED VP!vars
<1>1. ServerFrame(c)
  BY HandlerFrames
<1>2. SP!Next
  BY SameLogin DEF SP!Next, SP!HandlerStep
<1>3. UNCHANGED <<state, client, expiry, req, row, hit, log, hist>>
  BY DEF S!SessionExecute, S!SessionCommit
<1>4. UNCHANGED <<chan, decided, live>>
  BY <1>3, Silent
<1>5. LateOk(c) /\ BaseOk(c) /\ SessionOk(c)
  BY DEF IInv, SystemInv
<1>6. CASE S!SessionExecute(c)
  <2>1. /\ await[c] = "session_execute" /\ await' = [await EXCEPT ![c] = "session_commit"]
        /\ UNCHANGED sessions
    BY <1>6 DEF S!SessionExecute, S!ExecuteSession, S!Goto
  <2>2. await'[c] = "session_commit"
    BY <2>1, ServerTypes DEF IInv
  <2>3. BaseOk(c)' /\ SessionOk(c)'
    BY <1>3, <1>5, <2>1, <2>2 DEF BaseOk, SessionOk
  <2> QED
    BY <1>1, <1>2, <1>3, <1>4, <2>1, <2>2, <2>3, GoesOn DEF S!AuthPcs
<1>7. CASE S!SessionCommit(c)
  <2>1. /\ await[c] = "session_commit" /\ await' = [await EXCEPT ![c] = "session_done"]
        /\ sessions' = [sessions EXCEPT ![c] = [user |-> user[c], client |-> client[c], expiry |-> expiry[c]]]
    BY <1>7, Committed DEF S!SessionCommit, S!Goto
  <2>2. await'[c] = "session_done" /\ sessions'[c].expiry = expiry[c]
    BY <2>1, ServerTypes DEF IInv
  <2>3. BaseOk(c)' /\ SessionOk(c)'
    BY <1>3, <1>5, <2>1, <2>2 DEF BaseOk, SessionOk
  <2> QED
    BY <1>1, <1>2, <1>3, <1>4, <2>1, <2>2, <2>3, GoesOn DEF S!AuthPcs
<1> QED
  BY <1>6, <1>7

\* The row of the vault, and the row a handler has read.
LEMMA StoredRow ==
  ASSUME IInv
  PROVE  vaults[VaultId] = IF Len(Versions) = 0 THEN None
                           ELSE [user |-> User, version |-> Len(Versions), blob |-> Versions[Len(Versions)]]
<1>1. SP!RowIsLastPut
  BY DEF IInv, SP!Inv, SP!SafetyInv
<1> QED
  BY <1>1, VersionsOfHistory DEF IInv, SP!RowIsLastPut

LEMMA RowNotNone ==
  ASSUME IInv, Len(Versions) # 0
  PROVE  [user |-> User, version |-> Len(Versions), blob |-> Versions[Len(Versions)]] # None
<1>1. [user |-> User, version |-> Len(Versions), blob |-> Versions[Len(Versions)]] \in S!VaultRow
  BY VersionsOfHistory DEF IInv, S!VaultRow
<1> QED
  BY <1>1, SystemAssumption

LEMMA RowInHand ==
  ASSUME IInv, NEW c \in Conns, await[c] \in S!GetPcs \cup S!PutPcs
  PROVE  /\ req[c].vault = VaultId /\ user[c] = User /\ state[c] = "ESTABLISHED"
         /\ ~ S!ForeignRow(c)
         /\ S!CurrentVersion(c) \in 0..Len(Versions)
         /\ await[c] \in S!PutPcs => req[c].base \in Nat /\ req[c].blob \in D!Version
         /\ await[c] \in {"put_execute", "put_commit", "put_done"} => req[c].base = S!CurrentVersion(c)
<1>1. SP!RowWasCommitted /\ SP!PutWasChecked
  BY DEF IInv, SP!Inv, SP!SafetyInv
<1>2. req[c].vault = VaultId /\ user[c] = User /\ state[c] = "ESTABLISHED"
  BY ServerControl, ServerTypes DEF IInv, S!GetPcs, S!PutPcs, S!AuthPcs, S!GetReq, S!PutReq
<1>3. row[c] # None => row[c].version \in 1..Len(Versions) /\ row[c].user = User
  BY <1>1, <1>2, VersionsOfHistory DEF IInv, SP!RowWasCommitted
<1>4. ~ S!ForeignRow(c) /\ S!CurrentVersion(c) \in 0..Len(Versions)
  BY <1>2, <1>3, VersionsOfHistory DEF IInv, S!ForeignRow, S!CurrentVersion
<1>5. await[c] \in S!PutPcs => req[c].base \in Nat /\ req[c].blob \in D!Version
  BY ServerControl DEF IInv, S!PutReq
<1>6. await[c] \in {"put_execute", "put_commit", "put_done"} => req[c].base = S!CurrentVersion(c)
  BY <1>1 DEF SP!PutWasChecked, SP!CurrentVersion, S!CurrentVersion
<1> QED
  BY <1>2, <1>4, <1>5, <1>6

\* A PUT builds on a version there is.
LEMMA BaseKnown ==
  ASSUME IInv, NEW c \in Conns, await[c] \in S!PutPcs \ {"put_done"}
  PROVE  req[c].base <= Len(Versions)
<1>1. \A r : VP!PutOk(r) /\ r.base \in Nat => PutFrame(r).base <= Len(Versions)
  BY VersionsOfHistory DEF IInv, VP!PutOk, VP!GoesOnFrom, VP!Current, PutFrame
<1>2. ASSUME NEW d \in Devices, conn[d] = c
      PROVE  req[c].base <= Len(Versions)
  <2>1. D!Asked(d, "PUT") /\ req[c] = PutFrame(chan[d]) /\ decided[d] = Settling(c)
    BY <1>2, OnConnection DEF S!PutPcs
  <2>2. Answered[d] = chan[d]
    BY <2>1 DEF Answered, Settling, S!PutPcs
  <2>3. VP!PutOk(chan[d])
    BY <2>1, <2>2 DEF IInv, VP!SyncInv, VP!MessageOk, VP!Asked, D!Asked
  <2>4. chan[d].base \in Nat
    BY <2>1, AskedFrames DEF D!PutRequest
  <2> QED
    BY <1>1, <2>1, <2>3, <2>4
<1>3. ASSUME NEW r \in late, req[c] = PutFrame(r)
      PROVE  req[c].base <= Len(Versions)
  <2>1. VP!PutOk(r) /\ r.base \in Nat
    BY AskedFrames DEF IInv, VP!SyncInv, D!PutRequest
  <2> QED
    BY <1>1, <1>3, <2>1
<1>4. LateOk(c)
  BY DEF IInv, SystemInv
<1> QED
  BY <1>2, <1>3, <1>4 DEF LateOk

\* A reply, as the device on the connection sees it.
LEMMA Told ==
  ASSUME IInv, NEW c \in Conns, NEW d \in Devices, conn[d] = c, NEW r, NEW rep, S!LogReply(c, r, rep), Deliver(c)
  PROVE  /\ Answered' = [Answered EXCEPT ![d] = Message(rep)]
         /\ rep.type = "AUTH_OK" => live' = [live EXCEPT ![d] = TRUE]
         /\ rep.type # "AUTH_OK" => live' = live
         /\ chan'[d] = Message(rep) /\ decided'[d] = None
<1>1. /\ chan' = [e \in Devices |-> IF conn[e] = c THEN Message(rep) ELSE chan[e]]
      /\ decided' = [e \in Devices |-> IF conn[e] = c THEN None ELSE decided[e]]
      /\ live' = [e \in Devices |-> live[e] \/ (conn[e] = c /\ rep.type = "AUTH_OK")]
  BY Delivered
<1>2. \A e \in Devices : conn[e] = c <=> e = d
  BY OnConnection
<1>3. live \in [Devices -> BOOLEAN]
  BY DEF IInv, VP!TypeOk
<1>4. chan'[d] = Message(rep) /\ decided'[d] = None
  BY <1>1
<1>5. Answered' = [Answered EXCEPT ![d] = Message(rep)]
  BY <1>1, <1>2 DEF Answered
<1>6. rep.type = "AUTH_OK" => live' = [live EXCEPT ![d] = TRUE]
  BY <1>1, <1>2, <1>3
<1>7. rep.type # "AUTH_OK" => live' = live
  BY <1>1, <1>3
<1> QED
  BY <1>4, <1>5, <1>6, <1>7

LEMMA ReplyStep ==
  ASSUME IInv, NEW c \in Conns, NEW r, NEW rep, S!LogReply(c, r, rep), Deliver(c), ServerFrame(c),
         [SP!Next]_SP!vars,
         UNCHANGED <<devicesOwn, trouble, conn, token, unread, hist, sessions, client>>,
         await'[c] = "read", state'[c] = "ESTABLISHED", state[c] \in {"AUTHENTICATING", "ESTABLISHED"},
         Message(rep).type = "AUTH_OK" => rep.type = "AUTH_OK" /\ \A d \in Devices : conn[d] = c => Stored(c, d),
         \A d \in Devices : conn[d] = c => [VP!Next]_VP!vars
  PROVE  IInv' /\ [VP!Next]_VP!vars
<1>1. [VP!Next]_VP!vars
  <2>1. CASE \A d \in Devices : conn[d] # c
    <3>1. UNCHANGED <<chan, decided, live>>
      BY <2>1, NobodyThere
    <3>2. Answered' = Answered
      BY <3>1 DEF Answered
    <3> QED
      BY <3>1, <3>2, NothingSeen
  <2> QED
    BY <2>1
<1>2. /\ chan' = [e \in Devices |-> IF conn[e] = c THEN Message(rep) ELSE chan[e]]
      /\ decided' = [e \in Devices |-> IF conn[e] = c THEN None ELSE decided[e]]
      /\ live' = [e \in Devices |-> live[e] \/ (conn[e] = c /\ rep.type = "AUTH_OK")]
  BY Delivered
<1>3. DevicesFrame(c)
  <2>1. /\ unread \in [Conns -> D!PutRequest \cup {None}] /\ live \in [Devices -> BOOLEAN]
    BY DEF IInv, SystemInv, LinkTypes, VP!TypeOk
  <2>2. Len(Versions') = Len(Versions) /\ Len(Versions) \in Nat
    BY VersionsOfHistory DEF IInv, Versions
  <2> QED
    BY <1>2, <2>1, <2>2 DEF DevicesFrame, devicesOwn
<1>4. ASSUME NEW d \in Devices, conn[d] = c
      PROVE  LinkOk(d)' /\ RequestOk(d)' /\ HasToken(d)'
  <2>1. LinkOk(d) /\ RequestOk(d) /\ HasToken(d) /\ client[c] = d
    BY <1>4, OnConnection
  <2>2. chan'[d] = Message(rep) /\ decided'[d] = None /\ (live[d] => live'[d])
        /\ (rep.type = "AUTH_OK" => live'[d])
    BY <1>2, <1>4
  <2>3. LinkOk(d)'
    BY <1>4, <2>1 DEF LinkOk, devicesOwn
  <2>4. RequestOk(d)'
    BY <1>4, <2>2 DEF RequestOk, Settling, S!AuthPcs, S!GetPcs, S!PutPcs
  <2>5. HasToken(d)'
    BY <1>4, <2>1, <2>2 DEF HasToken, D!Asked, Stored, devicesOwn
  <2> QED
    BY <2>3, <2>4, <2>5
<1>5. LateOk(c)' /\ BaseOk(c)' /\ SessionOk(c)'
  BY DEF IInv, SystemInv, LateOk, BaseOk, SessionOk, S!PutPcs, devicesOwn
<1> QED
  BY <1>1, <1>3, <1>4, <1>5, HandlerStep

LEMMA PingStep ==
  ASSUME IInv, NEW c \in Conns, NEW d \in Devices, conn[d] = c, D!Asked(d, "PING"), S!Ping(c, Frame(d)),
         Deliver(c), UNCHANGED <<devicesOwn, trouble, conn, token, unread>>
  PROVE  IInv' /\ [VP!Next]_VP!vars
<1> DEFINE rep == [type |-> "PONG"]
<1>1. ServerFrame(c) /\ S!LogReply(c, Frame(d), rep)
  BY ReadFrames DEF S!Ping
<1>2. SP!Next
  BY SameGet, AskedFrames DEF SP!Next, SP!FrameStep
<1>3. /\ state[c] = "ESTABLISHED" /\ await[c] = "read"
      /\ UNCHANGED <<hist, sessions, client, await, state>>
  BY DEF S!Ping, S!Reading, S!dbVars
<1>4. Message(rep) = [type |-> "PONG"]
  BY DEF Message
<1>5. VP!Next
  <2>1. Answered' = [Answered EXCEPT ![d] = [type |-> "PONG"]] /\ live' = live
    BY <1>1, <1>4, Told
  <2>2. VP!Asked(d, "PING")
    <3>1. Answered[d] = chan[d]
      BY OnTheLink DEF D!Asked
    <3> QED
      BY <3>1 DEF D!Asked, VP!Asked
  <2>3. VP!ServePing(d)
    BY <1>3, <2>1, <2>2 DEF VP!ServePing, VP!Answer, devicesOwn, Versions
  <2>4. VP!Serve(d)
    BY <2>3 DEF VP!Serve, devicesOwn, VP!vaultVars, VP!userVars
  <2> QED
    BY <2>4 DEF VP!Next
<1>6. Message(rep).type # "AUTH_OK"
  BY <1>4
<1> HIDE DEF rep
<1> QED
  BY <1>1, <1>2, <1>3, <1>5, <1>6, ReplyStep

LEMMA AuthOkStep ==
  ASSUME IInv, NEW c \in Conns, S!AuthOk(c), Deliver(c),
         UNCHANGED <<devicesOwn, trouble, conn, token, unread>>
  PROVE  IInv' /\ [VP!Next]_VP!vars
<1> DEFINE rep == [type |-> "AUTH_OK", token |-> c, expiry |-> expiry[c], vault_version |-> 0]
<1>1. ServerFrame(c) /\ S!LogReply(c, req[c], rep)
  BY HandlerFrames DEF S!AuthOk
<1>2. SP!Next
  BY SameLogin DEF SP!Next, SP!HandlerStep
<1>3. /\ await[c] = "session_done" /\ state[c] = "AUTHENTICATING"
      /\ UNCHANGED <<hist, sessions, client>>
      /\ await'[c] = "read" /\ state'[c] = "ESTABLISHED"
  BY ServerControl, ServerTypes DEF IInv, S!AuthOk, S!AuthPcs, S!GetPcs, S!PutPcs, S!dbVars, S!Continue, S!Goto
<1>4. Message(rep) = [type |-> "AUTH_OK", version |-> 0]
  BY DEF Message
<1>5. ASSUME NEW d \in Devices, conn[d] = c
      PROVE  Stored(c, d) /\ VP!Next
  <2>1. (D!Asked(d, "LOGIN") \/ D!Asked(d, "REFRESH")) /\ client[c] = d /\ HasToken(d)
    BY <1>3, <1>5, OnConnection DEF S!AuthPcs
  <2>2. Stored(c, d)
    <3>1. SP!SessionIsDone
      BY DEF IInv, SP!Inv, SP!SafetyInv
    <3>2. sessions[c] = [user |-> user[c], client |-> client[c], expiry |-> expiry[c]]
      BY <1>3, <3>1 DEF SP!SessionIsDone
    <3>3. user[c] = User
      BY <1>3, ServerControl DEF IInv, S!AuthPcs
    <3>4. sessions[c] # None
      <4>1. [user |-> user[c], client |-> client[c], expiry |-> expiry[c]] \in S!SessionRow
        BY <2>1, <3>3, ServerTypes DEF IInv, S!SessionRow
      <4> QED
        BY <3>2, <4>1, SystemAssumption
    <3> QED
      BY <2>1, <3>2, <3>3, <3>4 DEF Stored
  <2>3. Answered[d] = chan[d]
    BY <2>1, OnTheLink DEF D!Asked
  <2>4. Answered' = [Answered EXCEPT ![d] = VP!AuthOk] /\ live' = [live EXCEPT ![d] = TRUE]
    BY <1>1, <1>4, <1>5, Told DEF VP!AuthOk, VP!AuthOkVersion
  <2>5. UNCHANGED <<Versions, trouble>>
    BY <1>3 DEF Versions
  <2>6. CASE D!Asked(d, "LOGIN")
    <3>1. VP!Asked(d, "LOGIN")
      BY <2>3, <2>6 DEF D!Asked, VP!Asked
    <3>2. VP!ServeLogin(d)
      BY <2>4, <2>5, <3>1 DEF VP!ServeLogin, VP!Answer
    <3>3. VP!Serve(d)
      BY <3>2 DEF VP!Serve, devicesOwn, VP!vaultVars, VP!userVars
    <3> QED
      BY <2>2, <3>3 DEF VP!Next
  <2>7. CASE D!Asked(d, "REFRESH")
    <3>1. VP!Asked(d, "REFRESH") /\ pc[d] = "refresh"
      BY <2>3, <2>7 DEF IInv, VP!SyncInv, VP!InExchange, D!Asked, VP!Asked
    <3>2. live[d]
      BY <2>1, <3>1 DEF HasToken, D!CommandPcs, D!Waiting
    <3>3. live' = live
      BY <2>4, <3>2 DEF IInv, VP!TypeOk
    <3>4. VP!ServeRefresh(d)
      BY <2>4, <2>5, <3>1, <3>2, <3>3 DEF VP!ServeRefresh, VP!AnswersRefresh, VP!Answer
    <3>5. VP!Serve(d)
      BY <3>4 DEF VP!Serve, devicesOwn, VP!vaultVars, VP!userVars
    <3> QED
      BY <2>2, <3>5 DEF VP!Next
  <2> QED
    BY <2>1, <2>2, <2>6, <2>7
<1>6. rep.type = "AUTH_OK"
  OBVIOUS
<1> HIDE DEF rep
<1> QED
  BY <1>1, <1>2, <1>3, <1>5, <1>6, ReplyStep

\* The answer that was settled is written.
LEMMA SettledReply ==
  ASSUME IInv, NEW c \in Conns, NEW rep, S!LogReply(c, req[c], rep), Deliver(c), ServerFrame(c),
         [SP!Next]_SP!vars,
         UNCHANGED <<devicesOwn, trouble, conn, token, unread, hist, sessions, client>>,
         await'[c] = "read", state'[c] = "ESTABLISHED", state[c] = "ESTABLISHED",
         await[c] \in S!GetPcs \cup S!PutPcs,
         Settling(c) # None, Message(rep) = Settling(c),
         rep.type # "AUTH_OK" /\ Message(rep).type # "AUTH_OK"
  PROVE  IInv' /\ [VP!Next]_VP!vars
<1>1. ASSUME NEW d \in Devices, conn[d] = c
      PROVE  UNCHANGED VP!vars
  <2>1. decided[d] = Settling(c)
    BY <1>1, OnConnection DEF S!GetPcs, S!PutPcs
  <2>2. Answered[d] = Message(rep)
    BY <2>1 DEF Answered
  <2>3. Answered' = [Answered EXCEPT ![d] = Message(rep)] /\ live' = live
    BY <1>1, Told
  <2>4. Answered' = Answered
    BY <2>2, <2>3 DEF Answered
  <2> QED
    BY <2>3, <2>4, NothingSeen
<1> QED
  BY <1>1, ReplyStep

LEMMA GetDoneStep ==
  ASSUME IInv, NEW c \in Conns, S!GetDone(c), Deliver(c),
         UNCHANGED <<devicesOwn, trouble, conn, token, unread>>
  PROVE  IInv' /\ [VP!Next]_VP!vars
<1>1. ServerFrame(c) /\ S!LogReply(c, req[c], S!GetReply(c))
  BY HandlerFrames DEF S!GetDone
<1>2. SP!Next
  BY SameGet DEF SP!Next, SP!HandlerStep
<1>3. /\ await[c] = "get_done" /\ state[c] = "ESTABLISHED"
      /\ UNCHANGED <<hist, sessions, client, state>>
      /\ await'[c] = "read"
  BY RowInHand, ServerTypes DEF IInv, S!GetDone, S!GetPcs, S!dbVars, S!Continue, S!Goto
<1>4. S!GetReply(c).type \in {"ERROR", "VAULT_DATA"} /\ (S!GetReply(c).type = "ERROR" => S!GetReply(c).code = "NOT_FOUND")
  BY DEF S!GetReply, S!ErrorReply
<1>5. Settling(c) = Message(S!GetReply(c))
  BY <1>3 DEF Settling
<1>6. Message(S!GetReply(c)).type \in {"NOT_FOUND", "DATA"}
  BY <1>4 DEF Message
<1>7. Settling(c) # None
  <2>1. row[c] # None => row[c].version \in Nat /\ row[c].blob.content \in D!Content
    BY ServerTypes DEF IInv, S!VaultRow, D!Version
  <2>2. Message(S!GetReply(c)) \in D!Message
    BY <2>1 DEF Message, S!GetReply, S!ErrorReply, D!Message
  <2> QED
    BY <1>5, <2>2, SystemAssumption
<1> QED
  BY <1>1, <1>2, <1>3, <1>4, <1>5, <1>6, <1>7, SettledReply DEF S!GetPcs

\* A PUT that does not build on the current version is refused.
LEMMA ConflictStep ==
  ASSUME IInv, NEW c \in Conns, S!LogReply(c, req[c], S!ErrorReply("CONFLICT")), Deliver(c), ServerFrame(c),
         [SP!Next]_SP!vars,
         UNCHANGED <<devicesOwn, trouble, conn, token, unread, hist, sessions, client>>,
         await'[c] = "read", state'[c] = "ESTABLISHED", state[c] = "ESTABLISHED",
         await[c] \in S!PutPcs, Settling(c) = None, req[c].base < Len(Versions)
  PROVE  IInv' /\ [VP!Next]_VP!vars
<1>1. Message(S!ErrorReply("CONFLICT")) = [type |-> "CONFLICT"] /\ S!ErrorReply("CONFLICT").type = "ERROR"
  BY DEF Message, S!ErrorReply
<1>2. ASSUME NEW d \in Devices, conn[d] = c
      PROVE  VP!Next
  <2>1. D!Asked(d, "PUT") /\ req[c] = PutFrame(chan[d]) /\ decided[d] = None
    BY <1>2, OnConnection DEF S!PutPcs
  <2>2. Answered[d] = chan[d]
    BY <2>1 DEF Answered
  <2>3. VP!Asked(d, "PUT") /\ ~ VP!Accepts(Answered[d])
    <3>1. chan[d].base \in Nat /\ chan[d].base < Len(Versions)
      BY <2>1, AskedFrames DEF PutFrame, D!PutRequest
    <3>2. Len(Versions) \in Nat
      BY VersionsOfHistory DEF IInv
    <3> QED
      BY <2>1, <2>2, <3>1, <3>2 DEF VP!Asked, D!Asked, VP!Accepts, VP!Current
  <2>4. Answered' = [Answered EXCEPT ![d] = [type |-> "CONFLICT"]] /\ live' = live
    BY <1>1, <1>2, Told
  <2>5. VP!ServePut(d)
    BY <2>3, <2>4 DEF VP!ServePut, VP!Answer, Versions
  <2>6. VP!Serve(d)
    BY <2>5 DEF VP!Serve, devicesOwn, VP!vaultVars, VP!userVars
  <2> QED
    BY <2>6 DEF VP!Next
<1>3. Message(S!ErrorReply("CONFLICT")).type # "AUTH_OK"
  BY <1>1
<1> QED
  BY <1>2, <1>3, ReplyStep

LEMMA PutCheckStep ==
  ASSUME IInv, NEW c \in Conns, S!PutCheck(c), Deliver(c),
         UNCHANGED <<devicesOwn, trouble, conn, token, unread>>
  PROVE  IInv' /\ [VP!Next]_VP!vars
<1>1. ServerFrame(c)
  BY HandlerFrames
<1>2. SP!Next
  BY SamePut DEF SP!Next, SP!HandlerStep
<1>3. /\ await[c] = "put_check" /\ state[c] = "ESTABLISHED" /\ ~ S!ForeignRow(c)
      /\ req[c].base \in Nat /\ S!CurrentVersion(c) \in 0..Len(Versions) /\ Len(Versions) \in Nat
      /\ UNCHANGED <<hist, sessions, client, state>>
  BY RowInHand, VersionsOfHistory DEF IInv, S!PutCheck, S!PutPcs, S!dbVars
<1>4. LateOk(c) /\ BaseOk(c) /\ SessionOk(c) /\ DOMAIN await = Conns
  BY ServerTypes DEF IInv, SystemInv
<1>5. CASE req[c].base # S!CurrentVersion(c)
  <2>1. S!LogReply(c, req[c], S!ErrorReply("CONFLICT")) /\ await'[c] = "read"
    BY <1>3, <1>4, <1>5 DEF S!PutCheck, S!Continue, S!Goto
  <2>2. req[c].base < Len(Versions)
    BY <1>3, <1>4, <1>5 DEF BaseOk
  <2>3. Settling(c) = None
    BY <1>3 DEF Settling
  <2> QED
    BY <1>1, <1>2, <1>3, <2>1, <2>2, <2>3, ConflictStep DEF S!PutPcs
<1>6. CASE req[c].base = S!CurrentVersion(c)
  <2>1. UNCHANGED <<req, row, hit, log>> /\ await'[c] = "put_execute"
    BY <1>3, <1>4, <1>6 DEF S!PutCheck, S!Goto
  <2>2. UNCHANGED <<chan, decided, live>>
    BY <2>1, Silent
  <2>3. BaseOk(c)' /\ SessionOk(c)'
    BY <1>3, <1>4, <2>1 DEF BaseOk, SessionOk
  <2>4. IInv' /\ UNCHANGED VP!vars
    BY <1>1, <1>2, <1>3, <2>1, <2>2, <2>3, GoesOn DEF S!PutPcs
  <2> QED
    BY <2>4
<1> QED
  BY <1>5, <1>6

LEMMA PutDoneStep ==
  ASSUME IInv, NEW c \in Conns, S!PutDone(c), Deliver(c),
         UNCHANGED <<devicesOwn, trouble, conn, token, unread>>
  PROVE  IInv' /\ [VP!Next]_VP!vars
<1>1. ServerFrame(c) /\ S!LogReply(c, req[c], S!PutReply(c))
  BY HandlerFrames DEF S!PutDone
<1>2. SP!Next
  BY SamePut DEF SP!Next, SP!HandlerStep
<1>3. /\ await[c] = "put_done" /\ state[c] = "ESTABLISHED"
      /\ UNCHANGED <<hist, sessions, client, state>>
      /\ await'[c] = "read"
  BY RowInHand, ServerTypes DEF IInv, S!PutDone, S!PutPcs, S!dbVars, S!Continue, S!Goto
<1>4. CASE hit[c]
  <2>1. Message(S!PutReply(c)) = [type |-> "ACK", version |-> S!NewVersion(c)] /\ S!PutReply(c).type = "VAULT_ACK"
    BY <1>4 DEF Message, S!PutReply
  <2>2. Settling(c) = Message(S!PutReply(c))
    BY <1>3, <1>4 DEF Settling
  <2>3. Settling(c) # None
    <3>1. S!NewVersion(c) \in Nat
      BY <1>3, RowInHand, VersionsOfHistory DEF IInv, S!NewVersion, S!PutPcs
    <3>2. [type |-> "ACK", version |-> S!NewVersion(c)] \in D!Message
      BY <3>1 DEF D!Message
    <3> QED
      BY <2>1, <2>2, <3>2, SystemAssumption
  <2> QED
    BY <1>1, <1>2, <1>3, <2>1, <2>2, <2>3, SettledReply DEF S!PutPcs
<1>5. CASE ~ hit[c]
  <2>1. S!PutReply(c) = S!ErrorReply("CONFLICT") /\ Settling(c) = None
    BY <1>3, <1>5 DEF S!PutReply, Settling
  <2>2. req[c].base < Len(Versions)
    BY <1>3, <1>5 DEF IInv, SystemInv, BaseOk
  <2> QED
    BY <1>1, <1>2, <1>3, <2>1, <2>2, ConflictStep DEF S!PutPcs
<1> QED
  BY <1>4, <1>5

\* An answer that is settled counts as given.
LEMMA SettledAnswer ==
  ASSUME IInv, NEW c \in Conns, NEW m \in D!Message, UNCHANGED chan,
         decided' = [d \in Devices |-> IF conn[d] = c THEN m ELSE decided[d]]
  PROVE  /\ (\A d \in Devices : conn[d] # c) => Answered' = Answered
         /\ \A d \in Devices : conn[d] = c => decided'[d] = m /\ Answered' = [Answered EXCEPT ![d] = m]
<1>1. m # None
  BY SystemAssumption
<1>2. ASSUME NEW d \in Devices, conn[d] = c
      PROVE  decided'[d] = m /\ Answered' = [Answered EXCEPT ![d] = m]
  <2>1. \A e \in Devices : conn[e] = c => e = d
    BY <1>2, OnConnection
  <2> QED
    BY <1>1, <1>2, <2>1 DEF Answered
<1>3. (\A d \in Devices : conn[d] # c) => Answered' = Answered
  BY DEF Answered
<1> QED
  BY <1>2, <1>3

LEMMA GetReadStep ==
  ASSUME IInv, NEW c \in Conns, S!GetRead(c), Settle(c, S!GetReply(c)'),
         UNCHANGED <<devicesOwn, trouble, conn, token, unread, live, chan>>
  PROVE  IInv' /\ [VP!Next]_VP!vars
<1> DEFINE n == Len(Versions)
           m == IF n = 0 THEN [type |-> "NOT_FOUND"]
                ELSE [type |-> "DATA", version |-> n, content |-> Versions[n].content]
<1>1. ServerFrame(c)
  BY HandlerFrames
<1>2. SP!Next
  BY SameGet DEF SP!Next, SP!HandlerStep
<1>3. /\ await[c] = "get_read" /\ state[c] = "ESTABLISHED"
      /\ await'[c] = "get_done" /\ row'[c] = vaults[VaultId] /\ user[c] = User
      /\ UNCHANGED <<hist, vaults, sessions, client, state, user, req>>
  BY RowInHand, ServerTypes DEF IInv, S!GetRead, S!ReadRow, S!GetPcs, S!dbVars, S!Goto
<1>4. Message(S!GetReply(c)') = m
  <2>1. vaults[VaultId] = IF n = 0 THEN None ELSE [user |-> User, version |-> n, blob |-> Versions[n]]
    BY StoredRow
  <2>2. n # 0 => [user |-> User, version |-> n, blob |-> Versions[n]] # None
    BY RowNotNone
  <2>3. CASE n = 0
    BY <1>3, <2>1, <2>3 DEF S!GetReply, S!ErrorReply, Message
  <2>4. CASE n # 0
    <3>1. row'[c] # None /\ row'[c].user = User /\ row'[c].version = n /\ row'[c].blob = Versions[n]
      BY <1>3, <2>1, <2>2, <2>4
    <3>2. S!GetReply(c)' = [type |-> "VAULT_DATA", vault |-> req[c].vault, version |-> n, blob |-> Versions[n]]
      BY <1>3, <3>1 DEF S!GetReply, S!ForeignRow
    <3> QED
      BY <2>4, <3>2 DEF Message
  <2> QED
    BY <2>3, <2>4
<1>5. m \in D!Message
  <2>1. n \in Nat /\ (n # 0 => Versions[n] \in D!Version)
    BY VersionsOfHistory DEF IInv
  <2> QED
    BY <2>1 DEF D!Message, D!Version
<1>6. decided' = [d \in Devices |-> IF conn[d] = c THEN m ELSE decided[d]]
  BY <1>4 DEF Settle
<1>7. /\ (\A d \in Devices : conn[d] # c) => Answered' = Answered
      /\ \A d \in Devices : conn[d] = c => decided'[d] = m /\ Answered' = [Answered EXCEPT ![d] = m]
  <2> HIDE DEF m
  <2> QED
    BY <1>5, <1>6, SettledAnswer
<1>8. [VP!Next]_VP!vars
  <2>1. CASE \A d \in Devices : conn[d] # c
    BY <1>3, <1>7, <2>1, NothingSeen
  <2>2. ASSUME NEW d \in Devices, conn[d] = c
        PROVE  VP!Next
    <3>1. D!Asked(d, "GET") /\ decided[d] = None
      BY <1>3, <2>2, OnConnection DEF S!GetPcs, Settling
    <3>2. VP!Asked(d, "GET")
      BY <3>1 DEF VP!Asked, D!Asked, Answered
    <3>3. VP!ServeGet(d)
      BY <1>3, <1>7, <2>2, <3>2 DEF VP!ServeGet, VP!Answer, VP!Current, Versions
    <3>4. VP!Serve(d)
      BY <3>3 DEF VP!Serve, devicesOwn, VP!vaultVars, VP!userVars
    <3> QED
      BY <3>4 DEF VP!Next
  <2> QED
    BY <2>1, <2>2
<1>9. DevicesFrame(c)
  <2>1. chan \in [Devices -> D!Message \cup {None}] /\ unread \in [Conns -> D!PutRequest \cup {None}]
    BY DEF IInv, SystemInv, LinkTypes
  <2>2. Len(Versions') = Len(Versions) /\ Len(Versions) \in Nat
    BY <1>3, VersionsOfHistory DEF IInv, Versions
  <2> HIDE DEF m
  <2> QED
    BY <1>6, <2>1, <2>2 DEF DevicesFrame, devicesOwn
<1>10. ASSUME NEW d \in Devices, conn[d] = c
       PROVE  LinkOk(d)' /\ RequestOk(d)' /\ HasToken(d)'
  <2>1. LinkOk(d) /\ RequestOk(d) /\ HasToken(d) /\ D!Asked(d, "GET")
    BY <1>3, <1>10, OnConnection DEF S!GetPcs
  <2>2. LinkOk(d)'
    BY <1>3, <2>1 DEF LinkOk, devicesOwn
  <2>3. Settling(c)' = m
    BY <1>3, <1>4 DEF Settling, Message
  <2>4. conn[d] # None
    BY <1>10, SystemAssumption
  <2>5. RequestOk(d)'
    <3> HIDE DEF m
    <3> QED
      BY <1>3, <1>7, <1>10, <2>1, <2>3, <2>4 DEF RequestOk, S!AuthPcs, S!GetPcs, S!PutPcs, D!Asked
  <2>6. HasToken(d)'
    BY <1>3, <2>1 DEF HasToken, D!Asked, Stored, devicesOwn
  <2> QED
    BY <2>2, <2>5, <2>6
<1>11. LateOk(c)' /\ BaseOk(c)' /\ SessionOk(c)'
  BY <1>3 DEF IInv, SystemInv, LateOk, BaseOk, SessionOk, S!PutPcs, devicesOwn
<1> QED
  BY <1>1, <1>2, <1>8, <1>9, <1>10, <1>11, HandlerStep

LEMMA PutReadStep ==
  ASSUME IInv, NEW c \in Conns, S!PutRead(c), Deliver(c),
         UNCHANGED <<devicesOwn, trouble, conn, token, unread>>
  PROVE  IInv' /\ UNCHANGED VP!vars
<1>1. ServerFrame(c)
  BY HandlerFrames
<1>2. SP!Next
  BY SamePut DEF SP!Next, SP!HandlerStep
<1>3. /\ await[c] = "put_read" /\ state[c] = "ESTABLISHED"
      /\ await'[c] = "put_check" /\ row'[c] = vaults[VaultId]
      /\ UNCHANGED <<hist, sessions, client, state, req, hit, log>>
  BY RowInHand, ServerTypes DEF IInv, S!PutRead, S!ReadRow, S!PutPcs, S!dbVars, S!Goto
<1>4. UNCHANGED <<chan, decided, live>>
  BY <1>3, Silent
<1>5. BaseOk(c)'
  <2>1. S!CurrentVersion(c)' = Len(Versions)
    <3>1. Len(Versions) # 0 => vaults[VaultId] # None /\ vaults[VaultId].version = Len(Versions)
      BY StoredRow, RowNotNone
    <3> QED
      BY <1>3, <3>1, StoredRow DEF S!CurrentVersion
  <2>2. req[c].base <= Len(Versions)
    BY <1>3, BaseKnown DEF S!PutPcs
  <2> QED
    BY <1>3, <2>1, <2>2 DEF BaseOk
<1>6. SessionOk(c)'
  <2>1. SessionOk(c)
    BY DEF IInv, SystemInv
  <2> QED
    BY <1>3, <2>1 DEF SessionOk
<1>7. await[c] \in S!PutPcs \ {"put_done"} /\ await'[c] \in S!PutPcs /\ await'[c] # "put_done"
  BY <1>3 DEF S!PutPcs
<1> QED
  BY <1>1, <1>2, <1>3, <1>4, <1>5, <1>6, <1>7, GoesOn

LEMMA PutExecuteStep ==
  ASSUME IInv, NEW c \in Conns, S!PutExecute(c), Deliver(c),
         UNCHANGED <<devicesOwn, trouble, conn, token, unread>>
  PROVE  IInv' /\ UNCHANGED VP!vars
<1>1. ServerFrame(c)
  BY HandlerFrames
<1>2. SP!Next
  BY SamePut DEF SP!Next, SP!HandlerStep
<1>3. /\ await[c] = "put_execute" /\ state[c] = "ESTABLISHED"
      /\ await'[c] = "put_commit"
      /\ UNCHANGED <<hist, sessions, client, state, req, row, log>>
  BY RowInHand, ServerTypes DEF IInv, S!PutExecute, S!ExecuteUpsert, S!PutPcs, S!Goto
<1>4. UNCHANGED <<chan, decided, live>>
  BY <1>3, Silent
<1>5. BaseOk(c)' /\ SessionOk(c)'
  <2>1. SessionOk(c)
    BY DEF IInv, SystemInv
  <2> QED
    BY <1>3, <2>1 DEF BaseOk, SessionOk
<1>6. await[c] \in S!PutPcs \ {"put_done"} /\ await'[c] \in S!PutPcs /\ await'[c] # "put_done"
  BY <1>3 DEF S!PutPcs
<1> QED
  BY <1>1, <1>2, <1>3, <1>4, <1>5, <1>6, GoesOn

\* An upsert hits when the row that was read is still the current one.
LEMMA HitsCurrent ==
  ASSUME IInv, NEW c \in Conns, await[c] = "put_commit"
  PROVE  hit[c] <=> S!CurrentVersion(c) = Len(Versions)
<1>1. hit[c] <=> SP!UpsertHits(req[c].vault, user[c], SP!NewVersion(c))
  BY DEF IInv, SP!Inv, SP!SafetyInv, SP!TxnOk, SP!PutPending
<1>2. SP!NewVersion(c) = S!CurrentVersion(c) + 1
  BY DEF SP!NewVersion, SP!CurrentVersion, S!CurrentVersion
<1>3. /\ req[c].vault = VaultId /\ user[c] = User /\ S!CurrentVersion(c) \in 0..Len(Versions)
      /\ Len(Versions) \in Nat
  BY RowInHand, VersionsOfHistory DEF IInv, S!PutPcs
<1>4. Len(Versions) # 0 =>
        vaults[VaultId] # None /\ vaults[VaultId].user = User /\ vaults[VaultId].version = Len(Versions)
  BY StoredRow, RowNotNone
<1>5. Len(Versions) = 0 => vaults[VaultId] = None
  BY StoredRow
<1> QED
  BY <1>1, <1>2, <1>3, <1>4, <1>5 DEF SP!UpsertHits

\* The commit of an upsert that missed publishes nothing.
LEMMA MissStep ==
  ASSUME IInv, NEW c \in Conns, PutCommit(c), ~hit[c], UNCHANGED <<devicesOwn, conn, token>>
  PROVE  IInv' /\ UNCHANGED VP!vars
<1>1. ServerFrame(c) /\ S!PutCommit(c)
  BY HandlerFrames DEF PutCommit
<1>2. SP!Next
  BY <1>1, SamePut DEF SP!Next, SP!HandlerStep
<1>3. /\ await[c] = "put_commit" /\ await'[c] = "put_done"
      /\ UNCHANGED <<hist, sessions, client, state, req, row, hit, expiry>>
  BY <1>1, Committed, ServerTypes DEF IInv, S!PutCommit, S!Goto
<1>4. UNCHANGED <<devicesOwn, trouble, chan, decided, live, conn, token, unread>>
  BY DEF PutCommit
<1>5. req[c].base < Len(Versions)
  <2>1. req[c].base = S!CurrentVersion(c) /\ S!CurrentVersion(c) \in 0..Len(Versions)
    BY <1>3, RowInHand DEF S!PutPcs
  <2>2. S!CurrentVersion(c) # Len(Versions)
    BY <1>3, HitsCurrent
  <2> QED
    BY <2>1, <2>2, VersionsOfHistory DEF IInv
<1>6. BaseOk(c)' /\ SessionOk(c)'
  <2>1. SessionOk(c) /\ state[c] = "ESTABLISHED" /\ Versions' = Versions
    BY <1>3, RowInHand DEF IInv, SystemInv, S!PutPcs, Versions
  <2> QED
    BY <1>3, <1>5, <2>1 DEF BaseOk, SessionOk
<1>7. await[c] \in S!PutPcs \ {"put_done"} /\ await'[c] \in S!PutPcs
  BY <1>3 DEF S!PutPcs
<1> QED
  BY <1>1, <1>2, <1>3, <1>4, <1>6, <1>7, GoesOn

\* The commit of an upsert that hit stores a version; the device that waits for it
\* counts as answered, and without one a late PUT was accepted.
LEMMA HitStep ==
  ASSUME IInv, NEW c \in Conns, PutCommit(c), hit[c], UNCHANGED <<devicesOwn, conn, token>>
  PROVE  IInv' /\ [VP!Next]_VP!vars
<1> DEFINE n == Len(Versions)
           m == [type |-> "ACK", version |-> n + 1]
           b == req[c].blob
<1>1. ServerFrame(c) /\ S!PutCommit(c) /\ D!Accept(b, Devices \ Holders(c)) /\ UNCHANGED <<live, chan, unread>>
  BY HandlerFrames DEF PutCommit
<1>2. SP!Next
  BY <1>1, SamePut DEF SP!Next, SP!HandlerStep
<1>3. /\ await[c] = "put_commit" /\ await'[c] = "put_done"
      /\ UNCHANGED <<sessions, client, state, req, row, hit, expiry>>
  BY <1>1, Committed, ServerTypes DEF IInv, S!PutCommit, S!Goto
<1>4. /\ req[c].base = n /\ S!CurrentVersion(c) = n /\ n \in Nat
      /\ b \in D!Version /\ state[c] = "ESTABLISHED"
  BY <1>3, HitsCurrent, RowInHand, VersionsOfHistory DEF IInv, S!PutPcs
<1>5. Message(S!PutReply(c)) = m /\ Message(S!PutReply(c)') = m
  BY <1>3, <1>4 DEF S!PutReply, S!NewVersion, S!CurrentVersion, Message
<1>6. decided' = [d \in Devices |-> IF conn[d] = c THEN m ELSE decided[d]]
  BY <1>5 DEF PutCommit, Settle
<1>7. m \in D!Message
  BY <1>4 DEF D!Message
<1>8. /\ (\A d \in Devices : conn[d] # c) => Answered' = Answered
      /\ \A d \in Devices : conn[d] = c => decided'[d] = m /\ Answered' = [Answered EXCEPT ![d] = m]
  <2>1. UNCHANGED chan
    BY <1>1
  <2> HIDE DEF m
  <2> QED
    BY <2>1, <1>6, <1>7, SettledAnswer
<1>9. b = [by |-> b.by, content |-> b.content, seen |-> b.seen, gone |-> b.gone]
  BY <1>4 DEF D!Version
<1>10. \A e \in Devices : VP!InCommand(e) <=> D!InCommand(e)
  BY SameNames DEF VP!InCommand, D!InCommand
<1>11. ASSUME NEW d \in Devices, conn[d] = c
       PROVE  VP!Next
  <2>1. D!Asked(d, "PUT") /\ req[c] = PutFrame(chan[d]) /\ decided[d] = None /\ Holders(c) = {d}
    BY <1>3, <1>11, OnConnection DEF S!PutPcs, Settling
  <2>2. Answered[d] = chan[d]
    BY <2>1 DEF Answered
  <2>3. VP!Asked(d, "PUT") /\ VP!Accepts(Answered[d])
    BY <1>4, <2>1, <2>2 DEF VP!Asked, D!Asked, VP!Accepts, VP!Current, PutFrame
  <2>4. b = [by |-> chan[d].by, content |-> chan[d].content, seen |-> chan[d].seen, gone |-> chan[d].gone]
    BY <2>1 DEF PutFrame
  <2>5. VP!Accept(Answered[d], Devices \ {d})
    BY <1>1, <1>9, <1>10, <2>1, <2>2, <2>4 DEF VP!Accept, D!Accept, VP!Caused, D!Caused
  <2>6. VP!ServePut(d)
    BY <1>1, <1>8, <1>11, <2>3, <2>5 DEF VP!ServePut, VP!Answer, VP!Current
  <2>7. VP!Serve(d)
    BY <1>1, <2>6 DEF VP!Serve, devicesOwn, VP!vaultVars, VP!userVars
  <2> QED
    BY <2>7 DEF VP!Next
<1>12. ASSUME \A d \in Devices : conn[d] # c
       PROVE  VP!Next
  <2>1. PICK r \in late : req[c] = PutFrame(r)
    BY <1>3, <1>12 DEF IInv, SystemInv, LateOk, S!PutPcs
  <2>2. VP!Accepts(r) /\ b = [by |-> r.by, content |-> r.content, seen |-> r.seen, gone |-> r.gone]
    BY <1>4, <2>1 DEF VP!Accepts, VP!Current, PutFrame
  <2>3. Devices \ Holders(c) = Devices
    BY <1>12 DEF Holders
  <2>4. VP!Accept(r, Devices)
    BY <1>1, <1>9, <1>10, <2>2, <2>3 DEF VP!Accept, D!Accept, VP!Caused, D!Caused
  <2>5. VP!ServeLate
    BY <1>1, <1>8, <1>12, <2>2, <2>4 DEF VP!ServeLate, devicesOwn, VP!vaultVars, VP!userVars, VP!linkVars
  <2> QED
    BY <2>5 DEF VP!Next
<1>13. DevicesFrame(c)
  <2>1. chan \in [Devices -> D!Message \cup {None}] /\ unread \in [Conns -> D!PutRequest \cup {None}]
    BY DEF IInv, SystemInv, LinkTypes
  <2>2. Len(Versions') >= Len(Versions)
    <3>1. Versions' = Append(Versions, b)
      BY <1>1, <1>9 DEF D!Accept
    <3>2. Versions \in Seq(D!Version)
      BY VersionsOfHistory DEF IInv
    <3>3. Len(Versions') = n + 1
      <4> DEFINE T == D!Version
                 s == Versions
      <4>1. s \in Seq(T) /\ b \in T
        BY <1>4, <3>2
      <4> HIDE DEF T, s, b
      <4>2. Len(Append(s, b)) = Len(s) + 1
        BY <4>1
      <4> QED
        BY <3>1, <4>2 DEF s
    <3> QED
      BY <1>4, <3>3
  <2> HIDE DEF m
  <2> QED
    BY <1>1, <1>6, <2>1, <2>2 DEF DevicesFrame, devicesOwn
<1>14. ASSUME NEW d \in Devices, conn[d] = c
       PROVE  LinkOk(d)' /\ RequestOk(d)' /\ HasToken(d)'
  <2>1. LinkOk(d) /\ RequestOk(d) /\ HasToken(d) /\ D!Asked(d, "PUT") /\ req[c] = PutFrame(chan[d])
    BY <1>3, <1>14, OnConnection DEF S!PutPcs
  <2>2. LinkOk(d)'
    BY <1>1, <1>3, <2>1 DEF LinkOk, devicesOwn
  <2>3. Settling(c)' = m
    BY <1>3, <1>5 DEF Settling, Message
  <2>4. conn[d] # None
    BY <1>14, SystemAssumption
  <2>5. RequestOk(d)'
    <3> HIDE DEF m
    <3> QED
      BY <1>1, <1>3, <1>8, <1>14, <2>1, <2>3, <2>4 DEF RequestOk, S!AuthPcs, S!GetPcs, S!PutPcs, D!Asked, PutFrame
  <2>6. HasToken(d)'
    BY <1>1, <1>3, <2>1 DEF HasToken, D!Asked, Stored, devicesOwn
  <2> QED
    BY <2>2, <2>5, <2>6
<1>15. LateOk(c)' /\ BaseOk(c)' /\ SessionOk(c)'
  <2>1. LateOk(c) /\ SessionOk(c)
    BY DEF IInv, SystemInv
  <2> QED
    BY <1>1, <1>3, <1>4, <2>1 DEF LateOk, BaseOk, SessionOk, S!PutPcs, devicesOwn, PutFrame
<1>16. [VP!Next]_VP!vars
  BY <1>11, <1>12
<1> QED
  BY <1>1, <1>2, <1>13, <1>14, <1>15, <1>16, HandlerStep

-----------------------------------------------------------------------------
\* The ends of handlers.

LEMMA HandlerEndsStep ==
  ASSUME IInv, NEW c \in Conns, HandlerEnds(c), UNCHANGED <<devicesOwn, trouble, conn, token>>
  PROVE  IInv' /\ UNCHANGED VP!vars
<1>1. S!ReadEnds(c) \/ S!BusyTimeout(c) \/ S!HandlerFails(c)
  BY DEF HandlerEnds
<1>2. ServerFrame(c)
  BY <1>1, ReadFrames
<1>3. SP!Next
  BY <1>1, SameEnds DEF SP!Next, SP!HandlerStep
<1>4. /\ state'[c] = "closed" /\ await'[c] = "done" /\ state[c] # "new"
      /\ UNCHANGED <<client, expiry, hist, sessions>>
  <2>1. S!Finish(c) /\ UNCHANGED <<client, expiry, hist>>
    BY <1>1 DEF S!ReadEnds, S!BusyTimeout, S!HandlerFails
  <2>2. state[c] # "new"
    BY <1>1, ServerControl DEF IInv, S!ReadEnds, S!BusyTimeout, S!HandlerFails, S!Open
  <2> QED
    BY <2>1, <2>2, ServerTypes DEF IInv, S!Finish, S!Rollback, S!Goto
<1>5. /\ unread \in [Conns -> D!PutRequest \cup {None}]
      /\ unread' = [unread EXCEPT ![c] = None]
      /\ UNCHANGED <<live, chan, decided>>
  BY DEF IInv, SystemInv, LinkTypes, HandlerEnds
<1>6. /\ unread' \in [Conns -> D!PutRequest \cup {None}] /\ unread'[c] = None
      /\ \A x \in Conns \ {c} : unread'[x] = unread[x]
  BY <1>5
<1>7. ASSUME NEW d \in Devices, conn[d] = c
      PROVE  LinkOk(d)' /\ RequestOk(d)'
  <2>1. LinkOk(d) /\ RequestOk(d)
    BY <1>7, OnConnection
  <2>2. LinkOk(d)'
    BY <1>4, <1>6, <1>7, <2>1 DEF LinkOk, devicesOwn
  <2>3. RequestOk(d)'
    BY <1>4, <1>5, <1>7, <2>1 DEF RequestOk, S!AuthPcs, S!GetPcs, S!PutPcs, D!Asked
  <2> QED
    BY <2>2, <2>3
<1>8. LateOk(c)' /\ BaseOk(c)' /\ SessionOk(c)'
  <2>1. SessionOk(c)
    BY DEF IInv, SystemInv
  <2> QED
    BY <1>4, <1>6, <2>1 DEF LateOk, BaseOk, SessionOk, S!PutPcs
<1> QED
  BY <1>2, <1>3, <1>4, <1>5, <1>6, <1>7, <1>8, QuietStep

\* All handlers end, and what they had not committed is gone.
LEMMA CrashStep ==
  ASSUME IInv, Crash, UNCHANGED <<devicesOwn, trouble, conn, token>>
  PROVE  IInv' /\ UNCHANGED VP!vars
<1>1. SP!Next
  BY SameEnds DEF Crash, SP!Next
<1>2. UNCHANGED VP!vars
  <2>1. Answered' = Answered
    BY DEF Crash, Answered
  <2> QED
    BY <2>1, NothingSeen DEF Crash, S!Crash
<1>3. SP!Inv' /\ VP!TypeOk' /\ VP!SyncInv'
  BY <1>1, <1>2, ServerNext, DevicesNext DEF IInv
<1>4. /\ LinkTypes /\ clock = 0 /\ TokenWorks
      /\ \A d \in Devices : LinkOk(d) /\ RequestOk(d) /\ HasToken(d)
      /\ \A c \in Conns : LateOk(c) /\ BaseOk(c) /\ SessionOk(c)
  BY DEF IInv, SystemInv
<1>5. UNCHANGED <<client, expiry, hist, sessions, clock, live, chan, decided, conn, token, link, late, pc>>
  BY DEF Crash, S!Crash, S!CrashRollback, devicesOwn
<1>6. /\ \A c \in Conns : state'[c] = IF state[c] = "new" THEN "new" ELSE "closed"
      /\ \A c \in Conns : await'[c] = IF state[c] = "new" THEN "read" ELSE "done"
      /\ unread' = [c \in Conns |-> None]
  BY ServerTypes, ServerControl DEF IInv, Crash, S!Crash, S!Open
<1>7. LinkTypes' /\ clock' = 0 /\ TokenWorks'
  BY <1>4, <1>5, <1>6 DEF LinkTypes, TokenWorks
<1>8. ASSUME NEW d \in Devices
      PROVE  LinkOk(d)' /\ RequestOk(d)' /\ HasToken(d)'
  <2>1. LinkOk(d) /\ RequestOk(d) /\ HasToken(d) /\ conn[d] \in Conns \cup {None}
    BY <1>4 DEF LinkTypes
  <2>2. conn[d] # None => state'[conn[d]] = "closed" /\ await'[conn[d]] = "done" /\ unread'[conn[d]] = None
    BY <1>6, <2>1 DEF LinkOk
  <2>3. LinkOk(d)'
    BY <1>5, <2>1, <2>2 DEF LinkOk
  <2>4. RequestOk(d)'
    BY <1>5, <2>1, <2>2 DEF RequestOk, S!AuthPcs, S!GetPcs, S!PutPcs, D!Asked
  <2>5. HasToken(d)'
    BY <1>5, <2>1 DEF HasToken, D!Asked, Stored
  <2> QED
    BY <2>3, <2>4, <2>5
<1>9. ASSUME NEW c \in Conns
      PROVE  LateOk(c)' /\ BaseOk(c)' /\ SessionOk(c)'
  <2>1. SessionOk(c) /\ state[c] \in {"new", "GREETING", "AUTHENTICATING", "ESTABLISHED", "closed"}
    BY <1>4, ServerTypes DEF IInv
  <2>2. state[c] = "new" => await[c] # "session_done"
    BY ServerControl DEF IInv
  <2> QED
    BY <1>5, <1>6, <2>1, <2>2 DEF LateOk, BaseOk, SessionOk, S!PutPcs
<1> QED
  BY <1>2, <1>3, <1>7, <1>8, <1>9 DEF IInv, SystemInv

\* A server that does not know REGISTER hangs up, and the device hears nothing.
LEMMA ReadRegisterStep ==
  ASSUME IInv, NEW d \in Devices, NEW c \in Conns, conn[d] = c, ReadRegister(d)
  PROVE  IInv' /\ VP!Next
<1>1. /\ S!ReadEnds(c) /\ D!ServeRegister(d) /\ conn[d] # None
      /\ conn' = [conn EXCEPT ![d] = None]
      /\ UNCHANGED <<token, unread, decided>>
  BY DEF ReadRegister
<1>3. /\ LinkTypes /\ clock = 0 /\ TokenWorks
      /\ \A e \in Devices : LinkOk(e) /\ RequestOk(e) /\ HasToken(e)
      /\ \A x \in Conns : LateOk(x) /\ BaseOk(x) /\ SessionOk(x)
  BY DEF IInv, SystemInv
<1>4. /\ DOMAIN chan = Devices /\ DOMAIN link = Devices /\ DOMAIN conn = Devices
  BY <1>3 DEF IInv, LinkTypes, VP!TypeOk
<1>5. /\ D!Asked(d, "REGISTER")
      /\ chan' = [chan EXCEPT ![d] = None] /\ link' = [link EXCEPT ![d] = "dead"]
      /\ UNCHANGED <<pc, live, late>> /\ Versions' = Versions
  BY <1>1 DEF D!ServeRegister, D!Answer, D!serverVars
<1>6. decided[d] = None
  BY <1>3, <1>5 DEF RequestOk, D!Asked
<1>7. UNCHANGED <<hist, client, expiry>>
  BY <1>1 DEF S!ReadEnds
<1>8. VP!Next
  <2>1. SameToDevice(d)
    BY <1>1, <1>6, <1>7, SeesItsLink
  <2>2. VP!Asked(d, "REGISTER") /\ VP!Answer(d, None)
    BY <1>5, <2>1 DEF SameToDevice, VP!Asked, D!Asked, VP!Answer
  <2>3. VP!ServeRegister(d)
    BY <1>1, <1>5, <2>1, <2>2, SameNames DEF SameToDevice, VP!ServeRegister, D!ServeRegister, D!serverVars, VP!serverVars,
       D!vaultVars, VP!vaultVars, D!userVars, VP!userVars
  <2> QED
    BY <2>3 DEF VP!Next
<1>9. VP!TypeOk' /\ VP!SyncInv'
  BY <1>8, DevicesNext DEF IInv
<1>10. SP!Inv'
  <2>1. SP!Next
    BY <1>1, SameEnds DEF SP!Next
  <2> QED
    BY <2>1, ServerNext DEF IInv
<1>11. ServerFrame(c)
  BY <1>1, ReadFrames
<1>12. /\ state'[c] = "closed" /\ await'[c] = "done"
       /\ sessions'[c] = sessions[c]
  <2>1. S!Finish(c)
    BY <1>1 DEF S!ReadEnds
  <2> QED
    BY <2>1, ServerTypes DEF IInv, S!Finish, S!Rollback, S!Goto
<1>13. /\ chan'[d] = None /\ conn'[d] = None /\ link'[d] = "dead"
       /\ \A e \in Devices \ {d} : chan'[e] = chan[e] /\ link'[e] = link[e] /\ conn'[e] = conn[e]
  BY <1>1, <1>4, <1>5
<1>14. LinkTypes'
  BY <1>1, <1>3, <1>5 DEF LinkTypes
<1>15. \A x \in Conns \ {c} : Settling(x)' = Settling(x)
  BY <1>11 DEF ServerFrame, Settling, S!GetReply, S!PutReply, S!ForeignRow, S!ErrorReply, S!NewVersion,
     S!CurrentVersion, Message
<1>16. ASSUME NEW e \in Devices, e # d
       PROVE  LinkOk(e)' /\ RequestOk(e)' /\ HasToken(e)'
  <2>1. LinkOk(e) /\ RequestOk(e) /\ HasToken(e) /\ LinkOk(d) /\ conn[e] \in Conns \cup {None}
    BY <1>3 DEF LinkTypes
  <2>2. conn[e] # None => conn[e] \in Conns \ {c}
    BY <1>1, <1>16, <2>1 DEF LinkOk
  <2>3. LinkOk(e)'
    BY <1>1, <1>11, <1>13, <1>16, <2>1, <2>2 DEF LinkOk, ServerFrame
  <2>4. \A type : D!Asked(e, type)' <=> D!Asked(e, type)
    BY <1>13, <1>16 DEF D!Asked
  <2>5. Frame(e)' = Frame(e) /\ PutFrame(chan[e])' = PutFrame(chan[e])
    BY <1>1, <1>13, <1>16 DEF Frame, PutFrame
  <2>6. RequestOk(e)'
    BY <1>1, <1>11, <1>13, <1>15, <1>16, <2>1, <2>2, <2>4, <2>5 DEF RequestOk, ServerFrame, PutFrame
  <2>7. HasToken(e)'
    <3>1. D!Asked(e, "AUTH_OK") => conn[e] # None
      BY <2>1, OnTheLink DEF LinkOk, D!Asked
    <3> QED
      BY <1>1, <1>5, <1>11, <1>13, <1>16, <2>1, <2>2, <2>4, <3>1 DEF HasToken, Stored, ServerFrame
  <2> QED
    BY <2>3, <2>6, <2>7
<1>17. LinkOk(d)' /\ RequestOk(d)' /\ HasToken(d)'
  BY <1>1, <1>3, <1>5, <1>6, <1>13 DEF LinkOk, RequestOk, HasToken, D!Asked
<1>18. ASSUME NEW x \in Conns, x # c
       PROVE  LateOk(x)' /\ BaseOk(x)' /\ SessionOk(x)'
  <2>1. LateOk(x) /\ BaseOk(x) /\ SessionOk(x)
    BY <1>3
  <2>2. state'[x] = state[x] /\ await'[x] = await[x] /\ req'[x] = req[x] /\ row'[x] = row[x] /\ hit'[x] = hit[x]
        /\ sessions'[x] = sessions[x] /\ expiry'[x] = expiry[x]
    BY <1>11, <1>18 DEF ServerFrame
  <2>3. (\E e \in Devices : conn[e] = x) => \E e \in Devices : conn'[e] = x
    BY <1>13, <1>18
  <2> QED
    BY <1>1, <1>5, <2>1, <2>2, <2>3 DEF LateOk, BaseOk, SessionOk, S!CurrentVersion, PutFrame
<1>19. LateOk(c)' /\ BaseOk(c)' /\ SessionOk(c)'
  <2>1. SessionOk(c) /\ LinkOk(d)
    BY <1>3
  <2> QED
    BY <1>1, <1>7, <1>12, <2>1 DEF LinkOk, LateOk, BaseOk, SessionOk, S!PutPcs
<1>20. clock' = 0 /\ TokenWorks'
  BY <1>1, <1>3, <1>11 DEF TokenWorks, LinkTypes, ServerFrame
<1> QED
  BY <1>8, <1>9, <1>10, <1>14, <1>16, <1>17, <1>18, <1>19, <1>20 DEF IInv, SystemInv

-----------------------------------------------------------------------------
\* Every step.

LEMMA ReadRequestStep ==
  ASSUME IInv, NEW c \in Conns, NEW d \in Devices, ReadRequest(c, d),
         UNCHANGED <<devicesOwn, trouble, conn, token>>
  PROVE  IInv' /\ [VP!Next]_VP!vars
<1>1. conn[d] = c /\ chan[d] # None /\ Deliver(c) /\ UNCHANGED unread
  BY DEF ReadRequest
<1>2. CASE chan[d].type \in {"LOGIN", "REFRESH"} /\ S!Auth(c, Frame(d))
  <2>1. log' = log
    BY <1>2 DEF S!Auth
  <2>2. UNCHANGED <<chan, decided, live>>
    BY <1>1, <2>1, Silent
  <2>3. D!Asked(d, "LOGIN") \/ D!Asked(d, "REFRESH")
    BY <1>1, <1>2 DEF D!Asked
  <2> QED
    BY <1>1, <1>2, <2>2, <2>3, ReadAuthStep
<1>3. CASE chan[d].type = "GET" /\ S!VaultGet(c, Frame(d))
  <2>1. log' = log
    BY <1>3 DEF S!VaultGet
  <2>2. UNCHANGED <<chan, decided, live>>
    BY <1>1, <2>1, Silent
  <2>3. D!Asked(d, "GET")
    BY <1>1, <1>3 DEF D!Asked
  <2> QED
    BY <1>1, <1>3, <2>2, <2>3, ReadGetStep
<1>4. CASE chan[d].type = "PING" /\ S!Ping(c, Frame(d))
  <2>1. D!Asked(d, "PING")
    BY <1>1, <1>4 DEF D!Asked
  <2> QED
    BY <1>1, <1>4, <2>1, PingStep
<1>5. CASE chan[d].type = "PUT" /\ S!VaultPut(c, PutFrame(chan[d]))
  <2>1. log' = log
    BY <1>5 DEF S!VaultPut
  <2>2. UNCHANGED <<chan, decided, live>>
    BY <1>1, <2>1, Silent
  <2>3. D!Asked(d, "PUT") /\ chan[d] \in D!PutRequest
    BY <1>1, <1>5, AskedFrames DEF D!Asked
  <2>4. /\ UNCHANGED unread
        /\ \E e \in Devices : conn[e] = c /\ D!Asked(e, "PUT") /\ chan[d] = chan[e]
    BY <1>1, <2>3
  <2> QED
    BY <1>5, <2>2, <2>3, <2>4, ReadPutStep
<1> QED
  BY <1>2, <1>3, <1>4, <1>5 DEF ReadRequest

LEMMA HandleStep ==
  ASSUME IInv, NEW c \in Conns, Handle(c), UNCHANGED <<devicesOwn, trouble, conn, token>>
  PROVE  IInv' /\ [VP!Next]_VP!vars
<1>1. CASE S!GetRead(c) /\ Settle(c, S!GetReply(c)') /\ UNCHANGED <<live, chan, unread>>
  BY <1>1, GetReadStep
<1>2. ASSUME Deliver(c), UNCHANGED unread
      PROVE  /\ S!Authenticate(c) \/ S!SessionExecute(c) \/ S!SessionCommit(c) \/ S!AuthOk(c)
                => IInv' /\ [VP!Next]_VP!vars
             /\ S!GetDone(c) \/ S!PutRead(c) \/ S!PutCheck(c) \/ S!PutExecute(c) \/ S!PutDone(c)
                => IInv' /\ [VP!Next]_VP!vars
  <2>1. UNCHANGED <<devicesOwn, trouble, conn, token, unread>>
    BY <1>2
  <2>2. S!Authenticate(c) => IInv' /\ UNCHANGED VP!vars
    BY <1>2, <2>1, AuthenticateStep
  <2>3. S!SessionExecute(c) \/ S!SessionCommit(c) => IInv' /\ UNCHANGED VP!vars
    BY <1>2, <2>1, SessionStep
  <2>4. S!AuthOk(c) => IInv' /\ [VP!Next]_VP!vars
    BY <1>2, <2>1, AuthOkStep
  <2>5. S!GetDone(c) => IInv' /\ [VP!Next]_VP!vars
    BY <1>2, <2>1, GetDoneStep
  <2>6. S!PutRead(c) => IInv' /\ UNCHANGED VP!vars
    BY <1>2, <2>1, PutReadStep
  <2>7. S!PutCheck(c) => IInv' /\ [VP!Next]_VP!vars
    BY <1>2, <2>1, PutCheckStep
  <2>8. S!PutExecute(c) => IInv' /\ UNCHANGED VP!vars
    BY <1>2, <2>1, PutExecuteStep
  <2>9. S!PutDone(c) => IInv' /\ [VP!Next]_VP!vars
    BY <1>2, <2>1, PutDoneStep
  <2> QED
    BY <2>2, <2>3, <2>4, <2>5, <2>6, <2>7, <2>8, <2>9
<1> QED
  BY <1>1, <1>2 DEF Handle

LEMMA WorkStep ==
  ASSUME IInv, NEW c \in Conns, Work(c)
  PROVE  IInv' /\ [VP!Next]_VP!vars
<1>1. UNCHANGED <<devicesOwn, conn, token>>
  BY DEF Work
<1>2. ASSUME UNCHANGED trouble, NEW d \in Devices, ReadHello(c, d)
      PROVE  IInv' /\ [VP!Next]_VP!vars
  BY <1>1, <1>2, ReadHelloStep
<1>3. ASSUME UNCHANGED trouble, NEW d \in Devices, ReadRequest(c, d)
      PROVE  IInv' /\ [VP!Next]_VP!vars
  BY <1>1, <1>3, ReadRequestStep
<1>4. ASSUME UNCHANGED trouble, ReadLate(c)
      PROVE  IInv' /\ [VP!Next]_VP!vars
  <2>1. /\ unread[c] \in D!PutRequest /\ S!VaultPut(c, PutFrame(unread[c]))
        /\ unread' = [unread EXCEPT ![c] = None] /\ UNCHANGED <<live, chan, decided>>
    BY <1>4 DEF IInv, SystemInv, LinkTypes, ReadLate
  <2> QED
    BY <1>1, <1>4, <2>1, ReadPutStep
<1>5. ASSUME UNCHANGED trouble, Handle(c)
      PROVE  IInv' /\ [VP!Next]_VP!vars
  BY <1>1, <1>5, HandleStep
<1>6. CASE PutCommit(c) /\ hit[c]
  BY <1>1, <1>6, HitStep
<1>7. CASE PutCommit(c) /\ ~ hit[c]
  BY <1>1, <1>7, MissStep
<1> QED
  BY <1>2, <1>3, <1>4, <1>5, <1>6, <1>7 DEF Work

LEMMA EndStep ==
  ASSUME IInv, End
  PROVE  IInv' /\ UNCHANGED VP!vars
<1>1. UNCHANGED <<devicesOwn, trouble, conn, token>>
  BY DEF End
<1>2. Crash => IInv' /\ UNCHANGED VP!vars
  BY <1>1, CrashStep
<1>3. \A c \in Conns : HandlerEnds(c) => IInv' /\ UNCHANGED VP!vars
  BY <1>1, HandlerEndsStep
<1> QED
  BY <1>2, <1>3 DEF End

LEMMA RestStep ==
  ASSUME IInv, UNCHANGED vars
  PROVE  IInv' /\ UNCHANGED VP!vars
<1>1. UNCHANGED <<deviceVars, serverVars, conn, token, unread, decided>>
  BY DEF vars
<1>2. SP!Inv'
  BY <1>1, ServerRests
<1>3. UNCHANGED VP!vars
  BY <1>1 DEF VP!vars, deviceVars, serverVars, Answered, Versions
<1>4. VP!TypeOk' /\ VP!SyncInv'
  BY <1>3, DevicesNext DEF IInv
<1>5. SystemInv
  BY DEF IInv
<1>6. SystemInv'
  <2> USE <1>1 DEF deviceVars, serverVars
  <2>1. LinkTypes' /\ clock' = 0 /\ TokenWorks'
    BY <1>5 DEF SystemInv, LinkTypes, TokenWorks
  <2>2. \A x : Settling(x)' = Settling(x)
    BY DEF Settling, S!GetReply, S!PutReply, S!ForeignRow, S!ErrorReply, S!NewVersion,
       S!CurrentVersion, Message
  <2>3. \A d \in Devices : Frame(d)' = Frame(d) /\ PutFrame(chan[d])' = PutFrame(chan[d])
    BY DEF Frame, PutFrame
  <2>4. ASSUME NEW d \in Devices
        PROVE  LinkOk(d)' /\ RequestOk(d)' /\ HasToken(d)'
    <3>1. LinkOk(d) /\ RequestOk(d) /\ HasToken(d)
      BY <1>5 DEF SystemInv
    <3>2. LinkOk(d)'
      BY <3>1 DEF LinkOk
    <3>3. RequestOk(d)'
      BY <2>2, <2>3, <3>1 DEF RequestOk, D!Asked, PutFrame
    <3>4. HasToken(d)'
      BY <3>1 DEF HasToken, D!Asked, Stored
    <3> QED
      BY <3>2, <3>3, <3>4
  <2>5. ASSUME NEW c \in Conns
        PROVE  LateOk(c)' /\ BaseOk(c)' /\ SessionOk(c)'
    <3>1. LateOk(c) /\ BaseOk(c) /\ SessionOk(c)
      BY <1>5 DEF SystemInv
    <3> QED
      BY <3>1 DEF LateOk, BaseOk, SessionOk, PutFrame, Versions, S!CurrentVersion
  <2> QED
    BY <2>1, <2>4, <2>5 DEF SystemInv
<1> QED
  BY <1>2, <1>3, <1>4, <1>6 DEF IInv

LEMMA NextStep ==
  ASSUME IInv, [Next]_vars
  PROVE  IInv' /\ [VP!Next]_VP!vars
<1>1. ASSUME NEW c \in Conns, Work(c)
      PROVE  IInv' /\ [VP!Next]_VP!vars
  BY <1>1, WorkStep
<1>2. End => IInv' /\ [VP!Next]_VP!vars
  BY EndStep
<1>3. ASSUME NEW d \in Devices
      PROVE  /\ ReadRegister(d) => IInv' /\ [VP!Next]_VP!vars
             /\ DeviceProgress(d) \/ Happen(d) => IInv' /\ [VP!Next]_VP!vars
             /\ Break(d) => IInv' /\ [VP!Next]_VP!vars
  <2>1. ReadRegister(d) => IInv' /\ VP!Next
    <3>1. ReadRegister(d) => conn[d] \in Conns
      BY DEF ReadRegister, IInv, SystemInv, LinkTypes
    <3> QED
      BY <3>1, ReadRegisterStep
  <2>2. Connect(d) => IInv' /\ VP!Next
    BY ConnectStep
  <2>3. Run(d) \/ Happen(d) \/ TakeToken(d) => IInv' /\ VP!Next
    BY OwnStep
  <2>4. Break(d) => IInv' /\ VP!Next
    BY BreakStep
  <2> QED
    BY <2>1, <2>2, <2>3, <2>4 DEF DeviceProgress
<1>4. UNCHANGED vars => IInv' /\ [VP!Next]_VP!vars
  BY RestStep
<1> QED
  BY <1>1, <1>2, <1>3, <1>4 DEF Next, Quiet

LEMMA InitStep == Init => IInv /\ VP!Init
<1> SUFFICES ASSUME Init
             PROVE  IInv /\ VP!Init
  OBVIOUS
<1>1. /\ S!Init /\ D!Init
      /\ conn = [d \in Devices |-> None] /\ token = [d \in Devices |-> None]
      /\ unread = [c \in Conns |-> None] /\ decided = [d \in Devices |-> None]
  BY DEF Init
<1>2. SP!Inv
  <2>1. SP!Init
    BY <1>1 DEF S!Init, SP!Init, S!DbInit, SP!DbInit
  <2> QED
    BY <2>1, ServerTypeInit
<1>3. VP!Init
  <2>1. Answered = [d \in Devices |-> None] /\ chan = [d \in Devices |-> None]
    BY <1>1 DEF D!Init, Answered
  <2>2. Versions = << >>
    BY <1>1 DEF D!Init
  <2> QED
    BY <1>1, <2>1, <2>2, SameNames DEF D!Init, VP!Init
<1>4. VP!TypeOk /\ VP!SyncInv
  BY <1>3, DevicesInit
<1>5. /\ \A c \in Conns : state[c] = "new" /\ await[c] = "read" /\ sessions[c] = None
      /\ clock = 0
  BY <1>1 DEF S!Init, S!DbInit
<1>6. \A d \in Devices : pc[d] = "off" /\ link[d] # "up" /\ chan[d] = None
  BY <1>1 DEF D!Init
<1>7. LinkTypes /\ TokenWorks
  BY <1>1 DEF LinkTypes, TokenWorks, D!Init
<1>8. ASSUME NEW d \in Devices
      PROVE  LinkOk(d) /\ RequestOk(d) /\ HasToken(d)
  <2>1. "off" \notin Holding
    BY DEF Holding, D!Saving, D!CommandPcs, D!Waiting
  <2> QED
    BY <1>1, <1>6, <2>1 DEF LinkOk, RequestOk, HasToken, Holding, D!Asked
<1>9. ASSUME NEW c \in Conns
      PROVE  LateOk(c) /\ BaseOk(c) /\ SessionOk(c)
  BY <1>1, <1>5 DEF LateOk, BaseOk, SessionOk, S!PutPcs
<1> QED
  BY <1>2, <1>3, <1>4, <1>5, <1>7, <1>8, <1>9 DEF IInv, SystemInv

-----------------------------------------------------------------------------
\* Results.

\* SecVault is the same module with its proofs and without.
LEMMA SameSpecification ==
  /\ VP!Init => V!Init
  /\ VP!Next => V!Next
  /\ UNCHANGED VP!vars => UNCHANGED V!vars
<1>1. VP!Init => V!Init
  BY DEF VP!Init, V!Init, VP!EmptyVault, V!EmptyVault, VP!NoTrouble, V!NoTrouble
<1>2. ASSUME VP!Next
      PROVE  V!Next
  BY <1>2, ZenonT(60)
  DEF VP!serverVars, V!serverVars, VP!linkVars, V!linkVars, VP!vaultVars, V!vaultVars, VP!userVars,
     V!userVars, VP!Syncs, V!Syncs, VP!Prompts, V!Prompts, VP!Waiting, V!Waiting, VP!CommandPcs,
     V!CommandPcs, VP!Saving, V!Saving, VP!Openings, V!Openings, VP!Entry, V!Entry, VP!EmptyVault,
     V!EmptyVault, VP!Present, V!Present, VP!ServerWins, V!ServerWins, VP!MergeFrom, V!MergeFrom,
     VP!Stored, V!Stored, VP!Removed, V!Removed, VP!NoTrouble, V!NoTrouble, VP!Current, V!Current,
     VP!InCommand, V!InCommand, VP!Caused, V!Caused, VP!AuthOkVersion, V!AuthOkVersion, VP!Accepts,
     V!Accepts, VP!AnswersRefresh, V!AnswersRefresh, VP!Accept, V!Accept, VP!Asked, V!Asked, VP!Answer,
     V!Answer, VP!AuthOk, V!AuthOk, VP!ServeLogin, V!ServeLogin, VP!ServeRefresh, V!ServeRefresh,
     VP!ServePing, V!ServePing, VP!ServeGet, V!ServeGet, VP!ServePut, V!ServePut, VP!ServeRegister,
     V!ServeRegister, VP!Serve, V!Serve, VP!ServeLate, V!ServeLate, VP!Goto, V!Goto, VP!Ask, V!Ask,
     VP!Got, V!Got, VP!PutOf, V!PutOf, VP!PowerOff, V!PowerOff, VP!Prompt, V!Prompt, VP!CommandFails,
     V!CommandFails, VP!Move, V!Move, VP!Fault, V!Fault, VP!Start, V!Start, VP!StartConnect,
     V!StartConnect, VP!LoadCache, V!LoadCache, VP!StartFails, V!StartFails, VP!StartOffline,
     V!StartOffline, VP!LoginRefused, V!LoginRefused, VP!LoggedIn, V!LoggedIn, VP!FirstFetch,
     V!FirstFetch, VP!OpenCache, V!OpenCache, VP!SaveCache, V!SaveCache, VP!SaveFails, V!SaveFails,
     VP!Editing, V!Editing, VP!Add, V!Add, VP!Edit, V!Edit, VP!Remove, V!Remove, VP!EnsureSession,
     V!EnsureSession, VP!Command, V!Command, VP!Quit, V!Quit, VP!Proceed, V!Proceed, VP!Pong, V!Pong,
     VP!PingFails, V!PingFails, VP!Connect, V!Connect, VP!ConnectFails, V!ConnectFails, VP!Refreshed,
     V!Refreshed, VP!RefreshRefused, V!RefreshRefused, VP!PutAcked, V!PutAcked, VP!PutConflict,
     V!PutConflict, VP!Merged, V!Merged, VP!MergeFetched, V!MergeFetched, VP!ConflictFetched,
     V!ConflictFetched, VP!PullFetched, V!PullFetched, VP!PullNotFound, V!PullNotFound, VP!CommandBreaks,
     V!CommandBreaks, VP!Strand, V!Strand, VP!LinkBreaks, V!LinkBreaks, VP!Kill, V!Kill, VP!TokenExpires,
     V!TokenExpires, VP!Tick, V!Tick, VP!Quiet, V!Quiet, VP!UserStep, V!UserStep, VP!ClientStep,
     V!ClientStep, VP!Next, V!Next, VP!vars, V!vars
<1>3. UNCHANGED VP!vars => UNCHANGED V!vars
  BY DEF VP!vars, V!vars
<1> QED
  BY <1>1, <1>2, <1>3

\* Through lost connections, late PUTs and crashes of the server, handlers work on
\* what their devices asked for and answer what they settled (ensure_session,
\* do_sync, handle_client).
THEOREM InStep == Spec => []SystemInv
<1>1. IInv /\ [Next]_vars => IInv'
  BY NextStep
<1>2. IInv => SystemInv
  BY DEF IInv
<1> QED
  BY <1>1, <1>2, InitStep, PTL DEF Spec

\* A device that has a session token can refresh its session with it
\* (create_session, refresh_session, cli.session_token).
THEOREM TokensWork == Spec => []TokenWorks
<1>1. SystemInv => TokenWorks
  BY DEF SystemInv
<1> QED
  BY <1>1, InStep, PTL

\* To its devices the server of many steps is one that answers in one step
\* (handle_client, handle_vault_get, handle_vault_put against do_sync).
THEOREM DevicesSeeSecVault == Spec => ImplementsSecVault
<1>1. Init => IInv /\ V!Init
  BY InitStep, SameSpecification
<1>2. IInv /\ [Next]_vars => IInv' /\ [V!Next]_V!vars
  <2>1. [VP!Next]_VP!vars => [V!Next]_V!vars
    BY SameSpecification
  <2> QED
    BY <2>1, NextStep
<1> QED
  BY <1>1, <1>2, PTL DEF Spec, ImplementsSecVault, V!Spec

\* So what is proved of the devices holds against this server: whoever stores a
\* version had merged the one before, entries disappear only by a user's hand, a
\* vault that is not dirty is stored, a whole cache is a version, and nothing fails
\* without a cause (do_sync, merge_from, save_cache, ensure_session).
THEOREM SystemKeepsVaults ==
  Spec => [](V!WriterHadMerged /\ V!EntriesOnlyAdvance /\ V!CleanMeansSaved /\ V!CacheIsVersion /\ V!FailureHasCause)
<1>1. IInv /\ [Next]_vars => IInv'
  BY NextStep
<1>2. IInv => V!WriterHadMerged /\ V!EntriesOnlyAdvance /\ V!CleanMeansSaved /\ V!CacheIsVersion /\ V!FailureHasCause
  <2>1. IInv => VP!WriterHadMerged /\ VP!EntriesOnlyAdvance /\ VP!CleanMeansSaved /\ VP!CacheIsVersion /\ VP!FailureHasCause
    BY DEF IInv, VP!SyncInv
  <2>2. VP!WriterHadMerged => V!WriterHadMerged
    BY DEF VP!WriterHadMerged, V!WriterHadMerged, VP!Current, V!Current
  <2>3. VP!EntriesOnlyAdvance => V!EntriesOnlyAdvance
    BY DEF VP!EntriesOnlyAdvance, V!EntriesOnlyAdvance, VP!Advances, V!Advances, VP!Current, V!Current
  <2>4. VP!CleanMeansSaved => V!CleanMeansSaved
    BY SameNames DEF VP!CleanMeansSaved, V!CleanMeansSaved, VP!Current, V!Current, VP!Present, V!Present
  <2>5. VP!CacheIsVersion => V!CacheIsVersion
    BY DEF VP!CacheIsVersion, V!CacheIsVersion, VP!Current, V!Current, VP!EmptyVault, V!EmptyVault
  <2>6. VP!FailureHasCause => V!FailureHasCause
    BY DEF VP!FailureHasCause, V!FailureHasCause
  <2> QED
    BY <2>1, <2>2, <2>3, <2>4, <2>5, <2>6
<1> QED
  BY <1>1, <1>2, InitStep, PTL DEF Spec
=============================================================================
