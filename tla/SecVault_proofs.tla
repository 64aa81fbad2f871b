---------------------------- MODULE SecVault_proofs ----------------------------
(***************************************************************************)
(* Theorems about SecVault and the merge of VaultMerge, for every value of *)
(* their constants.                                                        *)
(***************************************************************************)
EXTENDS SecVault, TLAPS

-----------------------------------------------------------------------------
\* What merge_from of client-py/vault.py guarantees, for all vaults.

\* The merge of two vaults is a vault.
LEMMA MergeType ==
  ASSUME NEW l \in Content, NEW s \in Content
  PROVE  MergeFrom(l, s) \in Content
  BY DEF Content, MergeFrom

\* No entry of either side is dropped, and nothing else appears: a merge alone
\* never deletes an entry, which is also why a removal does not survive one.
THEOREM MergeKeepsEntries ==
  ASSUME NEW l \in Content, NEW s \in Content
  PROVE  Present(MergeFrom(l, s)) = Present(l) \cup Present(s)
<1>1. \A i \in Ids : MergeFrom(l, s)[i] # Absent <=> l[i] # Absent \/ s[i] # Absent
  BY DEF MergeFrom, ServerWins
<1> QED
  BY <1>1 DEF Present

\* An entry of the server is only replaced by another value that is newer.
THEOREM MergeNeverBeatenByOlder ==
  ASSUME NEW l \in Content, NEW s \in Content, NEW i \in Ids,
         s[i] # Absent, MergeFrom(l, s)[i].val # s[i].val
  PROVE  MergeFrom(l, s)[i] = l[i] /\ l[i] # Absent /\ l[i].ts > s[i].ts
<1>1. MergeFrom(l, s)[i] = IF ServerWins(s[i], l[i]) THEN s[i] ELSE l[i]
  BY DEF MergeFrom
<1>2. ~ServerWins(s[i], l[i])
  BY <1>1
<1>3. l[i] # Absent /\ ~(s[i].val # l[i].val /\ s[i].ts >= l[i].ts)
  BY <1>2 DEF ServerWins
<1>4. s[i].val # l[i].val
  BY <1>1, <1>2
<1>5. s[i] \in Entry /\ l[i] \in Entry
  BY <1>3 DEF Content
<1>6. s[i].ts \in Nat /\ l[i].ts \in Nat
  BY <1>5 DEF Entry
<1> QED
  BY <1>1, <1>2, <1>3, <1>4, <1>6

\* Merging the same server vault again changes nothing, so a repeated fetch is
\* harmless.
THEOREM MergeIdempotent ==
  ASSUME NEW l \in Content, NEW s \in Content
  PROVE  MergeFrom(MergeFrom(l, s), s) = MergeFrom(l, s)
<1> DEFINE m == MergeFrom(l, s)
<1>1. \A i \in Ids : m[i] = IF ServerWins(s[i], l[i]) THEN s[i] ELSE l[i]
  BY DEF MergeFrom
<1>2. \A i \in Ids : (IF ServerWins(s[i], m[i]) THEN s[i] ELSE m[i]) = m[i]
  <2> SUFFICES ASSUME NEW i \in Ids
               PROVE  (IF ServerWins(s[i], m[i]) THEN s[i] ELSE m[i]) = m[i]
    OBVIOUS
  <2>1. CASE ServerWins(s[i], l[i])
    BY <1>1, <2>1
  <2>2. CASE ~ServerWins(s[i], l[i])
    BY <1>1, <2>2
  <2> QED
    BY <2>1, <2>2
<1>3. m = [i \in Ids |-> m[i]]
  BY DEF MergeFrom
<1>4. MergeFrom(m, s) = [i \in Ids |-> IF ServerWins(s[i], m[i]) THEN s[i] ELSE m[i]]
  BY DEF MergeFrom
<1> HIDE DEF m
<1>5. MergeFrom(m, s) = m
  BY <1>2, <1>3, <1>4
<1> QED
  BY <1>5 DEF m

USE DEF serverVars, linkVars, vaultVars, userVars

-----------------------------------------------------------------------------
\* Type correctness.

\* What PowerOff, Prompt and LoadCache assign.
DeviceTypes ==
  /\ link \in [Devices -> {"none", "up", "dead"}]
  /\ chan \in [Devices -> Message \cup {None}]
  /\ pc \in [Devices -> {"off", "start_connect", "connect"} \cup Saving \cup Prompts \cup Waiting]
  /\ cmd \in [Devices -> {"sync", "quit", "pull", "ping", None}]
  /\ tries \in [Devices -> 0..3]
  /\ version \in [Devices -> Nat]
  /\ local \in [Devices -> Content]
  /\ dirty \in [Devices -> BOOLEAN]
  /\ seen \in [Devices -> SUBSET Nat]
  /\ gone \in [Devices -> SUBSET Ids]

OtherTypes ==
  /\ versions \in Seq(Version)
  /\ live \in [Devices -> BOOLEAN]
  /\ late \subseteq PutRequest
  /\ cache \in [Devices -> CacheFile \cup {None, Torn}]
  /\ now \in Nat
  /\ used \subseteq Ids
  /\ trouble \in [Devices -> Trouble]
  /\ moves \in 0..MaxMoves
  /\ faults \in 0..MaxFaults

LEMMA TypeParts == TypeOk <=> DeviceTypes /\ OtherTypes
  BY DEF TypeOk, DeviceTypes, OtherTypes

LEMMA TypePartsPrimed == TypeOk' <=> DeviceTypes' /\ OtherTypes'
  BY DEF TypeOk, DeviceTypes, OtherTypes

\* A message is of the kind its type field says.
LEMMA MessageKind ==
  ASSUME NEW m \in Message
  PROVE  /\ m.type = "PUT" => m \in PutRequest
         /\ m.type \in {"AUTH_OK", "ACK", "DATA"} => m.version \in Nat
         /\ m.type = "DATA" => m.content \in Content
  BY DEF Message, PutRequest

LEMMA EmptyType == EmptyVault \in Content
  BY DEF EmptyVault, Content

LEMMA StoredType ==
  ASSUME NEW c \in Content, NEW i \in Ids
  PROVE  /\ \A val \in Vals, t \in Nat : Stored(c, i, val, t) \in Content
         /\ Removed(c, i) \in Content
  BY DEF Content, Stored, Removed, Entry

LEMMA PutOfType ==
  ASSUME NEW d \in Devices, NEW base \in Nat, NEW content \in Content,
         NEW s \in SUBSET Nat, NEW g \in SUBSET Ids
  PROVE  PutOf(d, base, content, s, g) \in Message
  BY DEF PutOf, Message, PutRequest

LEMMA CausedType ==
  ASSUME NEW t \in Trouble, NEW cause \in Causes
  PROVE  [t EXCEPT !.causes = @ \cup {cause}] \in Trouble
  BY DEF Trouble

LEMMA TroubleType ==
  /\ NoTrouble \in Trouble
  /\ \A t \in Trouble : /\ [t EXCEPT !.failed = TRUE] \in Trouble
                        /\ [t EXCEPT !.rivals = @ + 1] \in Trouble
<1>1. NoTrouble \in Trouble
  BY DEF Trouble, NoTrouble
<1>2. ASSUME NEW t \in Trouble
      PROVE  [t EXCEPT !.failed = TRUE] \in Trouble
  BY DEF Trouble
<1>3. ASSUME NEW t \in Trouble
      PROVE  [t EXCEPT !.rivals = @ + 1] \in Trouble
  BY DEF Trouble
<1> QED
  BY <1>1, <1>2, <1>3

LEMMA InitType == Init => TypeOk
<1> SUFFICES ASSUME Init PROVE TypeOk
  OBVIOUS
<1>1. DeviceTypes
  BY EmptyType DEF Init, DeviceTypes
<1>2. OtherTypes
  BY BoundsAssumption, TroubleType DEF Init, OtherTypes
<1> QED
  BY <1>1, <1>2, TypeParts

\* The building blocks.
LEMMA PowerOffType ==
  ASSUME TypeOk, NEW d \in Devices, PowerOff(d)
  PROVE  DeviceTypes'
  BY EmptyType DEF TypeOk, DeviceTypes, PowerOff, Goto

LEMMA PromptType ==
  ASSUME TypeOk, NEW d \in Devices, Prompt(d), link' \in [Devices -> {"none", "up", "dead"}],
         version' \in [Devices -> Nat], local' \in [Devices -> Content],
         dirty' \in [Devices -> BOOLEAN], seen' \in [Devices -> SUBSET Nat],
         gone' \in [Devices -> SUBSET Ids]
  PROVE  DeviceTypes'
<1>1. /\ pc' = [pc EXCEPT ![d] = "repl"] /\ cmd' = [cmd EXCEPT ![d] = None]
      /\ tries' = [tries EXCEPT ![d] = 0] /\ chan' = [chan EXCEPT ![d] = None]
  BY DEF Prompt, Goto, Ask
<1>2. chan' \in [Devices -> Message \cup {None}]
  BY <1>1 DEF TypeOk
<1>3. /\ pc' \in [Devices -> {"off", "start_connect", "connect"} \cup Saving \cup Prompts \cup Waiting]
      /\ cmd' \in [Devices -> {"sync", "quit", "pull", "ping", None}]
      /\ tries' \in [Devices -> 0..3]
  BY <1>1 DEF TypeOk, Prompts
<1> QED
  BY <1>2, <1>3 DEF DeviceTypes

LEMMA LoadCacheType ==
  ASSUME TypeOk, NEW d \in Devices, LoadCache(d)
  PROVE  DeviceTypes'
<1>1. CASE cache[d] \in {None, Torn}
  BY <1>1, PowerOffType DEF LoadCache
<1>2. CASE cache[d] \notin {None, Torn}
  <2>1. cache[d].content \in Content
    BY <1>2 DEF TypeOk, CacheFile
  <2> QED
    BY <1>2, <2>1 DEF TypeOk, DeviceTypes, LoadCache, Goto, Prompts
<1> QED
  BY <1>1, <1>2

LEMMA CommandFailsType ==
  ASSUME TypeOk, NEW d \in Devices, NEW why \in Trouble, CommandFails(d, why),
         link' \in [Devices -> {"none", "up", "dead"}]
  PROVE  DeviceTypes' /\ trouble' \in [Devices -> Trouble]
<1>1. trouble' \in [Devices -> Trouble]
  BY TroubleType DEF TypeOk, CommandFails
<1>2. CASE cmd[d] = "quit"
  BY <1>1, <1>2, PowerOffType DEF CommandFails
<1>3. CASE cmd[d] # "quit"
  <2>1. Prompt(d) /\ UNCHANGED <<version, local, dirty, seen, gone>>
    BY <1>3 DEF CommandFails
  <2> QED
    BY <1>1, <2>1, PromptType DEF TypeOk
<1> QED
  BY <1>2, <1>3

\* A step that leaves versions, requests, cache and clock alone.
LEMMA MoveType ==
  ASSUME TypeOk, Move
  PROVE  moves' \in 0..MaxMoves
  BY BoundsAssumption DEF TypeOk, Move

LEMMA FaultType ==
  ASSUME TypeOk, Fault
  PROVE  faults' \in 0..MaxFaults
  BY BoundsAssumption DEF TypeOk, Fault

-----------------------------------------------------------------------------
\* Type correctness of every action.

LEMMA AcceptType ==
  ASSUME TypeOk, NEW r \in PutRequest, NEW beaten, Accept(r, beaten)
  PROVE  versions' \in Seq(Version) /\ trouble' \in [Devices -> Trouble]
<1> DEFINE v == [by |-> r.by, content |-> r.content, seen |-> r.seen, gone |-> r.gone]
<1>1. v \in Version
  BY DEF PutRequest, Version
<1>2. versions' = Append(versions, v)
  BY DEF Accept
<1> HIDE DEF v
<1>3. versions' \in Seq(Version)
  BY <1>1, <1>2 DEF TypeOk
<1>4. trouble' \in [Devices -> Trouble]
  BY TroubleType DEF Accept, TypeOk
<1> QED
  BY <1>3, <1>4

\* The number of versions is a number, and the versions are numbered up to it.
LEMMA CurrentType ==
  ASSUME TypeOk
  PROVE  /\ Current \in Nat
         /\ DOMAIN versions = 1..Current
         /\ \A n \in 1..Current : versions[n] \in Version /\ versions[n].content \in Content
<1>1. versions \in Seq(Version)
  BY DEF TypeOk
<1>2. Current \in Nat /\ DOMAIN versions = 1..Current /\ \A n \in 1..Current : versions[n] \in Version
  BY <1>1 DEF Current
<1> QED
  BY <1>2 DEF Version

LEMMA AnswerType ==
  ASSUME TypeOk, NEW d \in Devices, NEW m \in Message, Answer(d, m) \/ Ask(d, m)
  PROVE  chan' \in [Devices -> Message \cup {None}]
  BY DEF TypeOk, Answer, Ask

\* Messages without content.
LEMMA PlainMessage ==
  /\ \A type \in {"LOGIN", "BAD_LOGIN", "REGISTER", "REFRESH", "PING", "GET",
                   "AUTH_FAIL", "PONG", "NOT_FOUND", "CONFLICT"} : [type |-> type] \in Message
  /\ AuthOk \in Message
  /\ \A n \in Nat : [type |-> "ACK", version |-> n] \in Message
  /\ \A n \in Nat, c \in Content : [type |-> "DATA", version |-> n, content |-> c] \in Message
  BY DEF Message, AuthOk, AuthOkVersion

LEMMA ServeType ==
  ASSUME TypeOk, NEW d \in Devices, Serve(d)
  PROVE  TypeOk'
<1>1. /\ UNCHANGED <<late, link, pc, cmd, tries, version, local, dirty, seen, gone, cache, now, used, moves, faults>>
      /\ ServeLogin(d) \/ ServeRefresh(d) \/ ServePing(d) \/ ServeGet(d) \/ ServePut(d)
  BY DEF Serve
<1>2. chan' \in [Devices -> Message \cup {None}] /\ live' \in [Devices -> BOOLEAN]
  <2>1. CASE ServeLogin(d) \/ ServeRefresh(d) \/ ServePing(d)
    <3>1. PICK m \in Message : Answer(d, m)
      BY <2>1, PlainMessage DEF ServeLogin, ServeRefresh, ServePing
    <3> QED
      BY <2>1, <3>1, AnswerType DEF TypeOk, ServeLogin, ServeRefresh, ServePing
  <2>2. CASE ServeGet(d)
    <3>1. PICK m \in Message : Answer(d, m)
      BY <2>2, PlainMessage, CurrentType DEF ServeGet
    <3> QED
      BY <2>2, <3>1, AnswerType DEF TypeOk, ServeGet
  <2>3. CASE ServePut(d)
    <3>1. PICK m \in Message : Answer(d, m)
      BY <2>3, PlainMessage, CurrentType DEF ServePut
    <3> QED
      BY <2>3, <3>1, AnswerType DEF TypeOk, ServePut
  <2> QED
    BY <1>1, <2>1, <2>2, <2>3
<1>3. versions' \in Seq(Version) /\ trouble' \in [Devices -> Trouble]
  <2>1. CASE UNCHANGED <<versions, trouble>>
    BY <2>1 DEF TypeOk
  <2>2. CASE Asked(d, "PUT") /\ Accept(chan[d], Devices \ {d})
    <3>1. chan[d] \in PutRequest
      BY <2>2, MessageKind DEF Asked, TypeOk
    <3> QED
      BY <2>2, <3>1, AcceptType
  <2> QED
    BY <1>1, <2>1, <2>2 DEF ServeLogin, ServeRefresh, ServePing, ServeGet, ServePut
<1> QED
  BY <1>1, <1>2, <1>3, TypePartsPrimed DEF TypeOk, DeviceTypes, OtherTypes

LEMMA ServeRegisterType ==
  ASSUME TypeOk, NEW d \in Devices, ServeRegister(d)
  PROVE  TypeOk'
<1>1. chan' \in [Devices -> Message \cup {None}]
  BY DEF TypeOk, ServeRegister, Answer
<1>2. trouble' \in [Devices -> Trouble]
  BY CausedType DEF TypeOk, ServeRegister, Caused, Causes
<1> QED
  BY <1>1, <1>2, TypePartsPrimed DEF TypeOk, DeviceTypes, OtherTypes, ServeRegister

LEMMA ServeLateType ==
  ASSUME TypeOk, ServeLate
  PROVE  TypeOk'
<1>1. PICK r \in late : Accept(r, Devices)
  BY DEF ServeLate
<1>2. versions' \in Seq(Version) /\ trouble' \in [Devices -> Trouble]
  BY <1>1, AcceptType DEF TypeOk
<1> QED
  BY <1>2, TypePartsPrimed DEF TypeOk, DeviceTypes, OtherTypes, ServeLate

LEMMA StartType ==
  ASSUME TypeOk, NEW d \in Devices, Start(d) \/ StartConnect(d) \/ StartFails(d) \/ StartOffline(d)
  PROVE  TypeOk'
<1>1. CASE Start(d)
  <2>1. DeviceTypes'
    BY <1>1 DEF TypeOk, DeviceTypes, Start, Goto
  <2> QED
    BY <1>1, <2>1, TypePartsPrimed, MoveType, TroubleType DEF TypeOk, OtherTypes, Start
<1>2. CASE StartConnect(d)
  <2>1. DeviceTypes'
    <3>1. PICK opening \in Openings : Ask(d, [type |-> opening])
      BY <1>2 DEF StartConnect
    <3>2. [type |-> opening] \in Message
      BY DEF Openings, Message
    <3>3. chan' \in [Devices -> Message \cup {None}]
      BY <3>1, <3>2 DEF TypeOk, Ask
    <3> QED
      BY <1>2, <3>3 DEF TypeOk, DeviceTypes, StartConnect, Goto, Waiting
  <2> QED
    BY <1>2, <2>1, TypePartsPrimed DEF TypeOk, OtherTypes, StartConnect
<1>3. CASE StartFails(d)
  <2>1. DeviceTypes'
    BY <1>3, LoadCacheType DEF StartFails
  <2>2. trouble' \in [Devices -> Trouble]
    <3>1. trouble[d] \in Trouble /\ "link" \in Causes
      BY DEF TypeOk, Causes
    <3>2. Caused(d, "link") \in Trouble
      BY <3>1, CausedType DEF Caused
    <3> QED
      BY <1>3, <3>1, <3>2, TroubleType DEF StartFails, TypeOk
  <2> QED
    BY <1>3, <2>1, <2>2, TypePartsPrimed, FaultType DEF TypeOk, OtherTypes, StartFails
<1>4. CASE StartOffline(d)
  <2>1. DeviceTypes'
    BY <1>4, LoadCacheType DEF StartOffline
  <2> QED
    BY <1>4, <2>1, TypePartsPrimed, MoveType, TroubleType DEF TypeOk, OtherTypes, StartOffline
<1> QED
  BY <1>1, <1>2, <1>3, <1>4


LEMMA LoginType ==
  ASSUME TypeOk, NEW d \in Devices, LoginRefused(d) \/ LoggedIn(d) \/ FirstFetch(d)
  PROVE  TypeOk'
<1>1. CASE LoginRefused(d)
  <2>1. trouble' \in [Devices -> Trouble]
    <3>1. Caused(d, "password") \in Trouble
      BY CausedType DEF Caused, TypeOk, Causes
    <3> QED
      BY <1>1, <3>1, TroubleType DEF LoginRefused, TypeOk
  <2> QED
    BY <1>1, <2>1, PowerOffType, TypePartsPrimed DEF TypeOk, OtherTypes, LoginRefused
<1>2. CASE LoggedIn(d)
  <2>1. chan[d].version \in Nat
    BY <1>2, MessageKind DEF LoggedIn, Got, TypeOk
  <2>2. chan' \in [Devices -> Message \cup {None}]
    BY <1>2, AnswerType, PlainMessage DEF LoggedIn
  <2>3. DeviceTypes'
    BY <1>2, <2>1, <2>2 DEF TypeOk, DeviceTypes, LoggedIn, Goto, Waiting
  <2> QED
    BY <1>2, <2>3, TypePartsPrimed DEF TypeOk, OtherTypes, LoggedIn
<1>3. CASE FirstFetch(d)
  <2>1. chan' \in [Devices -> Message \cup {None}]
    BY <1>3 DEF FirstFetch, Ask, TypeOk
  <2>2. /\ local' \in [Devices -> Content] /\ version' \in [Devices -> Nat]
        /\ seen' \in [Devices -> SUBSET Nat]
        /\ pc' = [pc EXCEPT ![d] = "save"] \/ pc' = [pc EXCEPT ![d] = "repl"]
    <3>1. CASE Got(d, "first_fetch", "DATA")
      <4>1. chan[d].version \in Nat /\ chan[d].content \in Content
        BY <3>1, MessageKind DEF Got, TypeOk
      <4>2. /\ local' = [local EXCEPT ![d] = chan[d].content]
            /\ version' = [version EXCEPT ![d] = chan[d].version]
            /\ seen' = [seen EXCEPT ![d] = {chan[d].version}]
            /\ pc' = [pc EXCEPT ![d] = "save"]
        BY <1>3, <3>1 DEF FirstFetch, Goto, Got
      <4> QED
        BY <4>1, <4>2 DEF TypeOk
    <3>2. CASE ~Got(d, "first_fetch", "DATA")
      BY <1>3, <3>2 DEF FirstFetch, Goto, TypeOk
    <3> QED
      BY <3>1, <3>2
  <2>3. DeviceTypes'
    BY <1>3, <2>1, <2>2 DEF TypeOk, DeviceTypes, FirstFetch, Saving, Prompts
  <2> QED
    BY <1>3, <2>3, TypePartsPrimed DEF TypeOk, OtherTypes, FirstFetch
<1> QED
  BY <1>1, <1>2, <1>3

LEMMA CacheType ==
  ASSUME TypeOk, NEW d \in Devices, OpenCache(d) \/ SaveCache(d) \/ SaveFails(d)
  PROVE  TypeOk'
<1>1. CASE OpenCache(d)
  <2>1. DeviceTypes' /\ cache' \in [Devices -> CacheFile \cup {None, Torn}]
    BY <1>1 DEF TypeOk, DeviceTypes, OpenCache, Goto, Saving
  <2> QED
    BY <1>1, <2>1, TypePartsPrimed DEF TypeOk, OtherTypes, OpenCache
<1>2. CASE SaveCache(d)
  <2>1. [version |-> version[d], content |-> local[d]] \in CacheFile
    BY DEF TypeOk, CacheFile
  <2>2. cache' \in [Devices -> CacheFile \cup {None, Torn}]
    BY <1>2, <2>1 DEF SaveCache, TypeOk
  <2>3. DeviceTypes'
    BY <1>2, PromptType DEF SaveCache, TypeOk
  <2> QED
    BY <1>2, <2>2, <2>3, TypePartsPrimed DEF TypeOk, OtherTypes, SaveCache
<1>3. CASE SaveFails(d)
  <2>1. DeviceTypes'
    <3>1. CASE cmd[d] = None
      BY <1>3, <3>1, LoadCacheType DEF SaveFails
    <3>2. CASE cmd[d] # None
      <4>1. Prompt(d) /\ UNCHANGED <<link, version, local, dirty, seen, gone>>
        BY <1>3, <3>2 DEF SaveFails
      <4> QED
        BY <4>1, PromptType DEF TypeOk
    <3> QED
      BY <3>1, <3>2
  <2>2. trouble' \in [Devices -> Trouble]
    <3>1. Caused(d, "disk") \in Trouble
      BY CausedType DEF Caused, TypeOk, Causes
    <3>2. trouble' = [trouble EXCEPT ![d] = [Caused(d, "disk") EXCEPT !.failed = TRUE]]
      BY <1>3 DEF SaveFails
    <3> QED
      BY <3>1, <3>2, TroubleType DEF TypeOk
  <2>3. faults' \in 0..MaxFaults /\ UNCHANGED <<serverVars, cache, now, userVars>>
    BY <1>3, FaultType DEF SaveFails
  <2> QED
    BY <2>1, <2>2, <2>3, TypePartsPrimed DEF TypeOk, OtherTypes
<1> QED
  BY <1>1, <1>2, <1>3

LEMMA EditType ==
  ASSUME TypeOk, NEW d \in Devices, Add(d) \/ Edit(d) \/ Remove(d)
  PROVE  TypeOk'
<1>1. Editing(d)
  BY DEF Add, Edit, Remove
<1>2. local' \in [Devices -> Content]
  <2>1. \E i \in Ids :
          \/ \E val \in Vals : local' = [local EXCEPT ![d] = Stored(local[d], i, val, now)]
          \/ local' = [local EXCEPT ![d] = Removed(local[d], i)]
    BY DEF Add, Edit, Remove, Present
  <2>2. local[d] \in Content /\ now \in Nat
    BY DEF TypeOk
  <2>3. \E c \in Content : local' = [local EXCEPT ![d] = c]
    BY <2>1, <2>2, StoredType
  <2> QED
    BY <2>3 DEF TypeOk
<1>3. used' \subseteq Ids /\ gone' \in [Devices -> SUBSET Ids]
  BY DEF Add, Edit, Remove, Present, TypeOk
<1>4. dirty' \in [Devices -> BOOLEAN]
  BY <1>1 DEF Editing, TypeOk
<1>5. DeviceTypes'
  BY <1>1, <1>2, <1>3, <1>4 DEF TypeOk, DeviceTypes, Editing
<1> QED
  BY <1>1, <1>3, <1>5, MoveType, TypePartsPrimed DEF TypeOk, OtherTypes, Editing

LEMMA EnsureSessionType ==
  ASSUME TypeOk, NEW d \in Devices, NEW command \in {"sync", "quit", "pull", "ping"},
         EnsureSession(d, command), Move
  PROVE  TypeOk'
<1>1. chan' \in [Devices -> Message \cup {None}]
  <2>1. [type |-> "PING"] \in Message
    BY PlainMessage
  <2> QED
    BY <2>1 DEF EnsureSession, Ask, TypeOk
<1>2. /\ cmd' \in [Devices -> {"sync", "quit", "pull", "ping", None}]
      /\ pc' = [pc EXCEPT ![d] = "connect"] \/ pc' = [pc EXCEPT ![d] = "ping"]
  BY DEF EnsureSession, Goto, TypeOk
<1>3. DeviceTypes'
  BY <1>1, <1>2 DEF TypeOk, DeviceTypes, EnsureSession, Waiting
<1> QED
  BY <1>3, MoveType, TroubleType, TypePartsPrimed DEF TypeOk, OtherTypes, EnsureSession

LEMMA CommandType ==
  ASSUME TypeOk, NEW d \in Devices, Command(d) \/ Quit(d)
  PROVE  TypeOk'
<1>1. CASE Command(d)
  BY <1>1, EnsureSessionType DEF Command
<1>2. CASE Quit(d) /\ EnsureSession(d, "quit")
  BY <1>2, EnsureSessionType DEF Quit
<1>3. CASE Quit(d) /\ PowerOff(d) /\ UNCHANGED <<serverVars, cache, now, used, trouble, faults>>
  BY <1>3, PowerOffType, MoveType, TypePartsPrimed DEF TypeOk, OtherTypes, Quit
<1> QED
  BY <1>1, <1>2, <1>3 DEF Quit


\* The session is there: a PUT, a GET or nothing.
LEMMA ProceedType ==
  ASSUME TypeOk, NEW d \in Devices, NEW base \in Nat, Proceed(d, base),
         version' \in [Devices -> Nat], UNCHANGED <<link, local, dirty, seen, gone>>
  PROVE  DeviceTypes'
<1>1. CASE Prompt(d)
  BY <1>1, PromptType DEF TypeOk
<1>2. CASE Ask(d, PutOf(d, base, local[d], seen[d], gone[d]))
           /\ tries' = [tries EXCEPT ![d] = 1] /\ Goto(d, "put") /\ UNCHANGED cmd
  <2>1. PutOf(d, base, local[d], seen[d], gone[d]) \in Message
    BY PutOfType DEF TypeOk
  <2>2. chan' \in [Devices -> Message \cup {None}]
    BY <1>2, <2>1, AnswerType
  <2>3. tries' \in [Devices -> 0..3]
    BY <1>2 DEF TypeOk
  <2>4. pc' = [pc EXCEPT ![d] = "put"] /\ UNCHANGED cmd
    BY <1>2 DEF Goto
  <2> QED
    BY <2>2, <2>3, <2>4 DEF TypeOk, DeviceTypes, Waiting
<1>3. CASE Ask(d, [type |-> "GET"]) /\ Goto(d, "pull_fetch") /\ UNCHANGED <<cmd, tries>>
  <2>1. chan' \in [Devices -> Message \cup {None}]
    BY <1>3, AnswerType, PlainMessage
  <2> QED
    BY <1>3, <2>1 DEF TypeOk, DeviceTypes, Goto, Waiting
<1> QED
  BY <1>1, <1>2, <1>3 DEF Proceed

LEMMA SessionType ==
  ASSUME TypeOk, NEW d \in Devices,
         Pong(d) \/ PingFails(d) \/ Connect(d) \/ Refreshed(d) \/ PullNotFound(d)
  PROVE  TypeOk'
<1>1. CASE Pong(d)
  <2>1. DeviceTypes'
    BY <1>1, ProceedType DEF Pong, TypeOk
  <2> QED
    BY <1>1, <2>1, TypePartsPrimed DEF TypeOk, OtherTypes, Pong
<1>2. CASE PingFails(d)
  <2>1. DeviceTypes'
    BY <1>2 DEF TypeOk, DeviceTypes, PingFails, Goto
  <2> QED
    BY <1>2, <2>1, TypePartsPrimed DEF TypeOk, OtherTypes, PingFails
<1>3. CASE Connect(d)
  <2>1. chan' \in [Devices -> Message \cup {None}]
    BY <1>3, AnswerType, PlainMessage DEF Connect
  <2>2. DeviceTypes'
    BY <1>3, <2>1 DEF TypeOk, DeviceTypes, Connect, Goto, Waiting
  <2> QED
    BY <1>3, <2>2, TypePartsPrimed DEF TypeOk, OtherTypes, Connect
<1>4. CASE Refreshed(d)
  <2>1. chan[d].version \in Nat
    BY <1>4, MessageKind DEF Refreshed, Got, TypeOk
  <2>2. version' \in [Devices -> Nat]
    BY <1>4, <2>1 DEF Refreshed, TypeOk
  <2>3. DeviceTypes'
    BY <1>4, <2>1, <2>2, ProceedType DEF Refreshed
  <2> QED
    BY <1>4, <2>3, TypePartsPrimed DEF TypeOk, OtherTypes, Refreshed
<1>5. CASE PullNotFound(d)
  <2>1. DeviceTypes'
    BY <1>5, PromptType DEF TypeOk, PullNotFound
  <2> QED
    BY <1>5, <2>1, TypePartsPrimed DEF TypeOk, OtherTypes, PullNotFound
<1> QED
  BY <1>1, <1>2, <1>3, <1>4, <1>5

\* A command that fails leaves the connection as it is, or dead.
LEMMA FailureType ==
  ASSUME TypeOk, NEW d \in Devices, ConnectFails(d) \/ RefreshRefused(d) \/ CommandBreaks(d)
  PROVE  TypeOk'
<1>1. PICK why \in Trouble : CommandFails(d, why)
  <2>1. trouble[d] \in Trouble /\ Caused(d, "link") \in Trouble /\ Caused(d, "token") \in Trouble
    BY CausedType DEF Caused, TypeOk, Causes
  <2> QED
    BY <2>1 DEF ConnectFails, RefreshRefused, CommandBreaks
<1>2. link' \in [Devices -> {"none", "up", "dead"}]
  <2>1. CASE cmd[d] = "quit"
    BY <1>1, <2>1 DEF CommandFails, PowerOff, TypeOk
  <2>2. CASE cmd[d] # "quit"
    BY <2>2 DEF ConnectFails, RefreshRefused, CommandBreaks, TypeOk
  <2> QED
    BY <2>1, <2>2
<1>3. DeviceTypes' /\ trouble' \in [Devices -> Trouble]
  BY <1>1, <1>2, CommandFailsType
<1>4. UNCHANGED <<serverVars, cache, now, userVars>>
  BY DEF ConnectFails, RefreshRefused, CommandBreaks
<1>5. faults' \in 0..MaxFaults
  BY FaultType DEF ConnectFails, RefreshRefused, CommandBreaks, TypeOk
<1> QED
  BY <1>3, <1>4, <1>5, TypePartsPrimed DEF TypeOk, OtherTypes

LEMMA PutType ==
  ASSUME TypeOk, NEW d \in Devices, PutAcked(d) \/ PutConflict(d)
  PROVE  TypeOk'
<1>1. CASE PutAcked(d) /\ PowerOff(d)
  BY <1>1, PowerOffType, TypePartsPrimed DEF TypeOk, OtherTypes, PutAcked
<1>2. CASE PutAcked(d) /\ ~PowerOff(d)
  <2>1. chan[d].version \in Nat
    BY <1>2, MessageKind DEF PutAcked, Got, TypeOk
  <2>2. /\ version' = [version EXCEPT ![d] = chan[d].version]
        /\ seen' = [seen EXCEPT ![d] = @ \cup {chan[d].version}]
        /\ dirty' = [dirty EXCEPT ![d] = FALSE]
        /\ chan' = [chan EXCEPT ![d] = None]
        /\ pc' = [pc EXCEPT ![d] = "save"]
        /\ UNCHANGED <<link, cmd, tries, local, gone>>
    BY <1>2 DEF PutAcked, Ask, Goto
  <2>3. DeviceTypes'
    BY <2>1, <2>2 DEF TypeOk, DeviceTypes, Saving
  <2> QED
    BY <1>2, <2>3, TypePartsPrimed DEF TypeOk, OtherTypes, PutAcked
<1>3. CASE PutConflict(d)
  <2>1. chan' \in [Devices -> Message \cup {None}]
    BY <1>3, AnswerType, PlainMessage DEF PutConflict
  <2>2. DeviceTypes'
    BY <1>3, <2>1 DEF TypeOk, DeviceTypes, PutConflict, Goto, Waiting
  <2> QED
    BY <1>3, <2>2, TypePartsPrimed DEF TypeOk, OtherTypes, PutConflict
<1> QED
  BY <1>1, <1>2, <1>3

LEMMA MergeFetchedType ==
  ASSUME TypeOk, NEW d \in Devices, chan[d] # None, chan[d].type = "DATA", MergeFetched(d)
  PROVE  /\ version' \in [Devices -> Nat] /\ local' \in [Devices -> Content]
         /\ seen' \in [Devices -> SUBSET Nat] /\ gone' \in [Devices -> SUBSET Ids]
<1>1. chan[d].version \in Nat /\ chan[d].content \in Content
  BY MessageKind DEF TypeOk
<1>2. Merged(d) \in Content
  BY <1>1, MergeType DEF TypeOk, Merged
<1> QED
  BY <1>1, <1>2 DEF TypeOk, MergeFetched

LEMMA FetchedType ==
  ASSUME TypeOk, NEW d \in Devices, ConflictFetched(d) \/ PullFetched(d)
  PROVE  TypeOk'
<1>1. chan[d] # None /\ chan[d].type = "DATA"
  BY DEF ConflictFetched, PullFetched, Got
<1>2. CASE ConflictFetched(d) /\ PowerOff(d) /\ trouble' = [trouble EXCEPT ![d].failed = TRUE]
  <2>1. trouble' \in [Devices -> Trouble]
    BY <1>2, TroubleType DEF TypeOk
  <2> QED
    BY <1>2, <2>1, PowerOffType, TypePartsPrimed DEF TypeOk, OtherTypes, ConflictFetched
<1>3. CASE /\ ConflictFetched(d) /\ MergeFetched(d) /\ tries[d] < 3
           /\ Ask(d, PutOf(d, version'[d], local'[d], seen'[d], gone'[d]))
           /\ tries' = [tries EXCEPT ![d] = @ + 1] /\ Goto(d, "put")
           /\ UNCHANGED <<link, cmd, dirty, trouble>>
  <2>1. /\ version' \in [Devices -> Nat] /\ local' \in [Devices -> Content]
        /\ seen' \in [Devices -> SUBSET Nat] /\ gone' \in [Devices -> SUBSET Ids]
    BY <1>1, <1>3, MergeFetchedType
  <2>2. chan' \in [Devices -> Message \cup {None}]
    <3>1. PutOf(d, version'[d], local'[d], seen'[d], gone'[d]) \in Message
      BY <2>1, PutOfType
    <3> QED
      BY <1>3, <3>1, AnswerType
  <2>3. tries' \in [Devices -> 0..3]
    <3>1. tries[d] \in 0..3 /\ tries[d] + 1 \in 0..3
      BY <1>3 DEF TypeOk
    <3> QED
      BY <1>3, <3>1 DEF TypeOk
  <2>4. DeviceTypes'
    BY <1>3, <2>1, <2>2, <2>3 DEF TypeOk, DeviceTypes, Goto, Waiting
  <2> QED
    BY <1>3, <2>4, TypePartsPrimed DEF TypeOk, OtherTypes, ConflictFetched
<1>4. CASE /\ ConflictFetched(d) /\ MergeFetched(d) /\ Prompt(d)
           /\ trouble' = [trouble EXCEPT ![d].failed = TRUE] /\ UNCHANGED <<link, dirty>>
  <2>1. trouble' \in [Devices -> Trouble]
    BY <1>4, TroubleType DEF TypeOk
  <2>2. DeviceTypes'
    BY <1>1, <1>4, MergeFetchedType, PromptType DEF TypeOk
  <2> QED
    BY <1>4, <2>1, <2>2, TypePartsPrimed DEF TypeOk, OtherTypes, ConflictFetched
<1>5. CASE PullFetched(d)
  <2>1. DeviceTypes'
    BY <1>1, <1>5, MergeFetchedType, PromptType DEF TypeOk, PullFetched
  <2> QED
    BY <1>5, <2>1, TypePartsPrimed DEF TypeOk, OtherTypes, PullFetched
<1> QED
  BY <1>2, <1>3, <1>4, <1>5 DEF ConflictFetched

LEMMA EnvironmentType ==
  ASSUME TypeOk, NEW d \in Devices, LinkBreaks(d) \/ Kill(d) \/ TokenExpires(d)
  PROVE  TypeOk'
<1>1. faults' \in 0..MaxFaults
  BY FaultType DEF LinkBreaks, Kill, TokenExpires
<1>2. Strand(d) => late' \subseteq PutRequest
  <2>1. Asked(d, "PUT") => chan[d] \in PutRequest
    BY MessageKind DEF Asked, TypeOk
  <2> QED
    BY <2>1 DEF Strand, TypeOk
<1>3. CASE LinkBreaks(d)
  <2>1. trouble' \in [Devices -> Trouble]
    <3>1. Caused(d, "link") \in Trouble /\ trouble[d] \in Trouble
      BY CausedType DEF Caused, TypeOk, Causes
    <3> QED
      BY <1>3, <3>1 DEF LinkBreaks, TypeOk
  <2>2. DeviceTypes'
    BY <1>3 DEF TypeOk, DeviceTypes, LinkBreaks
  <2> QED
    BY <1>1, <1>2, <1>3, <2>1, <2>2, TypePartsPrimed DEF TypeOk, OtherTypes, LinkBreaks
<1>4. CASE Kill(d)
  <2>1. trouble' \in [Devices -> Trouble]
    BY <1>4, TroubleType DEF Kill, TypeOk
  <2> QED
    BY <1>1, <1>2, <1>4, <2>1, PowerOffType, TypePartsPrimed DEF TypeOk, OtherTypes, Kill
<1>5. CASE TokenExpires(d)
  BY <1>1, <1>5, TypePartsPrimed DEF TypeOk, DeviceTypes, OtherTypes, TokenExpires
<1> QED
  BY <1>3, <1>4, <1>5

LEMMA TickType ==
  ASSUME TypeOk, Tick \/ UNCHANGED vars
  PROVE  TypeOk'
  BY TypePartsPrimed DEF TypeOk, DeviceTypes, OtherTypes, Tick, vars

LEMMA NextType == TypeOk /\ [Next]_vars => TypeOk'
<1> SUFFICES ASSUME TypeOk, [Next]_vars
             PROVE  TypeOk'
  OBVIOUS
<1>1. ASSUME NEW d \in Devices, UserStep(d)
      PROVE  TypeOk'
  BY <1>1, StartType, EditType, CommandType DEF UserStep
<1>2. ASSUME NEW d \in Devices, ClientStep(d)
      PROVE  TypeOk'
  BY <1>2, StartType, LoginType, CacheType, SessionType, FailureType, PutType, FetchedType DEF ClientStep
<1>3. ASSUME NEW d \in Devices,
             \/ Serve(d) \/ ServeRegister(d) \/ ConnectFails(d) \/ SaveFails(d)
             \/ LinkBreaks(d) \/ Kill(d) \/ TokenExpires(d)
      PROVE  TypeOk'
  BY <1>3, ServeType, ServeRegisterType, FailureType, CacheType, EnvironmentType
<1>4. CASE ServeLate
  BY <1>4, ServeLateType
<1>5. CASE Tick \/ Quiet \/ UNCHANGED vars
  BY <1>5, TickType DEF Quiet
<1> QED
  BY <1>1, <1>2, <1>3, <1>4, <1>5 DEF Next

\* The devices and the server keep their types (secvault.py, svpclient.py).
THEOREM DevicesTyped == Spec => []TypeOk
  BY InitType, NextType, PTL DEF Spec
-----------------------------------------------------------------------------
\* SyncInv is inductive: what it says of the server's history and of one device.

HistoryInv ==
  /\ \A r \in late : PutOk(r) /\ Past(r.content)
  /\ \A n \in 1..Current : Past(versions[n].content)
  /\ WriterHadMerged
  /\ EntriesOnlyAdvance

CacheOk(d) == cache[d] \notin {None, Torn} => IsVersion(cache[d].version, cache[d].content)
AllSaved(content) == \A i \in Present(content) : \E n \in 1..Current : versions[n].content[i] = content[i]
CleanOk(d) == pc[d] # "offline" /\ ~dirty[d] => AllSaved(local[d])
FailureOk(d) == trouble[d].failed => trouble[d].causes # {} \/ trouble[d].rivals >= 2

ExchangeInv(d) == InExchange(d) /\ MessageOk(d) /\ CauseKnown(d)
VaultInv(d) == HoldsVersion(d) /\ CacheOk(d) /\ CleanOk(d)
DeviceInv(d) == ExchangeInv(d) /\ VaultInv(d) /\ FailureOk(d)

LEMMA InvParts == SyncInv <=> HistoryInv /\ \A d \in Devices : DeviceInv(d)
  BY DEF SyncInv, HistoryInv, DeviceInv, ExchangeInv, VaultInv, CacheOk, CleanOk, AllSaved,
         FailureOk, CacheIsVersion, IsVersion, CleanMeansSaved, FailureHasCause

LEMMA InvPartsPrimed == SyncInv' <=> HistoryInv' /\ \A d \in Devices : DeviceInv(d)'
  BY DEF SyncInv, HistoryInv, DeviceInv, ExchangeInv, VaultInv, CacheOk, CleanOk, AllSaved,
         FailureOk, CacheIsVersion, IsVersion, CleanMeansSaved, FailureHasCause

\* Nothing the invariant reads of a device changes.
Same(e) ==
  UNCHANGED <<link[e], chan[e], pc[e], tries[e], version[e], local[e], dirty[e], cache[e],
              seen[e], gone[e], trouble[e]>>

LEMMA SameKeepsInv ==
  ASSUME NEW e \in Devices, DeviceInv(e), UNCHANGED <<versions, now>>, Same(e)
  PROVE  DeviceInv(e)'
<1>1. Current' = Current
  BY DEF Current
<1>2. ExchangeInv(e)'
  BY <1>1 DEF DeviceInv, ExchangeInv, InExchange, MessageOk, CauseKnown, Asked, PutOk, GoesOnFrom,
              IsVersion, Accepts, Same
<1>3. VaultInv(e)'
  BY <1>1 DEF DeviceInv, VaultInv, HoldsVersion, CacheOk, CleanOk, AllSaved, GoesOnFrom,
              IsVersion, Past, Same
<1>4. FailureOk(e)'
  BY DEF DeviceInv, FailureOk, Same
<1> QED
  BY <1>2, <1>3, <1>4 DEF DeviceInv

LEMMA HistoryKept ==
  ASSUME HistoryInv, UNCHANGED <<versions, now>>, \A r \in late' : PutOk(r) /\ Past(r.content)
  PROVE  HistoryInv'
  BY DEF HistoryInv, PutOk, GoesOnFrom, Past, WriterHadMerged, EntriesOnlyAdvance, Current

\* A step of one device keeps SyncInv if the device itself is as it should be.
LEMMA DeviceStep ==
  ASSUME SyncInv, NEW d \in Devices, UNCHANGED <<versions, now>>,
         \A r \in late' : PutOk(r) /\ Past(r.content),
         \A e \in Devices \ {d} : Same(e),
         DeviceInv(d)'
  PROVE  SyncInv'
<1>1. HistoryInv'
  BY InvParts, HistoryKept
<1>2. \A e \in Devices \ {d} : DeviceInv(e)'
  BY InvParts, SameKeepsInv
<1> QED
  BY <1>1, <1>2, InvPartsPrimed

-----------------------------------------------------------------------------
\* The building blocks of the client.

\* Nothing is on the connection.
LEMMA NoMessage ==
  ASSUME NEW d \in Devices, chan'[d] = None,
         pc'[d] \in Waiting \ {"ping"} /\ link'[d] # "up" => trouble'[d].causes # {}
  PROVE  ExchangeInv(d)'
  BY DEF ExchangeInv, InExchange, MessageOk, CauseKnown, Asked

LEMMA EmptyVaultOk ==
  /\ Past(EmptyVault)
  /\ AllSaved(EmptyVault)
  BY DEF Past, AllSaved, Present, EmptyVault

LEMMA VersionsUnchanged ==
  ASSUME UNCHANGED <<versions, now>>
  PROVE  /\ Current' = Current
         /\ \A c : Past(c)' = Past(c)
         /\ \A c : AllSaved(c)' = AllSaved(c)
         /\ \A n, c : IsVersion(n, c)' = IsVersion(n, c)
         /\ \A n, c, m, g : GoesOnFrom(n, c, m, g)' = GoesOnFrom(n, c, m, g)
         /\ \A r : PutOk(r)' = PutOk(r)
  BY DEF Current, Past, AllSaved, IsVersion, GoesOnFrom, PutOk

LEMMA PowerOffInv ==
  ASSUME TypeOk, NEW d \in Devices, DeviceInv(d), PowerOff(d), UNCHANGED <<versions, now, cache>>,
         FailureOk(d)'
  PROVE  DeviceInv(d)'
<1>1. /\ pc'[d] = "off" /\ chan'[d] = None /\ version'[d] = 0 /\ local'[d] = EmptyVault
  BY DEF PowerOff, Goto, TypeOk
<1>2. ExchangeInv(d)'
  BY <1>1, NoMessage DEF Waiting
<1>3. HoldsVersion(d)'
  BY <1>1, EmptyVaultOk, VersionsUnchanged DEF HoldsVersion, GoesOnFrom, Saving
<1>4. CacheOk(d)' /\ CleanOk(d)'
  BY <1>1, EmptyVaultOk, VersionsUnchanged DEF DeviceInv, VaultInv, CacheOk, CleanOk
<1> QED
  BY <1>2, <1>3, <1>4 DEF DeviceInv, VaultInv

LEMMA FailedOk ==
  ASSUME TypeOk, NEW d \in Devices, NEW t \in Trouble, t.causes # {} \/ t.rivals >= 2,
         trouble' = [trouble EXCEPT ![d] = [t EXCEPT !.failed = TRUE]]
  PROVE  FailureOk(d)' /\ trouble'[d].causes = t.causes
<1>1. trouble'[d] = [t EXCEPT !.failed = TRUE]
  BY DEF TypeOk
<1>2. trouble'[d].causes = t.causes /\ trouble'[d].rivals = t.rivals
  BY <1>1 DEF Trouble
<1> QED
  BY <1>2 DEF FailureOk

LEMMA CausedOk ==
  ASSUME TypeOk, NEW d \in Devices, NEW cause \in Causes
  PROVE  Caused(d, cause) \in Trouble /\ Caused(d, cause).causes # {}
<1>1. trouble[d] \in Trouble
  BY DEF TypeOk
<1>2. Caused(d, cause).causes = trouble[d].causes \cup {cause}
  BY <1>1 DEF Caused, Trouble
<1> QED
  BY <1>1, <1>2, CausedType DEF Caused

LEMMA PromptInv ==
  ASSUME TypeOk, NEW d \in Devices, Prompt(d), VaultInv(d)', FailureOk(d)'
  PROVE  DeviceInv(d)'
<1>1. pc'[d] = "repl" /\ chan'[d] = None
  BY DEF Prompt, Goto, Ask, TypeOk
<1>2. ExchangeInv(d)'
  BY <1>1, NoMessage DEF Waiting
<1> QED
  BY <1>2 DEF DeviceInv

\* The vault of a device is not touched, and it does not go offline or begin to save.
LEMMA VaultKept ==
  ASSUME NEW d \in Devices, VaultInv(d), UNCHANGED <<versions, now>>, pc[d] # "offline",
         pc'[d] \notin Saving \/ pc[d] \in Saving,
         UNCHANGED <<version[d], local[d], dirty[d], cache[d], seen[d], gone[d]>>
  PROVE  VaultInv(d)'
<1>1. HoldsVersion(d)'
  BY VersionsUnchanged DEF VaultInv, HoldsVersion
<1>2. CacheOk(d)' /\ CleanOk(d)'
  BY VersionsUnchanged DEF VaultInv, CacheOk, CleanOk
<1> QED
  BY <1>1, <1>2 DEF VaultInv

LEMMA LoadCacheInv ==
  ASSUME TypeOk, HistoryInv, NEW d \in Devices, DeviceInv(d), LoadCache(d),
         UNCHANGED <<versions, now, cache>>, FailureOk(d)'
  PROVE  DeviceInv(d)'
<1>1. CASE cache[d] \in {None, Torn}
  BY <1>1, PowerOffInv DEF LoadCache
<1>2. CASE cache[d] \notin {None, Torn}
  <2>1. pc'[d] = "offline" /\ chan'[d] = None /\ local'[d] = cache[d].content
    BY <1>2 DEF LoadCache, Goto, TypeOk
  <2>2. Past(cache[d].content)
    BY <1>2 DEF DeviceInv, VaultInv, CacheOk, IsVersion, HistoryInv
  <2>3. ExchangeInv(d)'
    BY <2>1, NoMessage DEF Waiting
  <2>4. HoldsVersion(d)'
    BY <2>1, <2>2, VersionsUnchanged DEF HoldsVersion, Saving
  <2>5. CacheOk(d)' /\ CleanOk(d)'
    BY <2>1, VersionsUnchanged DEF DeviceInv, VaultInv, CacheOk, CleanOk
  <2> QED
    BY <2>3, <2>4, <2>5 DEF DeviceInv, VaultInv
<1> QED
  BY <1>1, <1>2

\* A command that fails was at a device with a session or asking for one.
LEMMA CommandFailsInv ==
  ASSUME TypeOk, NEW d \in Devices, DeviceInv(d), NEW why \in Trouble, why.causes # {},
         CommandFails(d, why), pc[d] \in CommandPcs \cup {"connect"},
         UNCHANGED <<versions, now, cache>>
  PROVE  DeviceInv(d)'
<1>1. FailureOk(d)'
  BY FailedOk DEF CommandFails
<1>2. CASE cmd[d] = "quit"
  BY <1>1, <1>2, PowerOffInv DEF CommandFails
<1>3. CASE cmd[d] # "quit"
  <2>1. Prompt(d) /\ UNCHANGED <<version, local, dirty, seen, gone>>
    BY <1>3 DEF CommandFails
  <2>2. pc'[d] = "repl"
    BY <2>1 DEF Prompt, Goto, TypeOk
  <2>3. VaultInv(d)'
    BY <2>1, <2>2, VaultKept DEF DeviceInv, CommandPcs, Waiting, Saving
  <2> QED
    BY <1>1, <2>1, <2>3, PromptInv
<1> QED
  BY <1>2, <1>3

\* No building block reaches another device.
LEMMA OthersSame ==
  ASSUME TypeOk, NEW d \in Devices, NEW e \in Devices \ {d}
  PROVE  /\ PowerOff(d) =>
              UNCHANGED <<link[e], chan[e], pc[e], tries[e], version[e], local[e], dirty[e], seen[e], gone[e]>>
         /\ LoadCache(d) =>
              UNCHANGED <<link[e], chan[e], pc[e], tries[e], version[e], local[e], dirty[e], seen[e], gone[e]>>
         /\ Prompt(d) => UNCHANGED <<chan[e], pc[e], tries[e]>>
         /\ MergeFetched(d) => UNCHANGED <<version[e], local[e], seen[e], gone[e]>>
         /\ \A why : CommandFails(d, why) =>
              UNCHANGED <<chan[e], pc[e], tries[e], version[e], local[e], dirty[e], seen[e], gone[e], trouble[e]>>
<1>1. PowerOff(d) =>
        UNCHANGED <<link[e], chan[e], pc[e], tries[e], version[e], local[e], dirty[e], seen[e], gone[e]>>
  BY DEF PowerOff, Goto, TypeOk
<1>2. LoadCache(d) =>
        UNCHANGED <<link[e], chan[e], pc[e], tries[e], version[e], local[e], dirty[e], seen[e], gone[e]>>
  BY <1>1 DEF LoadCache, Goto, TypeOk
<1>3. Prompt(d) => UNCHANGED <<chan[e], pc[e], tries[e]>>
  BY DEF Prompt, Goto, Ask, TypeOk
<1>4. MergeFetched(d) => UNCHANGED <<version[e], local[e], seen[e], gone[e]>>
  BY DEF MergeFetched, TypeOk
<1>5. \A why : CommandFails(d, why) =>
        UNCHANGED <<chan[e], pc[e], tries[e], version[e], local[e], dirty[e], seen[e], gone[e], trouble[e]>>
  BY <1>1, <1>3 DEF CommandFails, TypeOk
<1> QED
  BY <1>1, <1>2, <1>3, <1>4, <1>5

-----------------------------------------------------------------------------
\* Startup.

LEMMA StartSync ==
  ASSUME TypeOk, SyncInv, NEW d \in Devices,
         Start(d) \/ StartConnect(d) \/ StartFails(d) \/ StartOffline(d)
  PROVE  SyncInv'
<1>1. UNCHANGED <<versions, late, now, cache>>
  BY DEF Start, StartConnect, StartFails, StartOffline
<1>2. \A e \in Devices \ {d} : Same(e)
  BY OthersSame DEF Same, Start, StartConnect, StartFails, StartOffline, Goto, Ask, TypeOk
<1>3. HistoryInv /\ DeviceInv(d) /\ \A r \in late' : PutOk(r) /\ Past(r.content)
  BY <1>1, InvParts DEF HistoryInv
<1>4. CASE Start(d)
  <2>1. pc[d] = "off" /\ pc'[d] = "start_connect" /\ chan'[d] = chan[d] /\ trouble'[d] = NoTrouble
    BY <1>4 DEF Start, Goto, TypeOk
  <2>2. chan'[d] = None
    BY <1>3, <2>1 DEF DeviceInv, ExchangeInv, InExchange
  <2>3. ExchangeInv(d)'
    BY <2>1, <2>2, NoMessage DEF Waiting
  <2>4. VaultInv(d)'
    BY <1>1, <1>3, <1>4, <2>1, VaultKept DEF Start, DeviceInv, Saving
  <2>5. FailureOk(d)'
    BY <2>1 DEF FailureOk, NoTrouble
  <2> QED
    BY <1>1, <1>2, <1>3, <2>3, <2>4, <2>5, DeviceStep DEF DeviceInv
<1>5. CASE StartConnect(d)
  <2>1. PICK opening \in Openings : Ask(d, [type |-> opening])
    BY <1>5 DEF StartConnect
  <2>2. /\ pc[d] = "start_connect" /\ pc'[d] = "login" /\ chan'[d] = [type |-> opening]
        /\ link'[d] = "up"
    BY <1>5, <2>1 DEF StartConnect, Goto, Ask, TypeOk
  <2>3. chan'[d].type = opening /\ opening \in {"LOGIN", "BAD_LOGIN", "REGISTER"}
    BY <2>2 DEF Openings
  <2>4. ExchangeInv(d)'
    BY <2>2, <2>3 DEF ExchangeInv, InExchange, MessageOk, CauseKnown, Asked
  <2>5. VaultInv(d)'
    BY <1>1, <1>3, <1>5, <2>2, VaultKept DEF StartConnect, DeviceInv, Saving
  <2>6. FailureOk(d)'
    BY <1>3, <1>5 DEF StartConnect, DeviceInv, FailureOk
  <2> QED
    BY <1>1, <1>2, <1>3, <2>4, <2>5, <2>6, DeviceStep DEF DeviceInv
<1>6. CASE StartFails(d) \/ StartOffline(d)
  <2>1. FailureOk(d)'
    <3>1. CASE trouble' = [trouble EXCEPT ![d] = [Caused(d, "link") EXCEPT !.failed = TRUE]]
      BY <3>1, CausedOk, FailedOk DEF Causes
    <3>2. CASE pc[d] \in {"login", "first_fetch"} /\ link[d] = "dead" /\ trouble' = [trouble EXCEPT ![d].failed = TRUE]
      <4>1. trouble[d].causes # {}
        BY <1>3, <3>2 DEF DeviceInv, ExchangeInv, CauseKnown, Waiting
      <4>2. trouble[d] \in Trouble
        BY DEF TypeOk
      <4> QED
        BY <3>2, <4>1, <4>2, FailedOk
    <3>3. CASE trouble' = [trouble EXCEPT ![d] = NoTrouble]
      BY <3>3 DEF FailureOk, NoTrouble, TypeOk
    <3> QED
      BY <1>6, <3>1, <3>2, <3>3 DEF StartFails, StartOffline
  <2>2. DeviceInv(d)'
    BY <1>1, <1>3, <1>6, <2>1, LoadCacheInv DEF StartFails, StartOffline
  <2> QED
    BY <1>1, <1>2, <1>3, <2>2, DeviceStep
<1> QED
  BY <1>4, <1>5, <1>6

\* A version the server stores is a good copy of itself.
LEMMA VersionIsCopy ==
  ASSUME TypeOk, HistoryInv, NEW n, NEW c, IsVersion(n, c), NEW s, n \in s, NEW g
  PROVE  GoesOnFrom(n, c, s, g) /\ Past(c) /\ AllSaved(c)
<1>1. n \in 1..Current /\ versions[n].content = c /\ Past(c)
  BY DEF IsVersion, HistoryInv
<1>2. c \in Content
  BY <1>1, CurrentType
<1>3. Advances(c, c, g)
  <2>1. ASSUME NEW i \in Ids, c[i] # Absent PROVE c[i].ts >= c[i].ts
    BY <1>2, <2>1 DEF Content, Entry
  <2> QED
    BY <2>1 DEF Advances
<1> QED
  BY <1>1, <1>3 DEF GoesOnFrom, AllSaved

LEMMA LoginSync ==
  ASSUME TypeOk, SyncInv, NEW d \in Devices, LoginRefused(d) \/ LoggedIn(d) \/ FirstFetch(d)
  PROVE  SyncInv'
<1>1. UNCHANGED <<versions, late, now, cache>>
  BY DEF LoginRefused, LoggedIn, FirstFetch
<1>2. \A e \in Devices \ {d} : Same(e)
  BY OthersSame DEF Same, LoginRefused, LoggedIn, FirstFetch, Goto, Ask, TypeOk
<1>3. HistoryInv /\ DeviceInv(d) /\ \A r \in late' : PutOk(r) /\ Past(r.content)
  BY <1>1, InvParts DEF HistoryInv
<1>4. CASE LoginRefused(d)
  <2>1. FailureOk(d)'
    BY <1>4, CausedOk, FailedOk DEF LoginRefused, Causes
  <2> QED
    BY <1>1, <1>2, <1>3, <1>4, <2>1, PowerOffInv, DeviceStep DEF LoginRefused
<1>5. CASE LoggedIn(d)
  <2>1. /\ Asked(d, "AUTH_OK") /\ pc[d] = "login" /\ pc'[d] = "first_fetch"
        /\ chan'[d] = [type |-> "GET"] /\ version'[d] = chan[d].version /\ link'[d] = link[d]
    BY <1>5 DEF LoggedIn, Got, Asked, Goto, Ask, TypeOk
  <2>2. version'[d] = 0 /\ link[d] = "up"
    BY <1>3, <2>1 DEF DeviceInv, ExchangeInv, MessageOk, InExchange, Asked
  <2>3. ExchangeInv(d)'
    BY <2>1, <2>2 DEF ExchangeInv, InExchange, MessageOk, CauseKnown, Asked
  <2>4. HoldsVersion(d)'
    BY <1>1, <1>3, <1>5, <2>1, <2>2, VersionsUnchanged
       DEF LoggedIn, DeviceInv, VaultInv, HoldsVersion, GoesOnFrom, Saving
  <2>5. CacheOk(d)' /\ CleanOk(d)'
    BY <1>1, <1>3, <1>5, <2>1, VersionsUnchanged DEF LoggedIn, DeviceInv, VaultInv, CacheOk, CleanOk
  <2>6. FailureOk(d)'
    BY <1>3, <1>5 DEF LoggedIn, DeviceInv, FailureOk
  <2> QED
    BY <1>1, <1>2, <1>3, <2>3, <2>4, <2>5, <2>6, DeviceStep DEF DeviceInv, VaultInv
<1>6. CASE FirstFetch(d)
  <2>1. chan'[d] = None /\ pc'[d] \in {"save", "repl"} /\ pc[d] = "first_fetch"
    BY <1>6 DEF FirstFetch, Got, Goto, Ask, TypeOk
  <2>2. ExchangeInv(d)' /\ FailureOk(d)'
    BY <1>3, <1>6, <2>1, NoMessage DEF FirstFetch, Waiting, DeviceInv, FailureOk
  <2>3. VaultInv(d)'
    <3>1. CASE Got(d, "first_fetch", "DATA")
      <4>1. /\ local'[d] = chan[d].content /\ version'[d] = chan[d].version
            /\ seen'[d] = {chan[d].version} /\ gone'[d] = gone[d]
            /\ IsVersion(chan[d].version, chan[d].content)
        BY <1>3, <1>6, <3>1 DEF FirstFetch, Got, Asked, MessageOk, DeviceInv, ExchangeInv, TypeOk
      <4>2. GoesOnFrom(version'[d], local'[d], seen'[d], gone'[d]) /\ Past(local'[d]) /\ AllSaved(local'[d])
        BY <1>3, <4>1, VersionIsCopy
      <4>3. HoldsVersion(d)' /\ CacheOk(d)' /\ CleanOk(d)'
        BY <1>1, <1>3, <4>1, <4>2, VersionsUnchanged DEF DeviceInv, VaultInv, HoldsVersion, CacheOk, CleanOk
      <4> QED
        BY <4>3 DEF VaultInv
    <3>2. CASE ~Got(d, "first_fetch", "DATA")
      <4>1. pc'[d] = "repl" /\ UNCHANGED <<version, local, dirty, seen, gone>>
        BY <1>6, <3>2 DEF FirstFetch, Goto, TypeOk
      <4> QED
        BY <1>1, <1>3, <2>1, <4>1, VaultKept DEF DeviceInv, Saving
    <3> QED
      BY <3>1, <3>2
  <2> QED
    BY <1>1, <1>2, <1>3, <2>2, <2>3, DeviceStep DEF DeviceInv
<1> QED
  BY <1>4, <1>5, <1>6

LEMMA CacheSync ==
  ASSUME TypeOk, SyncInv, NEW d \in Devices, OpenCache(d) \/ SaveCache(d) \/ SaveFails(d)
  PROVE  SyncInv'
<1>1. UNCHANGED <<versions, late, now>>
  BY DEF OpenCache, SaveCache, SaveFails
<1>2. \A e \in Devices \ {d} : Same(e)
  BY OthersSame DEF Same, OpenCache, SaveCache, SaveFails, Goto, TypeOk
<1>3. HistoryInv /\ DeviceInv(d) /\ \A r \in late' : PutOk(r) /\ Past(r.content)
  BY <1>1, InvParts DEF HistoryInv
<1>4. pc[d] \in Saving /\ chan[d] = None
  BY <1>3 DEF OpenCache, SaveCache, SaveFails, Saving, DeviceInv, ExchangeInv, InExchange
<1>5. CASE OpenCache(d)
  <2>1. cache'[d] = Torn /\ pc'[d] = "write" /\ chan'[d] = None
    BY <1>4, <1>5 DEF OpenCache, Goto, TypeOk
  <2>2. ExchangeInv(d)' /\ FailureOk(d)'
    BY <1>3, <1>5, <2>1, NoMessage DEF OpenCache, Waiting, DeviceInv, FailureOk
  <2>3. HoldsVersion(d)'
    BY <1>1, <1>3, <1>4, <1>5, <2>1, VersionsUnchanged DEF OpenCache, DeviceInv, VaultInv, HoldsVersion, Saving
  <2>4. CacheOk(d)' /\ CleanOk(d)'
    BY <1>1, <1>3, <1>4, <1>5, <2>1, VersionsUnchanged DEF OpenCache, DeviceInv, VaultInv, CacheOk, CleanOk, Saving
  <2> QED
    BY <1>1, <1>2, <1>3, <2>2, <2>3, <2>4, DeviceStep DEF DeviceInv, VaultInv
<1>6. CASE SaveCache(d)
  <2>1. /\ cache'[d] = [version |-> version[d], content |-> local[d]]
        /\ pc'[d] = "repl" /\ chan'[d] = None /\ UNCHANGED <<version, local, dirty, seen, gone>>
    BY <1>6 DEF SaveCache, Prompt, Goto, Ask, TypeOk
  <2>2. ExchangeInv(d)' /\ FailureOk(d)'
    BY <1>3, <1>6, <2>1, NoMessage DEF SaveCache, Waiting, DeviceInv, FailureOk
  <2>3. HoldsVersion(d)'
    BY <1>1, <1>3, <1>4, <2>1, VersionsUnchanged DEF DeviceInv, VaultInv, HoldsVersion, Saving
  <2>4. CacheOk(d)'
    BY <1>1, <1>3, <1>4, <2>1, VersionsUnchanged DEF DeviceInv, VaultInv, HoldsVersion, CacheOk
  <2>5. CleanOk(d)'
    BY <1>1, <1>3, <1>4, <2>1, VersionsUnchanged DEF DeviceInv, VaultInv, CleanOk, Saving
  <2> QED
    BY <1>1, <1>2, <1>3, <2>2, <2>3, <2>4, <2>5, DeviceStep DEF DeviceInv, VaultInv
<1>7. CASE SaveFails(d)
  <2>1. FailureOk(d)'
    BY <1>7, CausedOk, FailedOk DEF SaveFails, Causes
  <2>2. CASE cmd[d] = None
    BY <1>1, <1>2, <1>3, <1>7, <2>1, <2>2, LoadCacheInv, DeviceStep DEF SaveFails
  <2>3. CASE cmd[d] # None
    <3>1. Prompt(d) /\ UNCHANGED <<version, local, dirty, seen, gone, cache>> /\ pc'[d] = "repl"
      BY <1>7, <2>3 DEF SaveFails, Prompt, Goto, TypeOk
    <3>2. VaultInv(d)'
      BY <1>1, <1>3, <1>4, <3>1, VaultKept DEF DeviceInv, Saving
    <3> QED
      BY <1>1, <1>2, <1>3, <2>1, <3>1, <3>2, PromptInv, DeviceStep
  <2> QED
    BY <2>2, <2>3
<1> QED
  BY <1>5, <1>6, <1>7

-----------------------------------------------------------------------------
\* Editing.

\* What is stamped now is not older than anything the server stores.
LEMMA EditAdvances ==
  ASSUME TypeOk, NEW old \in Content, NEW new \in Content, NEW g, Past(old), Past(new),
         Advances(old, new, g), NEW i \in Ids
  PROVE  /\ \A val \in Vals : Advances(old, Stored(new, i, val, now), g) /\ Past(Stored(new, i, val, now))
         /\ Advances(old, Removed(new, i), g \cup {i}) /\ Past(Removed(new, i))
<1>1. ASSUME NEW val \in Vals
      PROVE  Advances(old, Stored(new, i, val, now), g) /\ Past(Stored(new, i, val, now))
  <2>1. now \in Nat
    BY DEF TypeOk
  <2>2. \A j \in Ids : Stored(new, i, val, now)[j] = IF j = i THEN [val |-> val, ts |-> now] ELSE new[j]
    BY DEF Stored, Content
  <2>3. [val |-> val, ts |-> now] \in Entry /\ [val |-> val, ts |-> now] # Absent
    BY <2>1, AbsentAssumption DEF Entry
  <2>4. Past(Stored(new, i, val, now))
    BY <2>1, <2>2 DEF Past, Present
  <2>5. old[i] # Absent => now >= old[i].ts
    BY <2>1 DEF Past, Present, Content, Entry
  <2>6. Advances(old, Stored(new, i, val, now), g)
    BY <2>2, <2>3, <2>5 DEF Advances
  <2> QED
    BY <2>4, <2>6
<1>2. Advances(old, Removed(new, i), g \cup {i}) /\ Past(Removed(new, i))
  <2>1. \A j \in Ids : Removed(new, i)[j] = IF j = i THEN Absent ELSE new[j]
    BY DEF Removed, Content
  <2> QED
    BY <2>1 DEF Advances, Past, Present
<1> QED
  BY <1>1, <1>2

LEMMA EditSync ==
  ASSUME TypeOk, SyncInv, NEW d \in Devices, Add(d) \/ Edit(d) \/ Remove(d)
  PROVE  SyncInv'
<1>1. /\ Editing(d)
      /\ UNCHANGED <<versions, late, now, link, chan, pc, tries, version, cache, seen, trouble>>
      /\ pc[d] \in Prompts /\ dirty' = [dirty EXCEPT ![d] = TRUE]
  BY DEF Add, Edit, Remove, Editing
<1>2. PICK i \in Ids :
        \/ /\ \E val \in Vals : local' = [local EXCEPT ![d] = Stored(local[d], i, val, now)]
           /\ gone' = gone
        \/ /\ local' = [local EXCEPT ![d] = Removed(local[d], i)]
           /\ gone' = [gone EXCEPT ![d] = gone[d] \cup {i}]
  BY DEF Add, Edit, Remove, Present
<1>3. \A e \in Devices \ {d} : Same(e)
  BY <1>1, <1>2 DEF Same, TypeOk
<1>4. HistoryInv /\ DeviceInv(d) /\ \A r \in late' : PutOk(r) /\ Past(r.content)
  BY <1>1, InvParts DEF HistoryInv
<1>5. local[d] \in Content /\ Past(local[d])
  BY <1>4 DEF TypeOk, DeviceInv, VaultInv, HoldsVersion
<1>6. chan[d] = None
  BY <1>1, <1>4 DEF DeviceInv, ExchangeInv, InExchange, Prompts
<1>7. ExchangeInv(d)' /\ FailureOk(d)'
  BY <1>1, <1>4, <1>6, NoMessage DEF Waiting, Prompts, DeviceInv, FailureOk
<1>8. Past(local'[d])
  <2>1. /\ \A val \in Vals : Past(Stored(local[d], i, val, now))
        /\ Past(Removed(local[d], i))
    <3>1. Advances(EmptyVault, local[d], {}) /\ Past(EmptyVault) /\ EmptyVault \in Content
      BY EmptyVaultOk, EmptyType DEF Advances, EmptyVault
    <3> QED
      BY <1>5, <3>1, EditAdvances
  <2> QED
    BY <1>2, <2>1 DEF TypeOk
<1>9. pc[d] # "offline" => GoesOnFrom(version[d], local'[d], seen[d], gone'[d])
  <2> SUFFICES ASSUME pc[d] # "offline", version[d] # 0
               PROVE  GoesOnFrom(version[d], local'[d], seen[d], gone'[d])
    BY DEF GoesOnFrom
  <2> DEFINE old == versions[version[d]].content
  <2>1. version[d] \in 1..Current /\ version[d] \in seen[d] /\ Advances(old, local[d], gone[d])
    BY <1>4 DEF DeviceInv, VaultInv, HoldsVersion, GoesOnFrom
  <2>2. old \in Content /\ Past(old)
    BY <1>4, <2>1, CurrentType DEF HistoryInv
  <2>3. Advances(old, local'[d], gone'[d])
    <3> HIDE DEF old
    <3>1. /\ \A val \in Vals : Advances(old, Stored(local[d], i, val, now), gone[d])
          /\ Advances(old, Removed(local[d], i), gone[d] \cup {i})
      BY <1>5, <2>1, <2>2, EditAdvances
    <3> QED
      BY <1>2, <3>1 DEF TypeOk
  <2> QED
    BY <2>1, <2>3 DEF GoesOnFrom
<1>10. HoldsVersion(d)'
  BY <1>1, <1>8, <1>9, VersionsUnchanged DEF HoldsVersion, Prompts, Saving
<1>11. CacheOk(d)' /\ CleanOk(d)'
  BY <1>1, <1>4, VersionsUnchanged DEF DeviceInv, VaultInv, CacheOk, CleanOk, TypeOk
<1> QED
  BY <1>1, <1>3, <1>4, <1>7, <1>10, <1>11, DeviceStep DEF DeviceInv, VaultInv

-----------------------------------------------------------------------------
\* Commands up to the session.

LEMMA CommandSync ==
  ASSUME TypeOk, SyncInv, NEW d \in Devices, Command(d) \/ Quit(d)
  PROVE  SyncInv'
<1>1. UNCHANGED <<versions, late, now, cache>>
  BY DEF Command, Quit, EnsureSession
<1>2. HistoryInv /\ DeviceInv(d) /\ \A r \in late' : PutOk(r) /\ Past(r.content)
  BY <1>1, InvParts DEF HistoryInv
<1>3. ASSUME NEW command, EnsureSession(d, command), pc[d] = "repl"
      PROVE  SyncInv'
  <2>1. \A e \in Devices \ {d} : Same(e)
    BY <1>3 DEF Same, EnsureSession, Goto, Ask, TypeOk
  <2>2. chan[d] = None
    BY <1>2, <1>3 DEF DeviceInv, ExchangeInv, InExchange
  <2>3. /\ pc'[d] \in {"connect", "ping"} /\ trouble'[d] = NoTrouble /\ UNCHANGED <<link, version, local, dirty, seen, gone>>
        /\ chan'[d] = None \/ (link[d] = "up" /\ pc'[d] = "ping" /\ chan'[d] = [type |-> "PING"])
    BY <1>3, <2>2 DEF EnsureSession, Goto, Ask, TypeOk
  <2>4. ExchangeInv(d)'
    <3>1. CASE chan'[d] = None
      BY <2>3, <3>1, NoMessage DEF Waiting
    <3>2. CASE link[d] = "up" /\ pc'[d] = "ping" /\ chan'[d] = [type |-> "PING"]
      BY <2>3, <3>2 DEF ExchangeInv, InExchange, MessageOk, CauseKnown, Asked
    <3> QED
      BY <2>3, <3>1, <3>2
  <2>5. FailureOk(d)'
    BY <2>3 DEF FailureOk, NoTrouble
  <2>6. VaultInv(d)'
    BY <1>1, <1>2, <1>3, <2>3, VaultKept DEF DeviceInv, Saving
  <2> QED
    BY <1>1, <1>2, <2>1, <2>4, <2>5, <2>6, DeviceStep DEF DeviceInv
<1>4. CASE Quit(d) /\ PowerOff(d) /\ UNCHANGED trouble
  <2>1. \A e \in Devices \ {d} : Same(e)
    BY <1>1, <1>4, OthersSame DEF Same
  <2>2. FailureOk(d)'
    BY <1>2, <1>4 DEF DeviceInv, FailureOk
  <2> QED
    BY <1>1, <1>2, <1>4, <2>1, <2>2, PowerOffInv, DeviceStep
<1> QED
  BY <1>3, <1>4 DEF Command, Quit

\* A GET, or a first PUT built on version base, or nothing.
LEMMA ProceedInv ==
  ASSUME TypeOk, NEW d \in Devices, NEW base \in Nat, Proceed(d, base),
         UNCHANGED <<versions, now, trouble>>, link'[d] = "up",
         UNCHANGED <<local[d], seen[d], gone[d]>>,
         GoesOnFrom(base, local[d], seen[d], gone[d])
  PROVE  ExchangeInv(d)' /\ pc'[d] \in {"repl", "put", "pull_fetch"}
<1>1. CASE Prompt(d)
  <2>1. pc'[d] = "repl" /\ chan'[d] = None
    BY <1>1 DEF Prompt, Goto, Ask, TypeOk
  <2> QED
    BY <2>1, NoMessage DEF Waiting
<1>2. CASE Ask(d, PutOf(d, base, local[d], seen[d], gone[d]))
           /\ tries' = [tries EXCEPT ![d] = 1] /\ Goto(d, "put")
  <2>1. /\ pc'[d] = "put" /\ tries'[d] = 1
        /\ chan'[d] = PutOf(d, base, local[d], seen[d], gone[d])
    BY <1>2 DEF Ask, Goto, TypeOk
  <2>2. /\ chan'[d].type = "PUT" /\ chan'[d].base = base /\ chan'[d].content = local[d]
        /\ chan'[d].seen = seen[d] /\ chan'[d].gone = gone[d]
    BY <2>1 DEF PutOf
  <2>3. PutOk(chan[d])'
    BY <2>2, VersionsUnchanged DEF PutOk
  <2>4. trouble'[d].rivals \in Nat
    BY DEF TypeOk, Trouble
  <2>5. InExchange(d)' /\ MessageOk(d)'
    BY <2>1, <2>2, <2>3 DEF InExchange, MessageOk, Asked
  <2>6. CauseKnown(d)'
    BY <2>1, <2>2, <2>4 DEF CauseKnown, Asked
  <2> QED
    BY <2>1, <2>5, <2>6 DEF ExchangeInv
<1>3. CASE Ask(d, [type |-> "GET"]) /\ Goto(d, "pull_fetch")
  <2>1. pc'[d] = "pull_fetch" /\ chan'[d] = [type |-> "GET"]
    BY <1>3 DEF Ask, Goto, TypeOk
  <2> QED
    BY <2>1 DEF ExchangeInv, InExchange, MessageOk, CauseKnown, Asked
<1> QED
  BY <1>1, <1>2, <1>3 DEF Proceed

LEMMA SessionSync ==
  ASSUME TypeOk, SyncInv, NEW d \in Devices,
         Pong(d) \/ PingFails(d) \/ Connect(d) \/ Refreshed(d) \/ PullNotFound(d)
  PROVE  SyncInv'
<1>1. UNCHANGED <<versions, late, now, cache, local, dirty, seen, gone, trouble>>
  BY DEF Pong, PingFails, Connect, Refreshed, PullNotFound
<1>2. \A e \in Devices \ {d} : Same(e)
  BY OthersSame DEF Same, Pong, PingFails, Connect, Refreshed, PullNotFound, Proceed, Goto, Ask, TypeOk
<1>3. HistoryInv /\ DeviceInv(d) /\ \A r \in late' : PutOk(r) /\ Past(r.content)
  BY <1>1, InvParts DEF HistoryInv
<1>4. FailureOk(d)'
  BY <1>1, <1>3 DEF DeviceInv, FailureOk
<1>5. CASE Pong(d)
  <2>1. pc[d] = "ping" /\ chan[d] # None /\ Proceed(d, version[d]) /\ UNCHANGED <<link, version>>
    BY <1>5 DEF Pong, Got
  <2>2. link'[d] = "up" /\ GoesOnFrom(version[d], local[d], seen[d], gone[d]) /\ version[d] \in Nat
    BY <1>3, <2>1 DEF DeviceInv, ExchangeInv, InExchange, VaultInv, HoldsVersion, TypeOk
  <2>3. ExchangeInv(d)' /\ pc'[d] \notin Saving
    BY <1>1, <2>1, <2>2, ProceedInv DEF Saving
  <2>4. VaultInv(d)'
    BY <1>1, <1>3, <2>1, <2>3, VaultKept DEF DeviceInv
  <2> QED
    BY <1>1, <1>2, <1>3, <1>4, <2>3, <2>4, DeviceStep DEF DeviceInv
<1>6. CASE PingFails(d)
  <2>1. /\ pc[d] = "ping" /\ pc'[d] = "connect" /\ link[d] = "dead"
        /\ chan'[d] = chan[d] /\ version' = version
    BY <1>6 DEF PingFails, Goto, TypeOk
  <2>2. chan[d] = None
    BY <1>3, <2>1 DEF DeviceInv, ExchangeInv, InExchange
  <2>3. ExchangeInv(d)'
    BY <2>1, <2>2, NoMessage DEF Waiting
  <2>4. VaultInv(d)'
    BY <1>1, <1>3, <2>1, VaultKept DEF DeviceInv, Saving
  <2> QED
    BY <1>1, <1>2, <1>3, <1>4, <2>3, <2>4, DeviceStep DEF DeviceInv
<1>7. CASE Connect(d)
  <2>1. /\ pc[d] = "connect" /\ pc'[d] = "refresh" /\ link'[d] = "up"
        /\ chan'[d] = [type |-> "REFRESH"] /\ version' = version
    BY <1>7 DEF Connect, Goto, Ask, TypeOk
  <2>2. ExchangeInv(d)'
    BY <2>1 DEF ExchangeInv, InExchange, MessageOk, CauseKnown, Asked
  <2>3. VaultInv(d)'
    BY <1>1, <1>3, <2>1, VaultKept DEF DeviceInv, Saving
  <2> QED
    BY <1>1, <1>2, <1>3, <1>4, <2>2, <2>3, DeviceStep DEF DeviceInv
<1>8. CASE Refreshed(d)
  <2>1. /\ pc[d] = "refresh" /\ Asked(d, "AUTH_OK") /\ link' = link
        /\ version'[d] = chan[d].version /\ Proceed(d, chan[d].version)
    BY <1>8 DEF Refreshed, Got, Asked, TypeOk
  <2>2. chan[d].version = 0 /\ link'[d] = "up"
    BY <1>3, <2>1 DEF DeviceInv, ExchangeInv, MessageOk, InExchange, Asked
  <2>3. ExchangeInv(d)' /\ pc'[d] \in {"repl", "put", "pull_fetch"}
    BY <1>1, <2>1, <2>2, ProceedInv DEF GoesOnFrom
  <2>4. HoldsVersion(d)'
    BY <1>1, <1>3, <2>1, <2>2, <2>3, VersionsUnchanged DEF DeviceInv, VaultInv, HoldsVersion, GoesOnFrom, Saving
  <2>5. CacheOk(d)' /\ CleanOk(d)'
    BY <1>1, <1>3, <2>1, VersionsUnchanged DEF DeviceInv, VaultInv, CacheOk, CleanOk
  <2> QED
    BY <1>1, <1>2, <1>3, <1>4, <2>3, <2>4, <2>5, DeviceStep DEF DeviceInv, VaultInv
<1>9. CASE PullNotFound(d)
  <2>1. Prompt(d) /\ pc[d] = "pull_fetch" /\ version' = version /\ pc'[d] = "repl"
    BY <1>9 DEF PullNotFound, Got, Prompt, Goto, TypeOk
  <2>2. VaultInv(d)'
    BY <1>1, <1>3, <2>1, VaultKept DEF DeviceInv, Saving
  <2> QED
    BY <1>1, <1>2, <1>3, <1>4, <2>1, <2>2, PromptInv, DeviceStep
<1> QED
  BY <1>5, <1>6, <1>7, <1>8, <1>9

LEMMA FailureSync ==
  ASSUME TypeOk, SyncInv, NEW d \in Devices, ConnectFails(d) \/ RefreshRefused(d) \/ CommandBreaks(d)
  PROVE  SyncInv'
<1>1. UNCHANGED <<versions, late, now, cache>>
  BY DEF ConnectFails, RefreshRefused, CommandBreaks
<1>2. HistoryInv /\ DeviceInv(d) /\ \A r \in late' : PutOk(r) /\ Past(r.content)
  BY <1>1, InvParts DEF HistoryInv
<1>3. PICK why \in Trouble : CommandFails(d, why) /\ why.causes # {}
  <2>1. CASE ConnectFails(d) \/ RefreshRefused(d)
    BY <2>1, CausedOk DEF ConnectFails, RefreshRefused, Causes
  <2>2. CASE CommandBreaks(d)
    BY <1>2, <2>2 DEF CommandBreaks, DeviceInv, ExchangeInv, CauseKnown, CommandPcs, TypeOk
  <2> QED
    BY <2>1, <2>2
<1>4. pc[d] \in CommandPcs \cup {"connect"}
  BY DEF ConnectFails, RefreshRefused, CommandBreaks, Got, CommandPcs, Waiting
<1>5. \A e \in Devices \ {d} : link'[e] = link[e]
  <2>1. CASE cmd[d] = "quit"
    BY <1>3, <2>1, OthersSame DEF CommandFails
  <2>2. CASE cmd[d] # "quit"
    BY <2>2 DEF ConnectFails, RefreshRefused, CommandBreaks, TypeOk
  <2> QED
    BY <2>1, <2>2
<1>6. \A e \in Devices \ {d} : Same(e)
  BY <1>1, <1>3, <1>5, OthersSame DEF Same
<1> QED
  BY <1>1, <1>2, <1>3, <1>4, <1>6, CommandFailsInv, DeviceStep

-----------------------------------------------------------------------------
\* Putting, and merging after a fetch.

LEMMA PutSync ==
  ASSUME TypeOk, SyncInv, NEW d \in Devices, PutAcked(d) \/ PutConflict(d)
  PROVE  SyncInv'
<1>1. UNCHANGED <<versions, late, now, cache, trouble>> /\ pc[d] = "put" /\ chan[d] # None
  BY DEF PutAcked, PutConflict, Got
<1>2. \A e \in Devices \ {d} : Same(e)
  BY OthersSame DEF Same, PutAcked, PutConflict, Goto, Ask, TypeOk
<1>3. HistoryInv /\ DeviceInv(d) /\ \A r \in late' : PutOk(r) /\ Past(r.content)
  BY <1>1, InvParts DEF HistoryInv
<1>4. FailureOk(d)'
  BY <1>1, <1>3 DEF DeviceInv, FailureOk
<1>5. CASE PutAcked(d) /\ PowerOff(d)
  BY <1>1, <1>2, <1>3, <1>4, <1>5, PowerOffInv, DeviceStep
<1>6. CASE PutAcked(d) /\ ~PowerOff(d)
  <2>1. /\ version'[d] = chan[d].version /\ seen'[d] = seen[d] \cup {chan[d].version}
        /\ pc'[d] = "save" /\ chan'[d] = None /\ UNCHANGED <<local, gone>>
        /\ Asked(d, "ACK")
    BY <1>6 DEF PutAcked, Ask, Goto, Got, Asked, TypeOk
  <2>2. IsVersion(version'[d], local[d])
    BY <1>3, <2>1 DEF DeviceInv, ExchangeInv, MessageOk
  <2>3. /\ GoesOnFrom(version'[d], local[d], seen'[d], gone[d])
        /\ Past(local[d]) /\ AllSaved(local[d])
    BY <1>3, <2>1, <2>2, VersionIsCopy
  <2>4. VaultInv(d)'
    BY <1>1, <1>3, <2>1, <2>2, <2>3, VersionsUnchanged DEF DeviceInv, VaultInv, HoldsVersion, CacheOk, CleanOk
  <2>5. ExchangeInv(d)'
    BY <2>1, NoMessage DEF Waiting
  <2> QED
    BY <1>1, <1>2, <1>3, <1>4, <2>4, <2>5, DeviceStep DEF DeviceInv
<1>7. CASE PutConflict(d)
  <2>1. /\ pc'[d] = "conflict_fetch" /\ chan'[d] = [type |-> "GET"] /\ UNCHANGED <<link, tries>>
        /\ Asked(d, "CONFLICT") /\ UNCHANGED <<version, local, dirty, seen, gone>>
    BY <1>7 DEF PutConflict, Ask, Goto, Got, Asked, TypeOk
  <2>2. link[d] = "up" /\ trouble[d].rivals + 1 >= tries[d]
    BY <1>1, <1>3, <2>1 DEF DeviceInv, ExchangeInv, InExchange, CauseKnown
  <2>3. ExchangeInv(d)'
    BY <1>1, <2>1, <2>2 DEF ExchangeInv, InExchange, MessageOk, CauseKnown, Asked
  <2>4. VaultInv(d)'
    BY <1>1, <1>3, <2>1, VaultKept DEF DeviceInv, Saving
  <2> QED
    BY <1>1, <1>2, <1>3, <1>4, <2>3, <2>4, DeviceStep DEF DeviceInv
<1> QED
  BY <1>5, <1>6, <1>7

\* What merge_from makes of a version goes on from it, whatever it is merged into.
LEMMA MergeAdvances ==
  ASSUME TypeOk, NEW l \in Content, NEW s \in Content, NEW g
  PROVE  /\ Advances(s, MergeFrom(l, s), g)
         /\ Past(l) /\ Past(s) => Past(MergeFrom(l, s))
         /\ AllSaved(l) /\ AllSaved(s) => AllSaved(MergeFrom(l, s))
<1> DEFINE m == MergeFrom(l, s)
<1>1. \A i \in Ids : m[i] = s[i] \/ m[i] = l[i]
  BY DEF MergeFrom
<1>2. Advances(s, m, g)
  <2> SUFFICES ASSUME NEW i \in Ids, s[i] # Absent
               PROVE  m[i] # Absent /\ (m[i].val # s[i].val => m[i].ts >= s[i].ts)
    BY DEF Advances
  <2>1. m[i] # Absent
    BY MergeKeepsEntries DEF Present
  <2>2. ASSUME m[i].val # s[i].val PROVE m[i].ts >= s[i].ts
    <3>1. m[i] = l[i] /\ l[i] # Absent /\ l[i].ts > s[i].ts
      BY <2>2, MergeNeverBeatenByOlder
    <3>2. l[i].ts \in Nat /\ s[i].ts \in Nat
      BY <3>1 DEF Content, Entry
    <3> QED
      BY <3>1, <3>2
  <2> QED
    BY <2>1, <2>2
<1>3. Past(l) /\ Past(s) => Past(m)
  BY <1>1 DEF Past, Present
<1>4. AllSaved(l) /\ AllSaved(s) => AllSaved(m)
  BY <1>1 DEF AllSaved, Present
<1> QED
  BY <1>2, <1>3, <1>4

LEMMA MergeFetchedInv ==
  ASSUME TypeOk, HistoryInv, NEW d \in Devices, DeviceInv(d), MergeFetched(d), Asked(d, "DATA"),
         UNCHANGED <<versions, now, cache, dirty>>, pc[d] # "offline",
         pc'[d] \notin Saving
  PROVE  /\ VaultInv(d)'
         /\ GoesOnFrom(version'[d], local'[d], seen'[d], gone'[d])
         /\ version'[d] = chan[d].version
<1> DEFINE n == chan[d].version
           s == chan[d].content
<1>1. IsVersion(n, s)
  BY DEF DeviceInv, ExchangeInv, MessageOk
<1>2. s \in Content /\ Past(s) /\ n \in 1..Current /\ AllSaved(s)
  <2>1. versions[n].content = s /\ n \in 1..Current
    BY <1>1 DEF IsVersion
  <2> HIDE DEF n, s
  <2> QED
    BY <2>1, CurrentType DEF HistoryInv, AllSaved
<1>3. /\ version'[d] = n /\ local'[d] = MergeFrom(local[d], s)
      /\ seen'[d] = seen[d] \cup {n}
  BY DEF MergeFetched, Merged, TypeOk
<1>4. local[d] \in Content /\ Past(local[d]) /\ (~dirty[d] => AllSaved(local[d]))
  BY DEF TypeOk, DeviceInv, VaultInv, HoldsVersion, CleanOk
<1> HIDE DEF n, s
<1>5. /\ Advances(s, local'[d], gone'[d]) /\ Past(local'[d])
      /\ ~dirty[d] => AllSaved(local'[d])
  BY <1>2, <1>3, <1>4, MergeAdvances
<1>6. GoesOnFrom(n, local'[d], seen'[d], gone'[d])
  BY <1>1, <1>3, <1>5 DEF GoesOnFrom, IsVersion
<1>7. HoldsVersion(d)'
  BY <1>3, <1>5, <1>6, VersionsUnchanged DEF HoldsVersion
<1>8. CacheOk(d)' /\ CleanOk(d)'
  BY <1>5, VersionsUnchanged DEF DeviceInv, VaultInv, CacheOk, CleanOk
<1> QED
  BY <1>3, <1>6, <1>7, <1>8 DEF VaultInv, n

LEMMA FetchedSync ==
  ASSUME TypeOk, SyncInv, NEW d \in Devices, ConflictFetched(d) \/ PullFetched(d)
  PROVE  SyncInv'
<1>1. /\ UNCHANGED <<versions, late, now, cache>>
      /\ pc[d] \in {"conflict_fetch", "pull_fetch"} /\ chan[d] # None /\ Asked(d, "DATA")
  BY DEF ConflictFetched, PullFetched, Got, Asked
<1>2. \A e \in Devices \ {d} : Same(e)
  BY OthersSame DEF Same, ConflictFetched, PullFetched, Goto, Ask, TypeOk
<1>3. HistoryInv /\ DeviceInv(d) /\ \A r \in late' : PutOk(r) /\ Past(r.content)
  BY <1>1, InvParts DEF HistoryInv
<1>4. /\ trouble[d] \in Trouble /\ trouble[d].rivals \in Nat /\ tries[d] \in 0..3 /\ Current \in Nat
  BY CurrentType DEF TypeOk, Trouble
<1>5. CASE ConflictFetched(d)
  <2>1. /\ pc[d] = "conflict_fetch" /\ link[d] = "up"
        /\ trouble[d].rivals + 1 >= tries[d]
        /\ chan[d].version # Current => trouble[d].rivals >= tries[d]
    BY <1>1, <1>3, <1>5 DEF ConflictFetched, Got, DeviceInv, ExchangeInv, InExchange, CauseKnown
  <2>2. CASE /\ MergeFetched(d) /\ tries[d] < 3
             /\ Ask(d, PutOf(d, version'[d], local'[d], seen'[d], gone'[d]))
             /\ tries' = [tries EXCEPT ![d] = @ + 1] /\ Goto(d, "put")
             /\ UNCHANGED <<link, cmd, dirty, trouble>>
    <3>1. /\ pc'[d] = "put" /\ tries'[d] = tries[d] + 1 /\ link'[d] = "up"
          /\ chan'[d] = PutOf(d, version'[d], local'[d], seen'[d], gone'[d])
      BY <2>1, <2>2 DEF Ask, Goto, TypeOk
    <3>2. /\ VaultInv(d)' /\ GoesOnFrom(version'[d], local'[d], seen'[d], gone'[d])
          /\ version'[d] = chan[d].version
      BY <1>1, <1>3, <2>1, <2>2, <3>1, MergeFetchedInv DEF Saving
    <3>3. /\ chan'[d].type = "PUT" /\ chan'[d].base = version'[d] /\ chan'[d].content = local'[d]
          /\ chan'[d].seen = seen'[d] /\ chan'[d].gone = gone'[d]
      BY <3>1 DEF PutOf
    <3>4. PutOk(chan[d])'
      BY <1>1, <3>2, <3>3, VersionsUnchanged DEF PutOk
    <3>5. InExchange(d)' /\ MessageOk(d)'
      BY <3>1, <3>3, <3>4 DEF InExchange, MessageOk, Asked
    <3>6. Accepts(chan[d])' <=> chan[d].version = Current
      BY <1>1, <3>2, <3>3, VersionsUnchanged DEF Accepts
    <3>7. CauseKnown(d)'
      BY <1>4, <2>1, <2>2, <3>1, <3>3, <3>6 DEF CauseKnown, Asked
    <3>8. FailureOk(d)'
      BY <1>3, <2>2 DEF DeviceInv, FailureOk
    <3> QED
      BY <1>1, <1>2, <1>3, <3>2, <3>5, <3>7, <3>8, DeviceStep DEF DeviceInv, ExchangeInv
  <2>3. CASE tries[d] = 3 /\ trouble' = [trouble EXCEPT ![d].failed = TRUE]
    <3>1. FailureOk(d)'
      <4>1. trouble[d].rivals >= 2
        BY <1>4, <2>1, <2>3
      <4> QED
        BY <1>4, <2>3, <4>1, FailedOk
    <3>2. CASE MergeFetched(d) /\ Prompt(d) /\ UNCHANGED <<link, dirty>>
      <4>1. pc'[d] = "repl"
        BY <3>2 DEF Prompt, Goto, TypeOk
      <4>2. VaultInv(d)'
        BY <1>1, <1>3, <2>1, <3>2, <4>1, MergeFetchedInv DEF Saving
      <4> QED
        BY <1>1, <1>2, <1>3, <3>1, <3>2, <4>2, PromptInv, DeviceStep
    <3>3. CASE PowerOff(d)
      BY <1>1, <1>2, <1>3, <3>1, <3>3, PowerOffInv, DeviceStep
    <3> QED
      BY <1>5, <2>3, <3>2, <3>3 DEF ConflictFetched
  <2> QED
    BY <1>5, <2>2, <2>3 DEF ConflictFetched
<1>6. CASE PullFetched(d)
  <2>1. MergeFetched(d) /\ Prompt(d) /\ UNCHANGED <<link, dirty, trouble>> /\ pc'[d] = "repl"
    BY <1>6 DEF PullFetched, Prompt, Goto, TypeOk
  <2>2. VaultInv(d)'
    BY <1>1, <1>3, <2>1, MergeFetchedInv DEF Saving
  <2>3. FailureOk(d)'
    BY <1>3, <2>1 DEF DeviceInv, FailureOk
  <2> QED
    BY <1>1, <1>2, <1>3, <2>1, <2>2, <2>3, PromptInv, DeviceStep
<1> QED
  BY <1>5, <1>6

-----------------------------------------------------------------------------
\* The environment.

LEMMA EnvironmentSync ==
  ASSUME TypeOk, SyncInv, NEW d \in Devices, LinkBreaks(d) \/ Kill(d) \/ TokenExpires(d)
  PROVE  SyncInv'
<1>1. UNCHANGED <<versions, now, cache>>
  BY DEF LinkBreaks, Kill, TokenExpires
<1>2. \A e \in Devices \ {d} : Same(e)
  BY OthersSame DEF Same, LinkBreaks, Kill, TokenExpires, TypeOk
<1>3. HistoryInv /\ DeviceInv(d)
  BY InvParts
<1>4. \A r \in late' : PutOk(r) /\ Past(r.content)
  <2>1. late' = late \/ (Asked(d, "PUT") /\ late' = late \cup {chan[d]})
    BY DEF LinkBreaks, Kill, TokenExpires, Strand
  <2>2. Asked(d, "PUT") => PutOk(chan[d]) /\ Past(chan[d].content)
    BY <1>3 DEF DeviceInv, ExchangeInv, MessageOk, VaultInv, HoldsVersion
  <2> QED
    BY <1>3, <2>1, <2>2 DEF HistoryInv
<1>5. CASE LinkBreaks(d)
  <2>1. /\ chan'[d] = None /\ UNCHANGED <<pc, version, local, dirty, seen, gone>>
        /\ trouble'[d] = IF pc[d] \in Waiting THEN Caused(d, "link") ELSE trouble[d]
    BY <1>5 DEF LinkBreaks, TypeOk
  <2>2. "link" \in Causes /\ trouble[d] \in Trouble
    BY DEF Causes, TypeOk
  <2>3. Caused(d, "link").causes # {} /\ trouble'[d].failed = trouble[d].failed
    BY <2>1, <2>2, CausedOk DEF Caused, Trouble
  <2>4. ExchangeInv(d)'
    BY <2>1, <2>3, NoMessage
  <2>5. FailureOk(d)'
    BY <1>3, <2>1, <2>3 DEF DeviceInv, FailureOk
  <2>6. VaultInv(d)'
    BY <1>1, <1>3, <2>1, VersionsUnchanged DEF DeviceInv, VaultInv, HoldsVersion, CacheOk, CleanOk
  <2> QED
    BY <1>1, <1>2, <1>4, <2>4, <2>5, <2>6, DeviceStep DEF DeviceInv
<1>6. CASE Kill(d)
  <2>1. FailureOk(d)'
    BY <1>6 DEF Kill, FailureOk, NoTrouble, TypeOk
  <2> QED
    BY <1>1, <1>2, <1>3, <1>4, <1>6, <2>1, PowerOffInv, DeviceStep DEF Kill
<1>7. CASE TokenExpires(d)
  <2>1. Same(d)
    BY <1>7 DEF TokenExpires, Same
  <2> QED
    BY <1>1, <1>2, <1>3, <1>4, <2>1, SameKeepsInv, DeviceStep
<1> QED
  BY <1>5, <1>6, <1>7

-----------------------------------------------------------------------------
\* The server.

\* An accepted PUT continues the history, whoever waits for its answer; the devices
\* it beats count it.
LEMMA AcceptKeeps ==
  ASSUME TypeOk, SyncInv, NEW r \in PutRequest, Accepts(r), PutOk(r), Past(r.content),
         NEW beaten, Accept(r, beaten), UNCHANGED <<late, now>>
  PROVE  /\ Current' = Current + 1
         /\ \A n \in 1..Current : versions'[n] = versions[n]
         /\ versions'[Current + 1].content = r.content
         /\ HistoryInv'
<1> DEFINE v == [by |-> r.by, content |-> r.content, seen |-> r.seen, gone |-> r.gone]
<1>1. versions \in Seq(Version) /\ v \in Version /\ versions' = Append(versions, v) /\ Current \in Nat
  BY CurrentType DEF TypeOk, Accept, PutRequest, Version
<1>2. v.content = r.content /\ v.seen = r.seen /\ v.gone = r.gone
  OBVIOUS
<1> HIDE DEF v
<1>3. Current' = Current + 1 /\ (\A n \in 1..Current : versions'[n] = versions[n]) /\ versions'[Current + 1] = v
  BY <1>1 DEF Current
<1>4. HistoryInv /\ Current \in Nat
  BY InvParts, CurrentType
<1>5. \A q \in late' : PutOk(q)' /\ Past(q.content)'
  <2> SUFFICES ASSUME NEW q \in late
               PROVE  PutOk(q)' /\ Past(q.content)'
    OBVIOUS
  <2>1. PutOk(q) /\ Past(q.content)
    BY <1>4 DEF HistoryInv
  <2>2. Past(q.content)'
    BY <2>1 DEF Past
  <2>3. PutOk(q)'
    <3> SUFFICES ASSUME q.base # 0
                 PROVE  /\ q.base \in 1..Current' /\ q.base \in q.seen
                        /\ Advances(versions'[q.base].content, q.content, q.gone)
      BY DEF PutOk, GoesOnFrom
    <3>1. q.base \in 1..Current /\ q.base \in q.seen /\ Advances(versions[q.base].content, q.content, q.gone)
      BY <2>1 DEF PutOk, GoesOnFrom
    <3>2. q.base \in 1..Current' /\ versions'[q.base] = versions[q.base]
      BY <1>3, <1>4, <3>1
    <3> QED
      BY <3>1, <3>2
  <2> QED
    BY <2>2, <2>3
<1>6. (\A n \in 1..Current : Past(versions[n].content))'
  <2> SUFFICES ASSUME NEW n \in 1..Current'
               PROVE  Past(versions[n].content)'
    OBVIOUS
  <2>1. (Past(versions[n].content) /\ versions'[n] = versions[n]) \/ versions'[n] = v
    BY <1>3, <1>4 DEF HistoryInv
  <2> QED
    BY <1>2, <2>1 DEF Past
<1>7. WriterHadMerged' /\ EntriesOnlyAdvance'
  <2> SUFFICES ASSUME NEW n \in 2..Current'
               PROVE  /\ n - 1 \in versions'[n].seen
                      /\ Advances(versions'[n - 1].content, versions'[n].content, versions'[n].gone)
    BY DEF WriterHadMerged, EntriesOnlyAdvance
  <2>1. CASE n \in 2..Current
    <3>1. n \in 1..Current /\ n - 1 \in 1..Current
      BY <1>1, <2>1
    <3>2. versions'[n] = versions[n] /\ versions'[n - 1] = versions[n - 1]
      BY <1>3, <3>1
    <3> QED
      BY <1>4, <2>1, <3>2 DEF HistoryInv, WriterHadMerged, EntriesOnlyAdvance
  <2>2. CASE n = Current + 1 /\ Current # 0
    <3>1. n - 1 = r.base /\ r.base \in 1..Current
      BY <1>1, <2>2 DEF Accepts
    <3>2. r.base \in r.seen /\ Advances(versions[r.base].content, r.content, r.gone)
      BY <1>1, <3>1 DEF PutOk, GoesOnFrom
    <3> QED
      BY <1>2, <1>3, <2>2, <3>1, <3>2
  <2> QED
    BY <1>3, <1>4, <2>1, <2>2
<1> QED
  BY <1>2, <1>3, <1>5, <1>6, <1>7 DEF HistoryInv

\* For a device that is not the one whose PUT was accepted.
LEMMA AcceptKeepsDevice ==
  ASSUME TypeOk, SyncInv, NEW r \in PutRequest, Accepts(r), PutOk(r), Past(r.content),
         NEW beaten, Accept(r, beaten), UNCHANGED <<late, now>>,
         NEW e \in Devices, e \in beaten \/ chan[e] = None,
         UNCHANGED <<link[e], chan[e], pc[e], tries[e], version[e], local[e], dirty[e], cache[e],
                     seen[e], gone[e]>>
  PROVE  DeviceInv(e)'
<1>1. Current' = Current + 1 /\ Current \in Nat /\ \A n \in 1..Current : versions'[n] = versions[n]
  BY AcceptKeeps, CurrentType
<1>2. /\ \A n, c : IsVersion(n, c) => IsVersion(n, c)'
      /\ \A n, c, m, g : GoesOnFrom(n, c, m, g) => GoesOnFrom(n, c, m, g)'
      /\ \A c : AllSaved(c) => AllSaved(c)'
      /\ \A c : Past(c) => Past(c)'
  <2>1. \A n \in 1..Current : n \in 1..Current'
    BY <1>1
  <2> QED
    BY <1>1, <2>1 DEF IsVersion, GoesOnFrom, AllSaved, Past
<1>3. DeviceInv(e) /\ trouble[e] \in Trouble /\ trouble[e].rivals \in Nat /\ tries[e] \in 0..3
  BY InvParts DEF TypeOk, Trouble
<1>4. VaultInv(e)'
  <2>1. HoldsVersion(e)'
    BY <1>2, <1>3 DEF DeviceInv, VaultInv, HoldsVersion
  <2>2. CacheOk(e)' /\ CleanOk(e)'
    BY <1>2, <1>3 DEF DeviceInv, VaultInv, CacheOk, CleanOk
  <2> QED
    BY <2>1, <2>2 DEF VaultInv
<1>5. /\ trouble'[e].causes = trouble[e].causes /\ trouble'[e].failed = trouble[e].failed
      /\ trouble'[e].rivals = trouble[e].rivals \/ trouble'[e].rivals = trouble[e].rivals + 1
      /\ e \in beaten /\ InCommand(e) => trouble'[e].rivals = trouble[e].rivals + 1
  BY <1>3 DEF Accept, Trouble
<1>6. FailureOk(e)'
  BY <1>3, <1>5 DEF DeviceInv, FailureOk
<1>7. InExchange(e)'
  BY <1>3 DEF DeviceInv, ExchangeInv, InExchange
<1>8. MessageOk(e)'
  BY <1>2, <1>3 DEF DeviceInv, ExchangeInv, MessageOk, Asked, PutOk
<1>9. CauseKnown(e)'
  <2>1. CASE chan[e] = None
    BY <1>3, <1>5, <2>1 DEF DeviceInv, ExchangeInv, CauseKnown, Asked
  <2>2. CASE chan[e] # None /\ e \in beaten
    <3>1. Asked(e, "PUT") \/ pc[e] = "conflict_fetch" => InCommand(e)
      BY <1>3, <2>2 DEF DeviceInv, ExchangeInv, InExchange, Asked, InCommand, CommandPcs, Waiting
    <3>2. \A type : Asked(e, type)' = Asked(e, type)
      BY DEF Asked
    <3>3. Asked(e, "PUT") => trouble[e].rivals + 2 >= tries[e] /\ trouble'[e].rivals = trouble[e].rivals + 1
      BY <1>3, <1>5, <2>2, <3>1 DEF DeviceInv, ExchangeInv, CauseKnown
    <3>4. pc[e] = "conflict_fetch" /\ Asked(e, "DATA") =>
            trouble[e].rivals + 1 >= tries[e] /\ trouble'[e].rivals = trouble[e].rivals + 1
      BY <1>3, <1>5, <2>2, <3>1 DEF DeviceInv, ExchangeInv, CauseKnown
    <3>5. Asked(e, "CONFLICT") \/ (pc[e] = "conflict_fetch" /\ Asked(e, "GET")) =>
            trouble[e].rivals + 1 >= tries[e]
      BY <1>3 DEF DeviceInv, ExchangeInv, CauseKnown
    <3>6. pc[e] \in Waiting \ {"ping"} /\ link[e] # "up" => trouble[e].causes # {}
      BY <1>3 DEF DeviceInv, ExchangeInv, CauseKnown
    <3> QED
      BY <1>3, <1>5, <3>2, <3>3, <3>4, <3>5, <3>6 DEF CauseKnown
  <2> QED
    BY <2>1, <2>2
<1> QED
  BY <1>4, <1>6, <1>7, <1>8, <1>9 DEF DeviceInv, ExchangeInv

LEMMA ServeLateSync ==
  ASSUME TypeOk, SyncInv, ServeLate
  PROVE  SyncInv'
<1>1. PICK r \in late : Accepts(r) /\ Accept(r, Devices)
  BY DEF ServeLate
<1>2. r \in PutRequest /\ PutOk(r) /\ Past(r.content)
  BY InvParts DEF TypeOk, HistoryInv
<1>3. UNCHANGED <<late, now, link, chan, pc, tries, version, local, dirty, cache, seen, gone>>
  BY DEF ServeLate
<1>4. HistoryInv'
  BY <1>1, <1>2, <1>3, AcceptKeeps
<1>5. \A e \in Devices : DeviceInv(e)'
  BY <1>1, <1>2, <1>3, AcceptKeepsDevice
<1> QED
  BY <1>4, <1>5, InvPartsPrimed

LEMMA ServePutSync ==
  ASSUME TypeOk, SyncInv, NEW d \in Devices, Asked(d, "PUT"), Accepts(chan[d]),
         Accept(chan[d], Devices \ {d}), Answer(d, [type |-> "ACK", version |-> Current + 1]),
         UNCHANGED <<late, link, pc, tries, version, local, dirty, cache, seen, gone, now>>
  PROVE  SyncInv'
<1> DEFINE r == chan[d]
<1>1. r \in PutRequest
  BY MessageKind DEF Asked, TypeOk
<1>2. PutOk(r) /\ Past(r.content) /\ r.content = local[d] /\ pc[d] = "put" /\ link[d] = "up"
  BY InvParts DEF DeviceInv, ExchangeInv, MessageOk, InExchange, Asked, VaultInv, HoldsVersion
<1>3. /\ HistoryInv' /\ Current' = Current + 1 /\ versions'[Current + 1].content = r.content
      /\ \A n \in 1..Current : versions'[n] = versions[n]
  BY <1>1, <1>2, AcceptKeeps
<1>4. \A e \in Devices \ {d} : DeviceInv(e)'
  BY <1>1, <1>2, AcceptKeepsDevice DEF Answer, TypeOk
<1>5. DeviceInv(d)'
  <2>1. chan'[d] = [type |-> "ACK", version |-> Current + 1] /\ UNCHANGED trouble[d]
    BY DEF Answer, Accept, TypeOk
  <2>2. Current + 1 \in 1..Current' /\ versions'[Current + 1].content = local'[d]
    BY <1>2, <1>3, CurrentType
  <2>3. ExchangeInv(d)'
    BY <1>2, <2>1, <2>2 DEF ExchangeInv, InExchange, MessageOk, CauseKnown, Asked, IsVersion
  <2>4. FailureOk(d)'
    BY <2>1, InvParts DEF DeviceInv, FailureOk
  <2>5. VaultInv(d)'
    <3>1. Current \in Nat /\ \A n \in 1..Current : n \in 1..Current'
      BY <1>3, CurrentType
    <3>2. VaultInv(d)
      BY InvParts DEF DeviceInv
    <3>3. HoldsVersion(d)'
      BY <1>2, <1>3, <3>1, <3>2 DEF VaultInv, HoldsVersion, GoesOnFrom, Saving, Past
    <3>4. CacheOk(d)' /\ CleanOk(d)'
      BY <1>3, <3>1, <3>2 DEF VaultInv, CacheOk, CleanOk, IsVersion, AllSaved
    <3> QED
      BY <3>3, <3>4 DEF VaultInv
  <2> QED
    BY <2>3, <2>4, <2>5 DEF DeviceInv
<1> QED
  BY <1>3, <1>4, <1>5, InvPartsPrimed

\* A request that changes no vault.
LEMMA ServeSync ==
  ASSUME TypeOk, SyncInv, NEW d \in Devices, Serve(d)
  PROVE  SyncInv'
<1>1. UNCHANGED <<late, link, pc, tries, version, local, dirty, cache, seen, gone, now>>
  BY DEF Serve
<1>2. CASE Asked(d, "PUT") /\ Accepts(chan[d]) /\ Accept(chan[d], Devices \ {d})
             /\ Answer(d, [type |-> "ACK", version |-> Current + 1])
  BY <1>1, <1>2, ServePutSync
<1>3. ASSUME UNCHANGED <<versions, trouble>>, NEW m, Answer(d, m), ExchangeInv(d)'
      PROVE  SyncInv'
  <2>1. HistoryInv /\ DeviceInv(d) /\ \A r \in late' : PutOk(r) /\ Past(r.content)
    BY <1>1, InvParts DEF HistoryInv
  <2>2. \A e \in Devices \ {d} : Same(e)
    BY <1>1, <1>3 DEF Same, Answer, TypeOk
  <2>3. VaultInv(d)' /\ FailureOk(d)'
    BY <1>1, <1>3, <2>1, VersionsUnchanged
       DEF DeviceInv, VaultInv, HoldsVersion, CacheOk, CleanOk, FailureOk
  <2> QED
    BY <1>1, <1>3, <2>1, <2>2, <2>3, DeviceStep DEF DeviceInv
<1>4. ExchangeInv(d)
  BY InvParts DEF DeviceInv
<1>5. CASE ServeLogin(d) \/ ServeRefresh(d) \/ ServePing(d)
  <2>1. PICK m : /\ Answer(d, m)
                 /\ \/ m = [type |-> "PONG"] /\ Asked(d, "PING")
                    \/ /\ m \in {AuthOk, [type |-> "AUTH_FAIL"]}
                       /\ Asked(d, "LOGIN") \/ Asked(d, "BAD_LOGIN") \/ Asked(d, "REFRESH")
    <3>1. CASE ServePing(d)
      BY <3>1 DEF ServePing
    <3>2. CASE ServeLogin(d)
      BY <3>2 DEF ServeLogin
    <3>3. CASE ServeRefresh(d)
      BY <3>3 DEF ServeRefresh
    <3> QED
      BY <1>5, <3>1, <3>2, <3>3
  <2>2. chan'[d] = m /\ UNCHANGED <<versions, trouble>>
    BY <1>5, <2>1 DEF ServeLogin, ServeRefresh, ServePing, Answer, TypeOk
  <2>3. \/ m.type = "PONG" /\ Asked(d, "PING")
        \/ /\ m.type = "AUTH_FAIL" \/ (m.type = "AUTH_OK" /\ m.version = 0)
           /\ Asked(d, "LOGIN") \/ Asked(d, "BAD_LOGIN") \/ Asked(d, "REFRESH")
    BY <2>1 DEF AuthOk, AuthOkVersion
  <2>4. ExchangeInv(d)'
    BY <1>1, <1>4, <2>2, <2>3 DEF ExchangeInv, InExchange, MessageOk, CauseKnown, Asked
  <2> QED
    BY <1>3, <2>1, <2>2, <2>4
<1>6. CASE ServeGet(d)
  <2> DEFINE m == IF Current = 0 THEN [type |-> "NOT_FOUND"]
                  ELSE [type |-> "DATA", version |-> Current, content |-> versions[Current].content]
  <2>1. Asked(d, "GET") /\ Answer(d, m) /\ UNCHANGED <<versions, trouble>> /\ chan'[d] = m
    BY <1>6 DEF ServeGet, Answer, TypeOk
  <2>2. /\ m.type \in {"NOT_FOUND", "DATA"}
        /\ m.type = "DATA" => m.version = Current /\ IsVersion(m.version, m.content)
    BY CurrentType DEF IsVersion
  <2> HIDE DEF m
  <2>3. Current' = Current
    BY <2>1 DEF Current
  <2>4. pc[d] = "conflict_fetch" => trouble[d].rivals + 1 >= tries[d]
    BY <1>4, <2>1 DEF ExchangeInv, CauseKnown
  <2>5. InExchange(d)' /\ MessageOk(d)'
    BY <1>1, <1>4, <2>1, <2>2, VersionsUnchanged DEF ExchangeInv, InExchange, MessageOk, Asked
  <2>6. CauseKnown(d)'
    BY <1>1, <1>4, <2>1, <2>2, <2>3, <2>4 DEF ExchangeInv, InExchange, CauseKnown, Asked
  <2> QED
    BY <1>3, <2>1, <2>5, <2>6 DEF ExchangeInv
<1>7. CASE Asked(d, "PUT") /\ ~Accepts(chan[d]) /\ Answer(d, [type |-> "CONFLICT"])
             /\ UNCHANGED <<versions, trouble>>
  <2>1. chan'[d] = [type |-> "CONFLICT"] /\ pc[d] = "put" /\ link[d] = "up"
    BY <1>4, <1>7 DEF Answer, TypeOk, ExchangeInv, InExchange, Asked
  <2>2. trouble[d].rivals + 1 >= tries[d]
    BY <1>4, <1>7 DEF ExchangeInv, CauseKnown
  <2>3. ExchangeInv(d)'
    BY <1>1, <1>7, <2>1, <2>2 DEF ExchangeInv, InExchange, MessageOk, CauseKnown, Asked
  <2> QED
    BY <1>3, <1>7, <2>3
<1> QED
  BY <1>2, <1>5, <1>6, <1>7 DEF Serve, ServePut

LEMMA ServeRegisterSync ==
  ASSUME TypeOk, SyncInv, NEW d \in Devices, ServeRegister(d)
  PROVE  SyncInv'
<1>1. /\ UNCHANGED <<versions, late, now, pc, tries, version, local, dirty, cache, seen, gone>>
      /\ Asked(d, "REGISTER") /\ link' = [link EXCEPT ![d] = "dead"] /\ Answer(d, None)
      /\ trouble' = [trouble EXCEPT ![d] = Caused(d, "register")]
  BY DEF ServeRegister
<1>2. HistoryInv /\ DeviceInv(d) /\ \A r \in late' : PutOk(r) /\ Past(r.content)
  BY <1>1, InvParts DEF HistoryInv
<1>3. \A e \in Devices \ {d} : Same(e)
  BY <1>1 DEF Same, Answer, TypeOk
<1>4. chan'[d] = None /\ trouble'[d] = Caused(d, "register") /\ trouble'[d].causes # {}
  BY <1>1, CausedOk DEF Answer, TypeOk, Causes
<1>5. ExchangeInv(d)' /\ FailureOk(d)'
  BY <1>4, NoMessage DEF FailureOk
<1>6. VaultInv(d)'
  BY <1>1, <1>2, VersionsUnchanged DEF DeviceInv, VaultInv, HoldsVersion, CacheOk, CleanOk
<1> QED
  BY <1>1, <1>2, <1>3, <1>5, <1>6, DeviceStep DEF DeviceInv

-----------------------------------------------------------------------------

LEMMA TickSync ==
  ASSUME TypeOk, SyncInv, Tick \/ UNCHANGED vars
  PROVE  SyncInv'
<1>1. /\ UNCHANGED <<versions, late, link, chan, pc, tries, version, local, dirty, cache, seen, gone, trouble>>
      /\ now' = now \/ now' = now + 1
  BY DEF Tick, vars
<1>2. /\ Current' = Current
      /\ \A c \in Content : Past(c) => Past(c)'
      /\ \A c : AllSaved(c)' = AllSaved(c)
      /\ \A n, c : IsVersion(n, c)' = IsVersion(n, c)
      /\ \A n, c, m, g : GoesOnFrom(n, c, m, g)' = GoesOnFrom(n, c, m, g)
  <2>1. ASSUME NEW c \in Content, Past(c) PROVE Past(c)'
    <3> SUFFICES ASSUME NEW i \in Present(c) PROVE c[i].ts <= now'
      BY DEF Past
    <3>1. c[i].ts \in Nat /\ c[i].ts <= now /\ now \in Nat
      BY <2>1 DEF Content, Entry, Present, Past, TypeOk
    <3> QED
      BY <1>1, <3>1
  <2> QED
    BY <1>1, <2>1 DEF Current, AllSaved, IsVersion, GoesOnFrom
<1>3. HistoryInv'
  <2>1. HistoryInv /\ late \subseteq PutRequest /\ (\A r \in PutRequest : r.content \in Content)
        /\ \A n \in 1..Current : versions[n].content \in Content
    BY InvParts, CurrentType DEF TypeOk, PutRequest
  <2>2. \A r \in late : PutOk(r)' /\ Past(r.content)'
    BY <1>2, <2>1 DEF HistoryInv, PutOk
  <2>3. (\A n \in 1..Current : Past(versions[n].content))'
    BY <1>1, <1>2, <2>1 DEF HistoryInv
  <2>4. WriterHadMerged' /\ EntriesOnlyAdvance'
    BY <1>1, <1>2, <2>1 DEF HistoryInv, WriterHadMerged, EntriesOnlyAdvance
  <2> QED
    BY <1>1, <2>2, <2>3, <2>4 DEF HistoryInv
<1>4. ASSUME NEW d \in Devices PROVE DeviceInv(d)'
  <2>1. DeviceInv(d)
    BY InvParts
  <2>2. ExchangeInv(d)'
    BY <1>1, <1>2, <2>1 DEF DeviceInv, ExchangeInv, InExchange, MessageOk, CauseKnown, Asked, PutOk, Accepts
  <2>3. local[d] \in Content
    BY DEF TypeOk
  <2>4. HoldsVersion(d)'
    BY <1>1, <1>2, <2>1, <2>3 DEF DeviceInv, VaultInv, HoldsVersion
  <2>5. CacheOk(d)' /\ CleanOk(d)' /\ FailureOk(d)'
    BY <1>1, <1>2, <2>1 DEF DeviceInv, VaultInv, CacheOk, CleanOk, FailureOk
  <2> QED
    BY <2>2, <2>4, <2>5 DEF DeviceInv, VaultInv
<1> QED
  BY <1>3, <1>4, InvPartsPrimed

LEMMA InitSync == Init => SyncInv
<1> SUFFICES ASSUME Init PROVE SyncInv
  OBVIOUS
<1>1. Current = 0 /\ late = {} /\ now = 0
  BY DEF Init, Current
<1>2. HistoryInv
  BY <1>1 DEF HistoryInv, WriterHadMerged, EntriesOnlyAdvance
<1>3. ASSUME NEW d \in Devices PROVE DeviceInv(d)
  BY EmptyVaultOk DEF Init, DeviceInv, ExchangeInv, VaultInv, InExchange, MessageOk, CauseKnown, Asked,
     HoldsVersion, GoesOnFrom, Saving, Waiting, CacheOk, CleanOk, FailureOk, NoTrouble
<1> QED
  BY <1>2, <1>3, InvParts

LEMMA NextSync == TypeOk /\ SyncInv /\ [Next]_vars => SyncInv'
<1> SUFFICES ASSUME TypeOk, SyncInv, [Next]_vars
             PROVE  SyncInv'
  OBVIOUS
<1>1. ASSUME NEW d \in Devices, UserStep(d)
      PROVE  SyncInv'
  BY <1>1, StartSync, EditSync, CommandSync DEF UserStep
<1>2. ASSUME NEW d \in Devices, ClientStep(d)
      PROVE  SyncInv'
  BY <1>2, StartSync, LoginSync, CacheSync, SessionSync, FailureSync, PutSync, FetchedSync DEF ClientStep
<1>3. ASSUME NEW d \in Devices,
             \/ Serve(d) \/ ServeRegister(d) \/ ConnectFails(d) \/ SaveFails(d)
             \/ LinkBreaks(d) \/ Kill(d) \/ TokenExpires(d)
      PROVE  SyncInv'
  BY <1>3, ServeSync, ServeRegisterSync, FailureSync, CacheSync, EnvironmentSync
<1>4. CASE ServeLate
  BY <1>4, ServeLateSync
<1>5. CASE Tick \/ Quiet \/ UNCHANGED vars
  BY <1>5, TickSync DEF Quiet
<1> QED
  BY <1>1, <1>2, <1>3, <1>4, <1>5 DEF Next

\* What devices hold, wait for and have sent stays in step with what the server
\* stores, through every loss, late PUT and killed client (secvault.py, svpclient.py).
THEOREM DevicesInStep == Spec => []SyncInv
<1>1. Init => TypeOk /\ SyncInv
  BY InitType, InitSync
<1>2. (TypeOk /\ SyncInv) /\ [Next]_vars => (TypeOk /\ SyncInv)'
  BY NextType, NextSync
<1> QED
  BY <1>1, <1>2, PTL DEF Spec

\* No blind overwrite: whoever stored a version had merged the one before it
\* (do_sync, put_vault, fetch_vault, ensure_session).
THEOREM NoBlindOverwrite == Spec => []WriterHadMerged
<1>1. SyncInv => WriterHadMerged
  BY DEF SyncInv
<1> QED
  BY <1>1, DevicesInStep, PTL

\* From one version to the next entries disappear only by a user's hand and get
\* no older value (merge_from, do_sync).
THEOREM EntriesAdvance == Spec => []EntriesOnlyAdvance
<1>1. SyncInv => EntriesOnlyAdvance
  BY DEF SyncInv
<1> QED
  BY <1>1, DevicesInStep, PTL

\* A vault that is not dirty holds nothing the server never stored (dirty, do_sync).
THEOREM NothingForgotten == Spec => []CleanMeansSaved
<1>1. SyncInv => CleanMeansSaved
  BY DEF SyncInv
<1> QED
  BY <1>1, DevicesInStep, PTL

\* A whole cache file is a version of the server, under its number (save_cache).
THEOREM CacheCorrect == Spec => []CacheIsVersion
<1>1. SyncInv => CacheIsVersion
  BY DEF SyncInv
<1> QED
  BY <1>1, DevicesInStep, PTL

\* Nothing fails without a cause; three lost races in one command is one
\* (main, ensure_session, do_sync).
THEOREM FailuresExplained == Spec => []FailureHasCause
<1>1. SyncInv => FailureHasCause
  BY DEF SyncInv
<1> QED
  BY <1>1, DevicesInStep, PTL

=============================================================================
