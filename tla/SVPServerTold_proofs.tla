------------------------- MODULE SVPServerTold_proofs -------------------------
(***************************************************************************)
(* What the clients of SVPServer are told, for every value of its          *)
(* constants: on a connection versions never go back, and everything the   *)
(* server stores and tells is what VersionedVault promises.                *)
(***************************************************************************)
EXTENDS SVPServerSafety_proofs

USE DEF Pcs, States, AuthPcs, GetPcs, PutPcs, RowPcs

-----------------------------------------------------------------------------
\* The kinds of steps.

\* A handler with a row keeps it, with the request it was read for.
KeepsRow(d) ==
  pc'[d] \in RowPcs => pc[d] \in RowPcs /\ UNCHANGED <<row[d], req[d], user[d]>>

\* Nothing is stored and nothing told; a user changes at a login only.
Silent ==
  /\ UNCHANGED <<log, hist>>
  /\ \A d \in Conns : user'[d] = user[d] \/ state[d] = "AUTHENTICATING"

\* A reply is written; its handler has no row any more.
Tells(c, q, rep) ==
  /\ LogReply(c, q, rep)
  /\ UNCHANGED <<hist, user>>
  /\ \A d \in Conns : KeepsRow(d)
  /\ pc'[c] \notin RowPcs

\* The replies to a VAULT_GET and a VAULT_PUT.
TellsOfVault(c) ==
  \/ pc[c] = "get_done" /\ Tells(c, req[c], GetReply(c))
  \/ pc[c] = "put_check" /\ ForeignRow(c) /\ Tells(c, req[c], ErrorReply("NOT_FOUND"))
  \/ pc[c] = "put_check" /\ Tells(c, req[c], ErrorReply("CONFLICT"))
  \/ pc[c] = "put_done" /\ Tells(c, req[c], PutReply(c))

\* The other replies.
TellsOther(c) ==
  \E q \in HelloReq \cup AuthReq \cup SignalReq, rep \in Reply :
    /\ Tells(c, q, rep)
    /\ rep.type \notin {"VAULT_DATA", "VAULT_ACK"}

LEMMA FrameStepKind ==
  ASSUME Inv, NEW c \in Conns, FrameStep(c) \/ Accept(c) \/ FragmentTimeout(c)
  PROVE  (Silent /\ \A d \in Conns : KeepsRow(d)) \/ TellsOther(c)
<1>1. pc \in [Conns -> Pcs]
  BY DEF Inv, TypeInv, TypeOk
<1>2. ASSUME NEW f \in Frames, Hello(c, f) \/ Ping(c, f) \/ Bye(c, f)
      PROVE  TellsOther(c)
  <2>1. f \in HelloReq \cup SignalReq
    BY <1>2, FramesAssumption DEF Hello, Ping, Bye, Request, HelloReq, AuthReq, GetReq, PutReq, SignalReq
  <2>2. PICK type \in {"CHALLENGE", "PONG", "BYE"} : LogReply(c, f, [type |-> type])
    BY <1>2 DEF Hello, Ping, Bye
  <2>3. UNCHANGED <<hist, user>> /\ pc[c] = "read"
    BY <1>2 DEF Hello, Ping, Bye, Reading
  <2>4. \A d \in Conns : KeepsRow(d)
    BY <1>1, <1>2, <2>3 DEF KeepsRow, Hello, Ping, Bye, Finish, Inv, TypeInv, TypeOk
  <2>5. pc'[c] \notin RowPcs
    BY <1>1, <1>2, <2>3 DEF Hello, Ping, Bye, Finish
  <2>6. [type |-> type] \in Reply /\ [type |-> type].type = type
    BY DEF Reply
  <2> QED
    BY <2>1, <2>2, <2>3, <2>4, <2>5, <2>6 DEF TellsOther, Tells
<1>3. ASSUME NEW f \in Frames, Auth(c, f) \/ VaultGet(c, f) \/ VaultPut(c, f)
      PROVE  Silent /\ \A d \in Conns : KeepsRow(d)
  <2>1. Silent
    BY <1>3 DEF Silent, Auth, VaultGet, VaultPut
  <2>2. ASSUME NEW d \in Conns PROVE KeepsRow(d)
    BY <1>1, <1>3 DEF KeepsRow, Auth, VaultGet, VaultPut, Reading, Goto, Inv, TypeInv, TypeOk
  <2> QED
    BY <2>1, <2>2
<1>4. CASE PutFragment(c) \/ Accept(c) \/ FragmentTimeout(c)
  BY <1>4 DEF Silent, KeepsRow, PutFragment, Accept, FragmentTimeout
<1> QED
  BY <1>2, <1>3, <1>4 DEF FrameStep

LEMMA EndKind ==
  ASSUME Inv, NEW c \in Conns, BusyTimeout(c) \/ ReadEnds(c) \/ HandlerFails(c)
  PROVE  Silent /\ \A d \in Conns : KeepsRow(d)
<1>1. Finish(c) /\ UNCHANGED <<user, log, hist>>
  BY DEF BusyTimeout, ReadEnds, HandlerFails
<1>2. \A d \in Conns : KeepsRow(d)
  BY <1>1 DEF KeepsRow, Finish, Inv, TypeInv, TypeOk
<1> QED
  BY <1>1, <1>2 DEF Silent

LEMMA AuthKind ==
  ASSUME Inv, NEW c \in Conns, Authenticate(c) \/ SessionExecute(c) \/ SessionCommit(c) \/ AuthOk(c)
  PROVE  (Silent /\ \A d \in Conns : KeepsRow(d)) \/ TellsOther(c)
<1>1. /\ pc \in [Conns -> Pcs] /\ pc[c] \in AuthPcs /\ state[c] = "AUTHENTICATING"
      /\ req[c] \in AuthReq /\ expiry[c] \in Nat
      /\ row \in [Conns -> VaultRow \cup {None}] /\ req \in [Conns -> Request \cup {None}]
      /\ user \in [Conns -> Users \cup {None}]
  <2>1. pc[c] \in AuthPcs
    BY DEF Authenticate, SessionExecute, SessionCommit, AuthOk
  <2> QED
    BY <2>1, Where DEF Inv, TypeInv, TypeOk, ControlOk
<1>2. CASE Authenticate(c) /\ UNCHANGED log
  <2>1. Silent
    BY <1>1, <1>2 DEF Silent, Authenticate
  <2>2. \A d \in Conns : KeepsRow(d)
    BY <1>1, <1>2 DEF KeepsRow, Authenticate, Goto, Finish
  <2> QED
    BY <2>1, <2>2
<1>3. CASE Authenticate(c) /\ LogReply(c, req[c], [type |-> "AUTH_FAIL"]) /\ Finish(c) /\ UNCHANGED user
  <2>1. \A d \in Conns : KeepsRow(d)
    BY <1>1, <1>3 DEF KeepsRow, Finish
  <2>2. pc'[c] \notin RowPcs
    BY <1>1, <1>3 DEF Finish
  <2>3. [type |-> "AUTH_FAIL"] \in Reply
    BY DEF Reply
  <2> QED
    BY <1>1, <1>3, <2>1, <2>2, <2>3 DEF TellsOther, Tells, Authenticate
<1>4. CASE SessionExecute(c) \/ SessionCommit(c)
  <2>1. Silent
    BY <1>4 DEF Silent, SessionExecute, SessionCommit
  <2>2. \A d \in Conns : KeepsRow(d)
    BY <1>1, <1>4 DEF KeepsRow, SessionExecute, SessionCommit, Goto
  <2> QED
    BY <2>1, <2>2
<1>5. CASE AuthOk(c)
  <2> DEFINE rep == [type |-> "AUTH_OK", token |-> c, expiry |-> expiry[c], vault_version |-> 0]
  <2>1. LogReply(c, req[c], rep) /\ Continue(c) /\ UNCHANGED <<hist, user>>
    BY <1>5 DEF AuthOk
  <2>2. \A d \in Conns : KeepsRow(d)
    BY <1>1, <2>1 DEF KeepsRow, Continue, Goto
  <2>3. pc'[c] \notin RowPcs
    BY <1>1, <2>1 DEF Continue, Goto
  <2>4. rep \in Reply /\ rep.type = "AUTH_OK"
    BY <1>1 DEF Reply
  <2> HIDE DEF rep
  <2> QED
    BY <1>1, <2>1, <2>2, <2>3, <2>4 DEF TellsOther, Tells
<1> QED
  BY <1>2, <1>3, <1>4, <1>5 DEF Authenticate

LEMMA VaultKind ==
  ASSUME Inv, NEW c \in Conns,
         GetDone(c) \/ PutCheck(c) \/ PutExecute(c) \/ PutCommit(c) \/ PutDone(c)
  PROVE  \/ Silent /\ \A d \in Conns : KeepsRow(d)
         \/ PutCommit(c) /\ hit[c] /\ \A d \in Conns : KeepsRow(d)
         \/ TellsOfVault(c)
<1>1. /\ pc \in [Conns -> Pcs]
      /\ row \in [Conns -> VaultRow \cup {None}] /\ req \in [Conns -> Request \cup {None}]
  BY DEF Inv, TypeInv, TypeOk
<1>2. ASSUME NEW rep, LogReply(c, req[c], rep), Continue(c), UNCHANGED <<hist, user>>
      PROVE  Tells(c, req[c], rep)
  <2>1. \A d \in Conns : KeepsRow(d)
    BY <1>1, <1>2 DEF KeepsRow, Continue, Goto
  <2>2. pc'[c] \notin RowPcs
    BY <1>1, <1>2 DEF Continue, Goto
  <2> QED
    BY <1>2, <2>1, <2>2 DEF Tells
<1>3. CASE GetDone(c)
  BY <1>2, <1>3 DEF GetDone, TellsOfVault
<1>4. CASE PutDone(c)
  BY <1>2, <1>4 DEF PutDone, TellsOfVault
<1>5. CASE /\ PutCheck(c) /\ Continue(c)
           /\ \/ ForeignRow(c) /\ LogReply(c, req[c], ErrorReply("NOT_FOUND"))
              \/ LogReply(c, req[c], ErrorReply("CONFLICT"))
  BY <1>2, <1>5 DEF PutCheck, TellsOfVault
<1>6. CASE PutCheck(c) /\ Goto(c, "put_execute") /\ UNCHANGED <<req, row, hit, log>>
  <2>1. Silent
    BY <1>6 DEF Silent, PutCheck
  <2>2. \A d \in Conns : KeepsRow(d)
    BY <1>1, <1>6 DEF KeepsRow, PutCheck, Goto
  <2> QED
    BY <2>1, <2>2
<1>7. CASE PutExecute(c)
  <2>1. Silent
    BY <1>7 DEF Silent, PutExecute
  <2>2. \A d \in Conns : KeepsRow(d)
    BY <1>1, <1>7 DEF KeepsRow, PutExecute, Goto
  <2> QED
    BY <2>1, <2>2
<1>8. CASE PutCommit(c)
  <2>1. ~hit[c] => Silent
    BY <1>8 DEF Silent, PutCommit
  <2>2. \A d \in Conns : KeepsRow(d)
    BY <1>1, <1>8 DEF KeepsRow, PutCommit, Goto
  <2> QED
    BY <1>8, <2>1, <2>2
<1> QED
  BY <1>3, <1>4, <1>5, <1>6, <1>7, <1>8 DEF PutCheck

LEMMA StepKinds ==
  ASSUME Inv, [Next]_vars
  PROVE  \/ Silent /\ \A d \in Conns : KeepsRow(d)
         \/ \E c \in Conns :
              \/ GetRead(c) \/ PutRead(c)
              \/ PutCommit(c) /\ hit[c] /\ \A d \in Conns : KeepsRow(d)
              \/ TellsOfVault(c) \/ TellsOther(c)
<1>1. CASE Crash \/ Tick \/ AllClosed \/ UNCHANGED vars
  <2>1. Silent
    BY <1>1 DEF Silent, Crash, Tick, AllClosed, vars, handlerVars
  <2>2. \A d \in Conns : KeepsRow(d)
    <3>1. CASE Crash
      BY <3>1 DEF KeepsRow, Crash, Open, Inv, TypeInv, TypeOk, ControlOk
    <3>2. CASE Tick \/ AllClosed \/ UNCHANGED vars
      BY <3>2 DEF KeepsRow, Tick, AllClosed, vars, handlerVars
    <3> QED
      BY <1>1, <3>1, <3>2
  <2> QED
    BY <2>1, <2>2
<1> QED
  BY <1>1, FrameStepKind, EndKind, AuthKind, VaultKind DEF Next, HandlerStep

-----------------------------------------------------------------------------
\* Versions never go back.

MonotonicInv == RowIsRecent /\ MonotonicReplies

LEMMA InitMonotonic == Init => MonotonicInv
  BY DEF Init, MonotonicInv, RowIsRecent, MonotonicReplies

\* What a client was told is at most what is stored, and its own user's.
LEMMA ToldIsStored ==
  ASSUME Inv, NEW c \in Conns, NEW i \in DOMAIN log[c], Versioned(c, i),
         log[c][i].rep.vault \in Vaults
  PROVE  LET v == log[c][i].rep.vault IN
         /\ vaults[v] # None /\ vaults[v].user = user[c]
         /\ vaults[v].version >= log[c][i].rep.version
<1> DEFINE r == log[c][i].rep
           h == hist[r.vault]
<1>1. h \in Seq(Accepted)
  BY DEF Inv, TypeInv, TypeOk
<1>2. r.version \in DOMAIN h /\ h[r.version].user = user[c]
  <2>1. CASE r.type = "VAULT_DATA"
    BY <2>1 DEF Inv, SafetyInv, DataIsCommitted, Replied, DataTrue
  <2>2. CASE r.type = "VAULT_ACK"
    <3>1. AckTrue(c, log[c][i].req, r)
      BY <2>2 DEF Inv, SafetyInv, AckIsCommitted, Replied
    <3> QED
      BY <3>1 DEF AckTrue
  <2> QED
    BY <2>1, <2>2 DEF Versioned
<1>3. /\ Len(h) \in Nat /\ r.version \in 1..Len(h) /\ Len(h) \in DOMAIN h /\ Len(h) # 0
  <2> HIDE DEF h, r
  <2> QED
    BY <1>1, <1>2
<1>4. vaults[r.vault] = [user |-> h[Len(h)].user, version |-> Len(h), blob |-> h[Len(h)].blob]
  <2>1. RowIsLastPut
    BY DEF Inv, SafetyInv
  <2>2. vaults[r.vault] = IF Len(h) = 0 THEN None
                          ELSE [user |-> h[Len(h)].user, version |-> Len(h), blob |-> h[Len(h)].blob]
    BY <2>1, ZenonT(30) DEF RowIsLastPut
  <2> QED
    BY <1>3, <2>2, ZenonT(30)
<1>5. h[Len(h)].user = user[c]
  BY <1>2, <1>3 DEF Inv, SafetyInv, OneOwner
<1>6. vaults[r.vault] # None
  <2> HIDE DEF h, r
  <2> QED
    BY <1>1, <1>3, <1>4, StoredIsRow
<1>7. vaults[r.vault].user = user[c] /\ vaults[r.vault].version >= r.version
  <2>1. vaults[r.vault].user = user[c] /\ vaults[r.vault].version = Len(h)
    BY <1>4, <1>5
  <2> HIDE DEF h, r
  <2> QED
    BY <1>3, <2>1
<1> QED
  BY <1>6, <1>7

\* Nothing is told, and no row is read.
LEMMA SilentMonotonic ==
  ASSUME Inv, MonotonicInv, UNCHANGED log, \A d \in Conns : KeepsRow(d)
  PROVE  MonotonicInv'
<1>1. RowIsRecent'
  BY DEF MonotonicInv, RowIsRecent, KeepsRow, Versioned, ForeignRow
<1>2. MonotonicReplies'
  BY DEF MonotonicInv, MonotonicReplies, Versioned, Replied, ErrorReply
<1> QED
  BY <1>1, <1>2 DEF MonotonicInv

\* A row is read: it is what is stored.
LEMMA ReadMonotonic ==
  ASSUME Inv, MonotonicInv, NEW c \in Conns, GetRead(c) \/ PutRead(c)
  PROVE  MonotonicInv'
<1>1. /\ pc[c] \in {"get_read", "put_read"} /\ row' = [row EXCEPT ![c] = vaults[req[c].vault]]
      /\ UNCHANGED <<log, req, user>>
      /\ \A d \in Conns \ {c} : pc'[d] = pc[d]
  BY DEF GetRead, PutRead, ReadRow, Goto, Inv, TypeInv, TypeOk
<1>2. req[c].vault \in Vaults
  BY <1>1, Where
<1>3. row'[c] = vaults[req[c].vault] /\ \A d \in Conns \ {c} : row'[d] = row[d]
  BY <1>1 DEF Inv, TypeInv, TypeOk
<1>4. RowIsRecent'
  <2> SUFFICES ASSUME NEW d \in Conns, NEW i \in DOMAIN log[d],
                      pc'[d] \in RowPcs, Versioned(d, i), log[d][i].rep.vault = req[d].vault
               PROVE  /\ row'[d] # None /\ row'[d].user = user[d]
                      /\ row'[d].version >= log[d][i].rep.version
    BY <1>1 DEF RowIsRecent, Versioned, ForeignRow
  <2>1. CASE d = c
    BY <1>2, <1>3, <2>1, ToldIsStored
  <2>2. CASE d # c
    BY <1>1, <1>3, <2>2 DEF MonotonicInv, RowIsRecent, ForeignRow
  <2> QED
    BY <2>1, <2>2
<1>5. MonotonicReplies'
  BY <1>1 DEF MonotonicInv, MonotonicReplies, Versioned, Replied, ErrorReply
<1> QED
  BY <1>4, <1>5 DEF MonotonicInv

\* What a reply must be after all that was told before on its connection.
Follows(c, q, rep) ==
  q.type \in {"VAULT_GET", "VAULT_PUT"} =>
    \A i \in DOMAIN log[c] : Versioned(c, i) /\ log[c][i].rep.vault = q.vault =>
      /\ rep # ErrorReply("NOT_FOUND")
      /\ rep.type \in {"VAULT_DATA", "VAULT_ACK"} => rep.version >= log[c][i].rep.version
      /\ rep.type = "VAULT_ACK" => rep.version > log[c][i].rep.version

LEMMA TellsMonotonic ==
  ASSUME Inv, MonotonicInv, NEW c \in Conns, NEW q, NEW rep, Tells(c, q, rep), Follows(c, q, rep)
  PROVE  MonotonicInv'
<1> DEFINE n == Len(log[c]) + 1
<1>1. /\ n \in Nat
      /\ DOMAIN log[c] = 1..(n - 1)
      /\ DOMAIN log'[c] = 1..n
      /\ log'[c][n].req = q /\ log'[c][n].rep = rep
      /\ \A i \in 1..(n - 1) : log'[c][i] = log[c][i]
      /\ \A d \in Conns \ {c} : log'[d] = log[d]
  BY LogAppend DEF Inv, Tells
<1> HIDE DEF n
<1>2. \A d \in Conns : \A i \in DOMAIN log'[d] :
        (d = c /\ i = n) \/ (i \in DOMAIN log[d] /\ log'[d][i] = log[d][i])
  BY <1>1
<1>3. RowIsRecent'
  <2> SUFFICES ASSUME NEW d \in Conns, NEW i \in DOMAIN log'[d],
                      pc'[d] \in RowPcs, Versioned(d, i)', log'[d][i].rep.vault = req'[d].vault
               PROVE  /\ row'[d] # None /\ row'[d].user = user'[d]
                      /\ row'[d].version >= log'[d][i].rep.version
    BY DEF RowIsRecent, ForeignRow
  <2>1. d # c /\ pc[d] \in RowPcs /\ UNCHANGED <<row[d], req[d], user[d]>>
    BY DEF Tells, KeepsRow
  <2>2. i \in DOMAIN log[d] /\ log'[d][i] = log[d][i]
    BY <1>1, <2>1
  <2>3. Versioned(d, i) /\ log[d][i].rep.vault = req[d].vault
    BY <2>1, <2>2 DEF Versioned
  <2> QED
    BY <2>1, <2>2, <2>3 DEF MonotonicInv, RowIsRecent, ForeignRow
<1>4. MonotonicReplies'
  <2> SUFFICES ASSUME NEW d \in Conns, NEW i \in DOMAIN log'[d], NEW j \in DOMAIN log'[d],
                      i < j, log'[d][i].rep.type \in {"VAULT_DATA", "VAULT_ACK"},
                      log'[d][j].req.type \in {"VAULT_GET", "VAULT_PUT"},
                      log'[d][j].req.vault = log'[d][i].rep.vault
               PROVE  LET r == log'[d][j].rep
                          s == log'[d][i].rep
                      IN  /\ r # ErrorReply("NOT_FOUND")
                          /\ r.type \in {"VAULT_DATA", "VAULT_ACK"} => r.version >= s.version
                          /\ r.type = "VAULT_ACK" => r.version > s.version
    BY DEF MonotonicReplies, Versioned, Replied, ErrorReply
  <2>1. CASE d = c /\ j = n
    <3>1. i \in DOMAIN log[c] /\ log'[c][i] = log[c][i]
      BY <1>1, <2>1
    <3> QED
      BY <1>1, <2>1, <3>1 DEF Follows, Versioned
  <2>2. CASE ~(d = c /\ j = n)
    <3>1. /\ i \in DOMAIN log[d] /\ log'[d][i] = log[d][i]
          /\ j \in DOMAIN log[d] /\ log'[d][j] = log[d][j]
      BY <1>1, <2>2
    <3> QED
      BY <3>1 DEF MonotonicInv, MonotonicReplies, Versioned, Replied
  <2> QED
    BY <2>1, <2>2
<1> QED
  BY <1>3, <1>4 DEF MonotonicInv

LEMMA VaultReplyFollows ==
  ASSUME Inv, MonotonicInv, NEW c \in Conns, TellsOfVault(c)
  PROVE  \E rep : Tells(c, req[c], rep) /\ Follows(c, req[c], rep)
<1>1. pc[c] \in {"get_done", "put_check", "put_done"}
  BY DEF TellsOfVault
<1>2. ASSUME NEW i \in DOMAIN log[c], Versioned(c, i), log[c][i].rep.vault = req[c].vault
      PROVE  /\ row[c] # None /\ ~ForeignRow(c) /\ row[c].version >= log[c][i].rep.version
             /\ row[c].version \in Nat /\ log[c][i].rep.version \in Nat
  <2>1. row[c] # None /\ ~ForeignRow(c) /\ row[c].version >= log[c][i].rep.version
    BY <1>1, <1>2 DEF MonotonicInv, RowIsRecent
  <2>2. row[c] \in VaultRow
    BY <2>1 DEF Inv, TypeInv, TypeOk
  <2>3. log[c][i].rep \in Reply
    <3>1. log[c] \in Seq(Exchange)
      BY DEF Inv, TypeInv, TypeOk
    <3>2. log[c][i] \in Exchange
      BY <3>1
    <3> QED
      BY <3>2 DEF Exchange
  <2>4. log[c][i].rep.version \in Nat
    BY <1>2, <2>3 DEF Versioned, Reply
  <2> QED
    BY <2>1, <2>2, <2>4 DEF VaultRow
<1>3. CASE pc[c] = "get_done" /\ Tells(c, req[c], GetReply(c))
  <2>1. Follows(c, req[c], GetReply(c))
    <3> SUFFICES ASSUME NEW i \in DOMAIN log[c], Versioned(c, i), log[c][i].rep.vault = req[c].vault
                 PROVE  /\ GetReply(c) # ErrorReply("NOT_FOUND") /\ GetReply(c).type = "VAULT_DATA"
                        /\ GetReply(c).version >= log[c][i].rep.version
      BY DEF Follows
    <3>1. row[c] # None /\ ~ForeignRow(c) /\ row[c].version >= log[c][i].rep.version
      BY <1>2
    <3>2. GetReply(c) = [type |-> "VAULT_DATA", vault |-> req[c].vault, version |-> row[c].version, blob |-> row[c].blob]
      BY <3>1 DEF GetReply
    <3> QED
      BY <3>1, <3>2 DEF ErrorReply
  <2> QED
    BY <1>3, <2>1
<1>4. CASE ForeignRow(c) /\ Tells(c, req[c], ErrorReply("NOT_FOUND"))
  BY <1>2, <1>4 DEF Follows
<1>5. CASE Tells(c, req[c], ErrorReply("CONFLICT"))
  BY <1>5 DEF Follows, ErrorReply
<1>6. CASE pc[c] = "put_done" /\ Tells(c, req[c], PutReply(c))
  <2>1. Follows(c, req[c], PutReply(c))
    <3> SUFFICES ASSUME NEW i \in DOMAIN log[c], Versioned(c, i), log[c][i].rep.vault = req[c].vault
                 PROVE  /\ PutReply(c) # ErrorReply("NOT_FOUND")
                        /\ PutReply(c).type \in {"VAULT_DATA", "VAULT_ACK"} =>
                             PutReply(c).version > log[c][i].rep.version /\ PutReply(c).version >= log[c][i].rep.version
      BY DEF Follows
    <3>1. NewVersion(c) > log[c][i].rep.version /\ NewVersion(c) >= log[c][i].rep.version
      BY <1>2 DEF NewVersion, CurrentVersion
    <3> QED
      BY <3>1 DEF PutReply, ErrorReply
  <2> QED
    BY <1>6, <2>1
<1> QED
  BY <1>3, <1>4, <1>5, <1>6 DEF TellsOfVault

LEMMA NextMonotonic == Inv /\ MonotonicInv /\ [Next]_vars => MonotonicInv'
<1> SUFFICES ASSUME Inv, MonotonicInv, [Next]_vars
             PROVE  MonotonicInv'
  OBVIOUS
<1>1. CASE Silent /\ \A d \in Conns : KeepsRow(d)
  BY <1>1, SilentMonotonic DEF Silent
<1>2. ASSUME NEW c \in Conns, GetRead(c) \/ PutRead(c)
      PROVE  MonotonicInv'
  BY <1>2, ReadMonotonic
<1>3. ASSUME NEW c \in Conns, PutCommit(c), \A d \in Conns : KeepsRow(d)
      PROVE  MonotonicInv'
  BY <1>3, SilentMonotonic DEF PutCommit
<1>4. ASSUME NEW c \in Conns, TellsOfVault(c)
      PROVE  MonotonicInv'
  BY <1>4, VaultReplyFollows, TellsMonotonic
<1>5. ASSUME NEW c \in Conns, TellsOther(c)
      PROVE  MonotonicInv'
  <2>1. PICK q \in HelloReq \cup AuthReq \cup SignalReq, rep \in Reply : Tells(c, q, rep)
    BY <1>5 DEF TellsOther
  <2>2. Follows(c, q, rep)
    BY DEF Follows, HelloReq, AuthReq, SignalReq
  <2> QED
    BY <2>1, <2>2, TellsMonotonic
<1> QED
  BY <1>1, <1>2, <1>3, <1>4, <1>5, StepKinds

LEMMA AlwaysMonotonic == Spec => []MonotonicInv
<1>1. Inv /\ MonotonicInv /\ [Next]_vars => MonotonicInv'
  BY NextMonotonic
<1> QED
  BY <1>1, InitMonotonic, AlwaysInv, PTL DEF Spec

\* On one connection what is told of a vault never goes back, although every
\* request reads its row again while other connections write (server.py:527-666).
THEOREM ClientsNeverGoBack == Spec => []MonotonicReplies
<1>1. MonotonicInv => MonotonicReplies
  BY DEF MonotonicInv
<1> QED
  BY <1>1, AlwaysMonotonic, PTL

\* No handler acts on a row older than what its client has been told
\* (server.py:527-666).
THEOREM RowsAreRecent == Spec => []RowIsRecent
<1>1. MonotonicInv => RowIsRecent
  BY DEF MonotonicInv
<1> QED
  BY <1>1, AlwaysMonotonic, PTL

-----------------------------------------------------------------------------
\* The server implements VersionedVault: hist is its log, and what clients were
\* told its sets of read and acknowledged versions.

\* What is told of a vault by logs l to users u.
ReadAt(l, u, c, i) ==
  [user |-> u[c], vault |-> l[c][i].rep.vault, version |-> l[c][i].rep.version, blob |-> l[c][i].rep.blob]
AckAt(l, c, i) == [by |-> c, vault |-> l[c][i].rep.vault, version |-> l[c][i].rep.version]
ToldAt(l, type) ==
  {y \in Conns \X (1..MaxReplies) : y[2] \in DOMAIN l[y[1]] /\ l[y[1]][y[2]].rep.type = type}
ReadsOf(l, u) == {ReadAt(l, u, x[1], x[2]) : x \in ToldAt(l, "VAULT_DATA")}
AcksOf(l) == {AckAt(l, x[1], x[2]) : x \in ToldAt(l, "VAULT_ACK")}

LEMMA ReadsAndAcks ==
  /\ Reads = ReadsOf(log, user) /\ Acks = AcksOf(log)
  /\ Reads' = ReadsOf(log', user') /\ Acks' = AcksOf(log')
  BY DEF Reads, Acks, ReadsOf, AcksOf, ReadAt, AckAt, ToldAt, Replied

LEMMA ToldPairs ==
  ASSUME NEW l, NEW u
  PROVE  /\ \A r : r \in ReadsOf(l, u) <=>
              \E c \in Conns, i \in 1..MaxReplies :
                i \in DOMAIN l[c] /\ l[c][i].rep.type = "VAULT_DATA" /\ r = ReadAt(l, u, c, i)
         /\ \A a : a \in AcksOf(l) <=>
              \E c \in Conns, i \in 1..MaxReplies :
                i \in DOMAIN l[c] /\ l[c][i].rep.type = "VAULT_ACK" /\ a = AckAt(l, c, i)
<1>1. ASSUME NEW type, NEW c \in Conns, NEW i \in 1..MaxReplies,
             i \in DOMAIN l[c], l[c][i].rep.type = type
      PROVE  \E x \in ToldAt(l, type) : x[1] = c /\ x[2] = i
  <2>1. PICK x \in Conns \X (1..MaxReplies) : x[1] = c /\ x[2] = i
    <3>1. <<c, i>> \in Conns \X (1..MaxReplies) /\ <<c, i>>[1] = c /\ <<c, i>>[2] = i
      OBVIOUS
    <3> QED
      BY <3>1
  <2> QED
    BY <1>1, <2>1 DEF ToldAt
<1>2. ASSUME NEW type, NEW x \in ToldAt(l, type)
      PROVE  x[1] \in Conns /\ x[2] \in 1..MaxReplies /\ x[2] \in DOMAIN l[x[1]] /\ l[x[1]][x[2]].rep.type = type
  BY DEF ToldAt
<1>3. \A r : r \in ReadsOf(l, u) <=>
        \E c \in Conns, i \in 1..MaxReplies :
          i \in DOMAIN l[c] /\ l[c][i].rep.type = "VAULT_DATA" /\ r = ReadAt(l, u, c, i)
  BY <1>1, <1>2 DEF ReadsOf
<1>4. \A a : a \in AcksOf(l) <=>
        \E c \in Conns, i \in 1..MaxReplies :
          i \in DOMAIN l[c] /\ l[c][i].rep.type = "VAULT_ACK" /\ a = AckAt(l, c, i)
  BY <1>1, <1>2 DEF AcksOf
<1> QED
  BY <1>3, <1>4

\* Before the session is established nothing has been told, so a login changes no
\* user under whom something was.
LEMMA ToldKept ==
  ASSUME Inv, \A d \in Conns : user'[d] = user[d] \/ state[d] = "AUTHENTICATING",
         NEW c \in Conns, NEW i \in DOMAIN log[c], log[c][i].rep.type \in {"VAULT_DATA", "VAULT_ACK"}
  PROVE  user'[c] = user[c]
  BY DEF Inv, SafetyInv, EarlyReplies, Replied

LEMMA SilentTold ==
  ASSUME Inv, UNCHANGED log, \A d \in Conns : user'[d] = user[d] \/ state[d] = "AUTHENTICATING"
  PROVE  UNCHANGED <<Reads, Acks>>
<1>1. \A c \in Conns : \A i \in DOMAIN log[c] :
        log[c][i].rep.type = "VAULT_DATA" => ReadAt(log, user', c, i) = ReadAt(log, user, c, i)
  BY ToldKept DEF ReadAt
<1>2. ReadsOf(log, user') = ReadsOf(log, user)
  <2>1. \A r : r \in ReadsOf(log, user') <=> r \in ReadsOf(log, user)
    BY <1>1, ToldPairs
  <2> QED
    BY <2>1 DEF ReadsOf
<1> QED
  BY <1>2, ReadsAndAcks

\* A reply that tells of no version, or of one beyond the bound, changes neither
\* set; another adds itself.
LEMMA TellsTold ==
  ASSUME Inv, NEW c \in Conns, NEW q, NEW rep, Tells(c, q, rep)
  PROVE  LET n == Len(log[c]) + 1 IN
         /\ Reads' = IF rep.type = "VAULT_DATA" /\ n \in 1..MaxReplies
                     THEN Reads \cup {[user |-> user[c], vault |-> rep.vault,
                                       version |-> rep.version, blob |-> rep.blob]}
                     ELSE Reads
         /\ Acks' = IF rep.type = "VAULT_ACK" /\ n \in 1..MaxReplies
                    THEN Acks \cup {[by |-> c, vault |-> rep.vault, version |-> rep.version]}
                    ELSE Acks
<1> DEFINE n == Len(log[c]) + 1
           read == [user |-> user[c], vault |-> rep.vault, version |-> rep.version, blob |-> rep.blob]
           ack == [by |-> c, vault |-> rep.vault, version |-> rep.version]
<1>1. /\ n \in Nat \ {0}
      /\ DOMAIN log[c] = 1..(n - 1)
      /\ DOMAIN log'[c] = 1..n
      /\ log'[c][n].rep = rep
      /\ \A i \in 1..(n - 1) : log'[c][i] = log[c][i]
      /\ \A d \in Conns \ {c} : log'[d] = log[d]
  BY LogAppend DEF Inv, Tells
<1>2. ReadAt(log', user, c, n) = read /\ AckAt(log', c, n) = ack
  BY <1>1 DEF ReadAt, AckAt
<1> HIDE DEF n
<1>3. \A d \in Conns : \A i : i \in DOMAIN log'[d] <=> i \in DOMAIN log[d] \/ (d = c /\ i = n)
  <2>1. \A i : i \in DOMAIN log'[c] <=> i \in DOMAIN log[c] \/ i = n
    BY <1>1
  <2>2. \A d \in Conns \ {c} : DOMAIN log'[d] = DOMAIN log[d]
    BY <1>1
  <2> QED
    BY <2>1, <2>2
<1>4. \A d \in Conns : \A i \in DOMAIN log[d] :
        /\ log'[d][i].rep.type = log[d][i].rep.type
        /\ ReadAt(log', user, d, i) = ReadAt(log, user, d, i)
        /\ AckAt(log', d, i) = AckAt(log, d, i)
  BY <1>1 DEF ReadAt, AckAt
<1> HIDE DEF read, ack
<1>5. ReadsOf(log', user) = IF rep.type = "VAULT_DATA" /\ n \in 1..MaxReplies
                            THEN ReadsOf(log, user) \cup {read} ELSE ReadsOf(log, user)
  <2>1. \A r : r \in ReadsOf(log', user) <=>
          \/ r \in ReadsOf(log, user)
          \/ rep.type = "VAULT_DATA" /\ n \in 1..MaxReplies /\ r = read
    BY <1>1, <1>2, <1>3, <1>4, ToldPairs
  <2> QED
    BY <2>1 DEF ReadsOf
<1>6. \A l : \A a : a \in AcksOf(l) <=>
        \E d \in Conns, i \in 1..MaxReplies :
          i \in DOMAIN l[d] /\ l[d][i].rep.type = "VAULT_ACK" /\ a = AckAt(l, d, i)
  BY ToldPairs
<1>7. AcksOf(log') = IF rep.type = "VAULT_ACK" /\ n \in 1..MaxReplies
                     THEN AcksOf(log) \cup {ack} ELSE AcksOf(log)
  <2>1. \A a : a \in AcksOf(log') <=>
          \/ a \in AcksOf(log)
          \/ rep.type = "VAULT_ACK" /\ n \in 1..MaxReplies /\ a = ack
    BY <1>1, <1>2, <1>3, <1>4, <1>6
  <2> QED
    BY <2>1 DEF AcksOf
<1>8. user' = user
  BY DEF Tells
<1> QED
  BY <1>5, <1>7, <1>8, ReadsAndAcks DEF n, read, ack

\* VAULT_DATA tells a stored version of the client's user.
LEMMA DataIsRead ==
  ASSUME Inv, Inv', NEW c \in Conns, NEW q, NEW rep, Tells(c, q, rep), rep.type = "VAULT_DATA",
         rep.vault \in Vaults
  PROVE  VV!Next \/ UNCHANGED <<hist, Reads, Acks>>
<1> DEFINE n == Len(log[c]) + 1
           v == rep.vault
           k == rep.version
<1>1. n \in DOMAIN log'[c] /\ log'[c][n].rep = rep
  BY LogAppend DEF Inv, Tells
<1>2. DataTrue(c, rep)'
  BY <1>1 DEF Inv, SafetyInv, DataIsCommitted, Replied
<1>3. k \in DOMAIN hist[v] /\ hist[v][k].user = user[c] /\ hist[v][k].blob = rep.blob /\ UNCHANGED hist
  BY <1>2 DEF DataTrue, Tells
<1>4. Acks' = Acks
  BY TellsTold
<1>5. CASE n \in 1..MaxReplies
  <2>1. Reads' = Reads \cup {[user |-> hist[v][k].user, vault |-> v, version |-> k, blob |-> hist[v][k].blob]}
    BY <1>3, <1>5, TellsTold
  <2>2. VV!TellRead(v, k)
    BY <1>3, <1>4, <2>1 DEF VV!TellRead
  <2> QED
    BY <1>3, <2>2 DEF VV!Next
<1>6. CASE n \notin 1..MaxReplies
  BY <1>3, <1>4, <1>6, TellsTold
<1> QED
  BY <1>5, <1>6

\* VAULT_ACK acknowledges a stored version to its writer, for the first time.
LEMMA AckIsNew ==
  ASSUME Inv, Inv', NEW c \in Conns, NEW q, NEW rep, Tells(c, q, rep), rep.type = "VAULT_ACK",
         rep.vault \in Vaults, rep = [type |-> "VAULT_ACK", vault |-> rep.vault, version |-> rep.version]
  PROVE  VV!Next \/ UNCHANGED <<hist, Reads, Acks>>
<1> DEFINE n == Len(log[c]) + 1
           v == rep.vault
           k == rep.version
<1>1. /\ n \in DOMAIN log'[c] /\ log'[c][n].rep = rep /\ n \in Nat
      /\ DOMAIN log[c] = 1..(n - 1)
      /\ \A d \in Conns : \A i \in DOMAIN log[d] : i \in DOMAIN log'[d] /\ log'[d][i] = log[d][i]
  BY LogAppend DEF Inv, Tells
<1>2. AckTrue(c, q, rep)'
  <2>1. log'[c][n].req = q
    BY LogAppend DEF Inv, Tells
  <2> QED
    BY <1>1, <2>1, SMTT(30) DEF Inv, SafetyInv, AckIsCommitted, Replied, AckTrue
<1>3. k \in DOMAIN hist[v] /\ hist[v][k].by = c /\ UNCHANGED hist
  BY <1>2 DEF AckTrue, Tells
<1>4. ~\E a \in Acks : a.vault = v /\ a.version = k
  <2> SUFFICES ASSUME NEW a \in Acks, a.vault = v, a.version = k
               PROVE  FALSE
    OBVIOUS
  <2>1. PICK d \in Conns, i \in 1..MaxReplies :
          i \in DOMAIN log[d] /\ log[d][i].rep.type = "VAULT_ACK" /\ a = AckAt(log, d, i)
    BY ReadsAndAcks, ToldPairs
  <2>2. log[d][i].rep = rep
    <3>1. log[d][i].rep \in Reply
      <4>1. log[d] \in Seq(Exchange)
        BY DEF Inv, TypeInv, TypeOk
      <4>2. log[d][i] \in Exchange
        BY <2>1, <4>1
      <4> QED
        BY <4>2 DEF Exchange
    <3>2. log[d][i].rep = [type |-> "VAULT_ACK", vault |-> log[d][i].rep.vault, version |-> log[d][i].rep.version]
      BY <2>1, <3>1 DEF Reply
    <3>3. log[d][i].rep.vault = v /\ log[d][i].rep.version = k
      BY <2>1 DEF AckAt
    <3> QED
      BY <3>2, <3>3
  <2>3. i \in DOMAIN log'[d] /\ log'[d][i].rep = rep
    BY <1>1, <2>1, <2>2
  <2>4. d = c /\ i = n
    BY <1>1, <2>3 DEF Inv, SafetyInv, OneAckPerVersion, Replied
  <2> QED
    BY <1>1, <2>1, <2>4
<1>5. Reads' = Reads
  BY TellsTold
<1>6. CASE n \in 1..MaxReplies
  <2>1. Acks' = Acks \cup {[by |-> hist[v][k].by, vault |-> v, version |-> k]}
    BY <1>3, <1>6, TellsTold
  <2>2. VV!TellAck(v, k)
    BY <1>3, <1>4, <1>5, <2>1 DEF VV!TellAck
  <2> QED
    BY <1>3, <2>2 DEF VV!Next
<1>7. CASE n \notin 1..MaxReplies
  BY <1>3, <1>5, <1>7, TellsTold
<1> QED
  BY <1>6, <1>7

\* The commit of a PUT that hit accepts a write of the vault's owner.
LEMMA CommitIsAccepted ==
  ASSUME Inv, Inv', NEW c \in Conns, PutCommit(c), hit[c]
  PROVE  VV!Next
<1> DEFINE v == req[c].vault
           w == [by |-> c, user |-> user[c], blob |-> req[c].blob]
<1>1. pc[c] = "put_commit" /\ v \in Vaults /\ state[c] = "ESTABLISHED" /\ req[c] \in PutReq
  BY Where DEF PutCommit, Inv, TypeInv, ControlOk
<1>2. w \in Accepted /\ w \in VV!Write
  BY <1>1 DEF Inv, TypeInv, ControlOk, Accepted, VV!Write, PutReq
<1>3. hist' = [hist EXCEPT ![v] = Append(@, w)]
  BY DEF PutCommit
<1>4. UNCHANGED <<Reads, Acks>>
  BY SilentTold DEF PutCommit
<1>5. \A i \in DOMAIN hist[v] : hist[v][i].user = w.user
  <2>1. hist[v] \in Seq(Accepted) /\ hist'[v] = Append(hist[v], w)
    BY <1>1, <1>3 DEF Inv, TypeInv, TypeOk
  <2> SUFFICES ASSUME NEW i \in DOMAIN hist[v]
               PROVE  hist[v][i].user = w.user
    OBVIOUS
  <2> HIDE DEF v, w
  <2>2. i \in DOMAIN hist'[v] /\ hist'[v][i] = hist[v][i]
    BY <1>2, <2>1
  <2>3. Len(hist[v]) + 1 \in DOMAIN hist'[v] /\ hist'[v][Len(hist[v]) + 1] = w
    BY <1>2, <2>1
  <2> QED
    BY <1>1, <2>2, <2>3 DEF Inv, SafetyInv, OneOwner
<1>6. VV!AcceptWrite(v, w)
  BY <1>3, <1>4, <1>5 DEF VV!AcceptWrite
<1> QED
  BY <1>1, <1>2, <1>6 DEF VV!Next

LEMMA StepImplements ==
  ASSUME Inv, Inv', [Next]_vars
  PROVE  [VV!Next]_VV!vars
<1>1. CASE Silent
  <2>1. UNCHANGED <<hist, Reads, Acks>>
    BY <1>1, SilentTold DEF Silent
  <2> QED
    BY <2>1 DEF VV!vars
<1>2. ASSUME NEW c \in Conns, GetRead(c) \/ PutRead(c)
      PROVE  [VV!Next]_VV!vars
  <2>1. UNCHANGED <<hist, Reads, Acks>>
    BY <1>2, SilentTold DEF GetRead, PutRead, ReadRow
  <2> QED
    BY <2>1 DEF VV!vars
<1>3. ASSUME NEW c \in Conns, PutCommit(c), hit[c]
      PROVE  [VV!Next]_VV!vars
  BY <1>3, CommitIsAccepted
<1>4. ASSUME NEW c \in Conns, NEW q, NEW rep, Tells(c, q, rep),
             rep.type \notin {"VAULT_DATA", "VAULT_ACK"}
      PROVE  [VV!Next]_VV!vars
  <2>1. UNCHANGED <<hist, Reads, Acks>>
    BY <1>4, TellsTold DEF Tells
  <2> QED
    BY <2>1 DEF VV!vars
<1>5. ASSUME NEW c \in Conns, TellsOfVault(c)
      PROVE  [VV!Next]_VV!vars
  <2>1. req[c].vault \in Vaults
    BY <1>5, Where DEF TellsOfVault
  <2>2. CASE Tells(c, req[c], GetReply(c))
    <3>1. CASE GetReply(c) = ErrorReply("NOT_FOUND")
      BY <1>4, <2>2, <3>1 DEF ErrorReply
    <3>2. CASE GetReply(c) # ErrorReply("NOT_FOUND")
      <4>1. GetReply(c).type = "VAULT_DATA" /\ GetReply(c).vault = req[c].vault
        BY <3>2 DEF GetReply
      <4> QED
        BY <2>1, <2>2, <4>1, DataIsRead DEF VV!vars
    <3> QED
      BY <3>1, <3>2
  <2>3. CASE Tells(c, req[c], PutReply(c))
    <3>1. CASE hit[c]
      <4>1. PutReply(c) = [type |-> "VAULT_ACK", vault |-> req[c].vault, version |-> NewVersion(c)]
        BY <3>1 DEF PutReply
      <4>2. PutReply(c).type = "VAULT_ACK" /\ PutReply(c).vault = req[c].vault /\ PutReply(c).version = NewVersion(c)
        BY <4>1
      <4> QED
        BY <2>1, <2>3, <4>1, <4>2, AckIsNew DEF VV!vars
    <3>2. CASE ~hit[c]
      BY <1>4, <2>3, <3>2 DEF PutReply, ErrorReply
    <3> QED
      BY <3>1, <3>2
  <2>4. ASSUME NEW code, Tells(c, req[c], ErrorReply(code)) PROVE [VV!Next]_VV!vars
    BY <1>4, <2>4 DEF ErrorReply
  <2> QED
    BY <1>5, <2>2, <2>3, <2>4 DEF TellsOfVault
<1>6. ASSUME NEW c \in Conns, TellsOther(c)
      PROVE  [VV!Next]_VV!vars
  BY <1>4, <1>6 DEF TellsOther
<1> QED
  BY <1>1, <1>2, <1>3, <1>5, <1>6, StepKinds

LEMMA InitImplements == Init => VV!Init
<1> SUFFICES ASSUME Init PROVE VV!Init
  OBVIOUS
<1>1. \A c \in Conns : DOMAIN log[c] = {}
  <2>1. \A c \in Conns : log[c] = <<>>
    BY DEF Init
  <2>2. \A s : s = <<>> => DOMAIN s = {}
    OBVIOUS
  <2> QED
    BY <2>1, <2>2
<1>2. Reads = {} /\ Acks = {}
  BY <1>1, ReadsAndAcks, ToldPairs
<1> QED
  BY <1>2 DEF Init, VV!Init

\* Handlers, database, client departures and crashes together are a versioned
\* vault: every step is an accepted write, a version told, an acknowledgement, or
\* nothing (server.py:229-720, database.py:140-201).
THEOREM ServerIsVersionedVault == Spec => ImplementsVersionedVault
<1>1. Inv /\ Inv' /\ [Next]_vars => [VV!Next]_VV!vars
  BY StepImplements
<1> QED
  BY <1>1, InitImplements, AlwaysInv, PTL DEF Spec, ImplementsVersionedVault, VV!Spec

=============================================================================
