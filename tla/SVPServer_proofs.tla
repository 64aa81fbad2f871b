--------------------------- MODULE SVPServer_proofs ---------------------------
(***************************************************************************)
(* Theorems about SVPServer, for every value of its constants.             *)
(***************************************************************************)
EXTENDS SVPServer, TLAPS

USE DEF Pcs, States, AuthPcs, GetPcs, PutPcs

-----------------------------------------------------------------------------
\* Type correctness.  TypeOk alone is not inductive: what req[c] and user[c]
\* are depends on where the handler is, which ControlOk says.

TypeInv == TypeOk /\ ControlOk

LEMMA InitTypeInv == Init => TypeInv
  BY BoundsAssumption DEF Init, DbInit, TypeInv, TypeOk, DbTypeOk, ControlOk

\* A reply is a Reply, a request a Request, so the log stays a log.
LEMMA LogReplyType ==
  ASSUME log \in [Conns -> Seq(Exchange)], NEW c \in Conns,
         NEW r \in Request, NEW rep \in Reply, LogReply(c, r, rep)
  PROVE  log' \in [Conns -> Seq(Exchange)]
<1> DEFINE x == [req |-> r, rep |-> rep]
<1>1. x \in Exchange
  BY DEF Exchange
<1>2. Append(log[c], x) \in Seq(Exchange)
  BY <1>1
<1>3. log' = [log EXCEPT ![c] = Append(log[c], x)]
  BY DEF LogReply
<1> HIDE DEF x
<1> QED
  BY <1>2, <1>3

\* A frame is of the kind its type field says.
LEMMA FrameKind ==
  ASSUME NEW f \in Frames
  PROVE  /\ f \in Request
         /\ f.type = "HELLO" => f \in HelloReq
         /\ f.type = "AUTH" => f \in AuthReq
         /\ f.type = "VAULT_GET" => f \in GetReq
         /\ f.type = "VAULT_PUT" => f \in PutReq
  BY FramesAssumption DEF Request, HelloReq, AuthReq, GetReq, PutReq, SignalReq

\* The requests of handlers that wait for the database are requests.
LEMMA PendingRequest ==
  ASSUME TypeInv, NEW c \in Conns, pc[c] \in AuthPcs \cup GetPcs \cup PutPcs
  PROVE  req[c] \in Request
  BY DEF TypeInv, ControlOk, Request

\* Leaving the handler keeps the types, whatever was logged before.
LEMMA FinishTypeInv ==
  ASSUME TypeInv, NEW c \in Conns, Finish(c),
         log' \in [Conns -> Seq(Exchange)], shown' \in SUBSET Credentials,
         UNCHANGED <<client, user, expiry, now, hist>>
  PROVE  TypeInv'
<1>1. DbTypeOk'
  BY DEF TypeInv, TypeOk, DbTypeOk, Finish, Rollback
<1>2. TypeOk'
  <2>1. /\ state' \in [Conns -> States]
        /\ pc' \in [Conns -> Pcs]
        /\ req' \in [Conns -> Request \cup {None}]
        /\ row' \in [Conns -> VaultRow \cup {None}]
        /\ hit' \in [Conns -> BOOLEAN]
    BY DEF TypeInv, TypeOk, Finish
  <2>2. frags' \in [Conns -> 0..MaxFrags]
    BY BoundsAssumption DEF TypeInv, TypeOk, Finish
  <2> QED
    BY <1>1, <2>1, <2>2 DEF TypeInv, TypeOk
<1>3. ControlOk'
  BY DEF TypeInv, TypeOk, ControlOk, Finish
<1> QED
  BY <1>2, <1>3 DEF TypeInv

LEMMA AcceptTypeInv ==
  ASSUME TypeInv, NEW c \in Conns, Accept(c)
  PROVE  TypeInv'
  BY DEF TypeInv, TypeOk, DbTypeOk, dbVars, ControlOk, Accept, Reading

LEMMA HelloTypeInv ==
  ASSUME TypeInv, NEW c \in Conns, NEW f \in Frames, Hello(c, f)
  PROVE  TypeInv'
<1>1. f \in HelloReq /\ f \in Request
  BY FrameKind DEF Hello
<1>2. log' \in [Conns -> Seq(Exchange)]
  <2>1. [type |-> "CHALLENGE"] \in Reply
    BY DEF Reply
  <2> QED
    BY <1>1, <2>1, LogReplyType DEF Hello, TypeInv, TypeOk
<1>3. TypeOk'
  BY <1>1, <1>2 DEF TypeInv, TypeOk, DbTypeOk, dbVars, Hello, HelloReq
<1>4. ControlOk'
  BY <1>1 DEF TypeInv, TypeOk, ControlOk, Hello, Reading, HelloReq
<1> QED
  BY <1>3, <1>4 DEF TypeInv

LEMMA AuthTypeInv ==
  ASSUME TypeInv, NEW c \in Conns, NEW f \in Frames, Auth(c, f)
  PROVE  TypeInv'
<1>1. f \in AuthReq /\ f \in Request
  BY FrameKind DEF Auth
<1>2. TypeOk'
  BY <1>1 DEF TypeInv, TypeOk, DbTypeOk, dbVars, Auth, Goto
<1>3. ControlOk'
  BY <1>1 DEF TypeInv, TypeOk, ControlOk, Auth, Reading, Goto
<1> QED
  BY <1>2, <1>3 DEF TypeInv

LEMMA AuthenticateTypeInv ==
  ASSUME TypeInv, NEW c \in Conns, Authenticate(c)
  PROVE  TypeInv'
<1>1. /\ state[c] = "AUTHENTICATING" /\ client[c] \in Clients
      /\ req[c] \in AuthReq /\ req[c] \in Request
  BY PendingRequest DEF TypeInv, TypeOk, ControlOk, Authenticate
<1>2. shown' \in SUBSET Credentials
  BY <1>1 DEF Authenticate, TypeInv, TypeOk, Credentials, AuthReq
<1>3. CASE AuthValid(c, req[c])
  <2>1. req[c].user \in Users /\ now + TTL \in Nat
    BY <1>3, BoundsAssumption DEF AuthValid, PasswordValid, RefreshValid, TypeInv, TypeOk
  <2>2. TypeOk'
    <3>1. /\ user' = [user EXCEPT ![c] = req[c].user]
          /\ expiry' = [expiry EXCEPT ![c] = now + TTL]
          /\ pc' = [pc EXCEPT ![c] = "session_execute"]
      BY <1>3 DEF Authenticate, Goto
    <3>2. /\ user' \in [Conns -> Users \cup {None}]
          /\ expiry' \in [Conns -> Nat]
          /\ pc' \in [Conns -> Pcs]
      BY <2>1, <3>1 DEF TypeInv, TypeOk
    <3>3. UNCHANGED <<dbVars, state, client, req, row, hit, frags, log, now, hist>>
      BY <1>3 DEF Authenticate
    <3> QED
      BY <1>2, <3>2, <3>3 DEF TypeInv, TypeOk, DbTypeOk, dbVars
  <2>3. ControlOk'
    BY <1>1, <1>3, <2>1 DEF Authenticate, TypeInv, TypeOk, ControlOk, Goto
  <2> QED
    BY <2>2, <2>3 DEF TypeInv
<1>4. CASE ~AuthValid(c, req[c])
  <2>1. [type |-> "AUTH_FAIL"] \in Reply
    BY DEF Reply
  <2>2. log' \in [Conns -> Seq(Exchange)]
    BY <1>1, <1>4, <2>1, LogReplyType DEF Authenticate, TypeInv, TypeOk
  <2> QED
    BY <1>2, <1>4, <2>2, FinishTypeInv DEF Authenticate
<1> QED
  BY <1>3, <1>4

LEMMA SessionExecuteTypeInv ==
  ASSUME TypeInv, NEW c \in Conns, SessionExecute(c)
  PROVE  TypeInv'
<1> DEFINE s == [user |-> user[c], client |-> client[c], expiry |-> expiry[c]]
<1>1. s \in SessionRow /\ state[c] = "AUTHENTICATING"
  BY DEF TypeInv, TypeOk, ControlOk, SessionExecute, SessionRow
<1>2. DbTypeOk'
  BY <1>1 DEF TypeInv, TypeOk, DbTypeOk, SessionExecute, ExecuteSession, Txn
<1>3. TypeOk'
  BY <1>2 DEF TypeInv, TypeOk, SessionExecute, Goto
<1>4. ControlOk'
  BY <1>1 DEF TypeInv, TypeOk, ControlOk, SessionExecute, Goto
<1> QED
  BY <1>3, <1>4 DEF TypeInv

LEMMA CommitType ==
  ASSUME DbTypeOk, NEW c \in Conns, Commit(c)
  PROVE  DbTypeOk'
  BY DEF DbTypeOk, Commit, Txn

LEMMA SessionCommitTypeInv ==
  ASSUME TypeInv, NEW c \in Conns, SessionCommit(c)
  PROVE  TypeInv'
<1>1. DbTypeOk'
  BY CommitType DEF TypeInv, TypeOk, SessionCommit
<1>2. TypeOk'
  BY <1>1 DEF TypeInv, TypeOk, SessionCommit, Goto
<1>3. ControlOk'
  BY DEF TypeInv, TypeOk, ControlOk, SessionCommit, Goto
<1> QED
  BY <1>2, <1>3 DEF TypeInv

\* A reply followed by "continue" keeps the types.
LEMMA ReplyTypeInv ==
  ASSUME TypeInv, NEW c \in Conns, NEW rep \in Reply,
         pc[c] \in AuthPcs \cup GetPcs \cup PutPcs,
         LogReply(c, req[c], rep), Continue(c),
         UNCHANGED <<dbVars, client, user, expiry, frags, now, hist, shown>>,
         \/ UNCHANGED state /\ pc[c] \notin AuthPcs
         \/ state' = [state EXCEPT ![c] = "ESTABLISHED"] /\ pc[c] \in AuthPcs \ {"auth"}
  PROVE  TypeInv'
<1>1. log' \in [Conns -> Seq(Exchange)]
  BY PendingRequest, LogReplyType DEF TypeInv, TypeOk
<1>2. TypeOk'
  BY <1>1 DEF TypeInv, TypeOk, DbTypeOk, dbVars, Continue, Goto
<1>3. ControlOk'
  BY DEF TypeInv, TypeOk, ControlOk, Continue, Goto
<1> QED
  BY <1>2, <1>3 DEF TypeInv

LEMMA AuthOkTypeInv ==
  ASSUME TypeInv, NEW c \in Conns, AuthOk(c)
  PROVE  TypeInv'
<1> DEFINE rep == [type |-> "AUTH_OK", token |-> c, expiry |-> expiry[c], vault_version |-> 0]
<1>1. rep \in Reply
  BY DEF Reply, TypeInv, TypeOk
<1> QED
  BY <1>1, ReplyTypeInv DEF AuthOk

LEMMA SignalTypeInv ==
  ASSUME TypeInv, NEW c \in Conns, NEW f \in Frames, Ping(c, f) \/ Bye(c, f)
  PROVE  TypeInv'
<1>1. f \in Request
  BY FrameKind
<1>2. [type |-> "PONG"] \in Reply /\ [type |-> "BYE"] \in Reply
  BY DEF Reply
<1>3. log' \in [Conns -> Seq(Exchange)]
  BY <1>1, <1>2, LogReplyType DEF Ping, Bye, TypeInv, TypeOk
<1>4. CASE Ping(c, f)
  <2>1. TypeOk'
    BY <1>3, <1>4 DEF TypeInv, TypeOk, DbTypeOk, dbVars, Ping
  <2>2. ControlOk'
    BY <1>4 DEF TypeInv, ControlOk, Ping
  <2> QED
    BY <2>1, <2>2 DEF TypeInv
<1>5. CASE Bye(c, f)
  BY <1>3, <1>5, FinishTypeInv DEF Bye, TypeInv, TypeOk
<1> QED
  BY <1>4, <1>5

LEMMA VaultGetTypeInv ==
  ASSUME TypeInv, NEW c \in Conns, NEW f \in Frames, VaultGet(c, f)
  PROVE  TypeInv'
<1>1. f \in GetReq /\ f \in Request
  BY FrameKind DEF VaultGet
<1>2. TypeOk'
  BY <1>1 DEF TypeInv, TypeOk, DbTypeOk, dbVars, VaultGet, Goto
<1>3. ControlOk'
  BY <1>1 DEF TypeInv, TypeOk, ControlOk, VaultGet, Reading, Goto
<1> QED
  BY <1>2, <1>3 DEF TypeInv

LEMMA VaultPutTypeInv ==
  ASSUME TypeInv, NEW c \in Conns, NEW f \in Frames, VaultPut(c, f)
  PROVE  TypeInv'
<1>1. f \in PutReq /\ f \in Request
  BY FrameKind DEF VaultPut
<1>2. frags' \in [Conns -> 0..MaxFrags]
  <2>1. 0 \in 0..MaxFrags
    BY BoundsAssumption
  <2>2. UNCHANGED frags \/ frags' = [frags EXCEPT ![c] = 0]
    BY DEF VaultPut
  <2> QED
    BY <2>1, <2>2 DEF TypeInv, TypeOk
<1>3. TypeOk'
  BY <1>1, <1>2 DEF TypeInv, TypeOk, DbTypeOk, dbVars, VaultPut, Goto
<1>4. ControlOk'
  BY <1>1 DEF TypeInv, TypeOk, ControlOk, VaultPut, Reading, Goto
<1> QED
  BY <1>3, <1>4 DEF TypeInv

LEMMA FragmentTypeInv ==
  ASSUME TypeInv, NEW c \in Conns, PutFragment(c) \/ FragmentTimeout(c)
  PROVE  TypeInv'
<1>1. frags' \in [Conns -> 0..MaxFrags]
  <2>1. frags[c] \in 0..MaxFrags /\ MaxFrags \in Nat
    BY BoundsAssumption DEF TypeInv, TypeOk
  <2>2. CASE PutFragment(c)
    <3>1. frags[c] + 1 \in 0..MaxFrags
      BY <2>1, <2>2 DEF PutFragment
    <3>2. frags' = [frags EXCEPT ![c] = frags[c] + 1]
      BY <2>2 DEF PutFragment
    <3> QED
      BY <3>1, <3>2 DEF TypeInv, TypeOk
  <2>3. CASE FragmentTimeout(c)
    <3>1. 0 \in 0..MaxFrags /\ frags' = [frags EXCEPT ![c] = 0]
      BY <2>1, <2>3 DEF FragmentTimeout
    <3> QED
      BY <3>1 DEF TypeInv, TypeOk
  <2> QED
    BY <2>2, <2>3
<1>2. TypeOk'
  BY <1>1 DEF TypeInv, TypeOk, DbTypeOk, dbVars, PutFragment, FragmentTimeout
<1>3. ControlOk'
  BY DEF TypeInv, ControlOk, PutFragment, FragmentTimeout
<1> QED
  BY <1>2, <1>3 DEF TypeInv

LEMMA ReadTypeInv ==
  ASSUME TypeInv, NEW c \in Conns, GetRead(c) \/ PutRead(c)
  PROVE  TypeInv'
<1>1. req[c] \in GetReq \cup PutReq /\ state[c] = "ESTABLISHED"
  BY DEF TypeInv, TypeOk, ControlOk, GetRead, PutRead, ReadRow
<1>2. vaults[req[c].vault] \in VaultRow \cup {None}
  BY <1>1 DEF TypeInv, TypeOk, DbTypeOk, GetReq, PutReq
<1>3. TypeOk'
  BY <1>2 DEF TypeInv, TypeOk, DbTypeOk, dbVars, GetRead, PutRead, ReadRow, Goto
<1>4. ControlOk'
  BY DEF TypeInv, TypeOk, ControlOk, GetRead, PutRead, ReadRow, Goto
<1> QED
  BY <1>3, <1>4 DEF TypeInv

\* The version a PUT tries to store is a positive number.
LEMMA NewVersionType ==
  ASSUME TypeInv, NEW c \in Conns
  PROVE  CurrentVersion(c) \in Nat /\ NewVersion(c) \in Nat \ {0}
<1>1. row[c] \in VaultRow \cup {None}
  BY DEF TypeInv, TypeOk
<1>2. CurrentVersion(c) \in Nat
  BY <1>1 DEF CurrentVersion, VaultRow
<1> QED
  BY <1>2 DEF NewVersion

LEMMA GetDoneTypeInv ==
  ASSUME TypeInv, NEW c \in Conns, GetDone(c)
  PROVE  TypeInv'
<1>1. req[c] \in GetReq
  BY DEF TypeInv, ControlOk, GetDone
<1>2. GetReply(c) \in Reply
  <2>1. CASE row[c] = None \/ ForeignRow(c)
    BY <2>1 DEF GetReply, Reply, ErrorReply
  <2>2. CASE ~(row[c] = None \/ ForeignRow(c))
    <3>1. row[c] \in VaultRow
      BY <2>2 DEF TypeInv, TypeOk
    <3> QED
      BY <1>1, <2>2, <3>1 DEF GetReply, Reply, VaultRow, GetReq
  <2> QED
    BY <2>1, <2>2
<1> QED
  BY <1>2, ReplyTypeInv DEF GetDone

LEMMA PutCheckTypeInv ==
  ASSUME TypeInv, NEW c \in Conns, PutCheck(c)
  PROVE  TypeInv'
<1>1. ErrorReply("NOT_FOUND") \in Reply /\ ErrorReply("CONFLICT") \in Reply
  BY DEF ErrorReply, Reply
<1>2. CASE pc' = [pc EXCEPT ![c] = "put_execute"] /\ UNCHANGED <<req, row, hit, log>>
  <2>1. TypeOk'
    BY <1>2 DEF TypeInv, TypeOk, DbTypeOk, dbVars, PutCheck
  <2>2. ControlOk'
    BY <1>2 DEF TypeInv, TypeOk, ControlOk, PutCheck
  <2> QED
    BY <2>1, <2>2 DEF TypeInv
<1>3. CASE Continue(c) /\ \E rep \in Reply : LogReply(c, req[c], rep)
  BY <1>3, ReplyTypeInv DEF PutCheck
<1> QED
  BY <1>1, <1>2, <1>3 DEF PutCheck, Goto

LEMMA PutExecuteTypeInv ==
  ASSUME TypeInv, NEW c \in Conns, PutExecute(c)
  PROVE  TypeInv'
<1> DEFINE r == [user |-> user[c], version |-> NewVersion(c), blob |-> req[c].blob]
<1>1. req[c] \in PutReq /\ user[c] \in Users /\ NewVersion(c) \in Nat \ {0}
  BY NewVersionType DEF TypeInv, TypeOk, ControlOk, PutExecute
<1>2. r \in VaultRow
  BY <1>1 DEF VaultRow, PutReq
<1>3. DbTypeOk'
  BY <1>1, <1>2 DEF TypeInv, TypeOk, DbTypeOk, PutExecute, ExecuteUpsert, Txn, PutReq
<1>4. TypeOk'
  BY <1>3 DEF TypeInv, TypeOk, PutExecute, Goto, UpsertHits
<1>5. ControlOk'
  BY DEF TypeInv, TypeOk, ControlOk, PutExecute, Goto
<1> QED
  BY <1>4, <1>5 DEF TypeInv

LEMMA PutCommitTypeInv ==
  ASSUME TypeInv, NEW c \in Conns, PutCommit(c)
  PROVE  TypeInv'
<1> DEFINE w == [by |-> c, user |-> user[c], blob |-> req[c].blob]
<1>1. req[c] \in PutReq /\ user[c] \in Users
  BY DEF TypeInv, TypeOk, ControlOk, PutCommit
<1>2. w \in Accepted
  BY <1>1 DEF Accepted, PutReq
<1>3. hist' \in [Vaults -> Seq(Accepted)]
  <2>1. Append(hist[req[c].vault], w) \in Seq(Accepted)
    BY <1>1, <1>2 DEF TypeInv, TypeOk, PutReq
  <2>2. \/ UNCHANGED hist
        \/ hist' = [hist EXCEPT ![req[c].vault] = Append(hist[req[c].vault], w)]
    BY DEF PutCommit
  <2> HIDE DEF w
  <2> QED
    BY <2>1, <2>2 DEF TypeInv, TypeOk
<1>4. DbTypeOk'
  BY CommitType DEF TypeInv, TypeOk, PutCommit
<1>5. TypeOk'
  BY <1>3, <1>4 DEF TypeInv, TypeOk, PutCommit, Goto
<1>6. ControlOk'
  BY DEF TypeInv, TypeOk, ControlOk, PutCommit, Goto
<1> QED
  BY <1>5, <1>6 DEF TypeInv

LEMMA PutDoneTypeInv ==
  ASSUME TypeInv, NEW c \in Conns, PutDone(c)
  PROVE  TypeInv'
<1>1. req[c] \in PutReq
  BY DEF TypeInv, ControlOk, PutDone
<1>2. PutReply(c) \in Reply
  BY <1>1, NewVersionType DEF PutReply, Reply, ErrorReply, PutReq
<1> QED
  BY <1>2, ReplyTypeInv DEF PutDone

LEMMA EndTypeInv ==
  ASSUME TypeInv, NEW c \in Conns, ReadEnds(c) \/ BusyTimeout(c) \/ HandlerFails(c)
  PROVE  TypeInv'
  BY FinishTypeInv DEF ReadEnds, BusyTimeout, HandlerFails, TypeInv, TypeOk

LEMMA CrashTypeInv ==
  ASSUME TypeInv, Crash
  PROVE  TypeInv'
<1>1. DbTypeOk'
  BY DEF TypeInv, TypeOk, DbTypeOk, Crash, CrashRollback
<1>2. TypeOk'
  BY <1>1, BoundsAssumption DEF TypeInv, TypeOk, Crash, Open
<1>3. ControlOk'
  BY DEF TypeInv, TypeOk, ControlOk, Crash, Open
<1> QED
  BY <1>2, <1>3 DEF TypeInv

LEMMA TickTypeInv ==
  ASSUME TypeInv, Tick
  PROVE  TypeInv'
  BY DEF TypeInv, TypeOk, DbTypeOk, dbVars, handlerVars, ControlOk, Tick

LEMMA StutterTypeInv ==
  ASSUME TypeInv, UNCHANGED vars
  PROVE  TypeInv'
  BY DEF TypeInv, TypeOk, DbTypeOk, ControlOk, vars

LEMMA NextTypeInv == TypeInv /\ [Next]_vars => TypeInv'
<1> SUFFICES ASSUME TypeInv, [Next]_vars
             PROVE  TypeInv'
  OBVIOUS
<1>1. ASSUME NEW c \in Conns, Accept(c)
      PROVE  TypeInv'
  BY <1>1, AcceptTypeInv
<1>2. ASSUME NEW c \in Conns, FrameStep(c)
      PROVE  TypeInv'
  BY <1>2, HelloTypeInv, AuthTypeInv, SignalTypeInv, VaultGetTypeInv, VaultPutTypeInv,
     FragmentTypeInv DEF FrameStep
<1>3. ASSUME NEW c \in Conns, HandlerStep(c)
      PROVE  TypeInv'
  BY <1>3, AuthenticateTypeInv, SessionExecuteTypeInv, SessionCommitTypeInv, AuthOkTypeInv,
     ReadTypeInv, GetDoneTypeInv, PutCheckTypeInv, PutExecuteTypeInv, PutCommitTypeInv,
     PutDoneTypeInv, EndTypeInv DEF HandlerStep
<1>4. ASSUME NEW c \in Conns, FragmentTimeout(c) \/ ReadEnds(c) \/ HandlerFails(c)
      PROVE  TypeInv'
  BY <1>4, FragmentTypeInv, EndTypeInv
<1>5. CASE Crash
  BY <1>5, CrashTypeInv
<1>6. CASE Tick
  BY <1>6, TickTypeInv
<1>7. CASE AllClosed \/ UNCHANGED vars
  BY <1>7, StutterTypeInv DEF AllClosed
<1> QED
  BY <1>1, <1>2, <1>3, <1>4, <1>5, <1>6, <1>7 DEF Next

\* Every variable keeps its type, and a handler that waits for the database
\* holds the request, user and client its next step needs (server.py:310-318
\* initialises all of them to None).
THEOREM TypeCorrect == Spec => [](TypeOk /\ ControlOk)
<1>1. Spec => []TypeInv
  BY InitTypeInv, NextTypeInv, PTL DEF Spec
<1>2. TypeInv => TypeOk /\ ControlOk
  BY DEF TypeInv
<1> QED
  BY <1>1, <1>2, PTL
=============================================================================
