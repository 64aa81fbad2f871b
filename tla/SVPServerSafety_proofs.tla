------------------------ MODULE SVPServerSafety_proofs ------------------------
(***************************************************************************)
(* The safety of SVPServer, for every value of its constants: SafetyInv is *)
(* inductive relative to the type invariant.  The conjuncts an action can  *)
(* disturb are proved under that action; the lemmas of the first section   *)
(* carry the others over.                                                  *)
(***************************************************************************)
EXTENDS SVPServer_proofs

USE DEF Pcs, States, AuthPcs, GetPcs, PutPcs

Inv == TypeInv /\ SafetyInv

LEMMA InitSafetyInv == Init => SafetyInv
<1> SUFFICES ASSUME Init PROVE SafetyInv
  OBVIOUS
<1>1. TxnOk /\ RowWasCommitted /\ PutWasChecked /\ PutIsDone /\ EarlyReplies /\ SessionIsDone
  BY DEF Init, DbInit, TxnOk, RowWasCommitted, PutWasChecked, PutIsDone, EarlyReplies, SessionIsDone,
     SessionPending, PutPending
<1>2. RowIsLastPut /\ OneOwner
  BY DEF Init, DbInit, RowIsLastPut, OneOwner
<1>3. AckIsCommitted /\ OneAckPerVersion /\ DataIsCommitted /\ TokenIsStored
  BY DEF Init, AckIsCommitted, OneAckPerVersion, DataIsCommitted, TokenIsStored
<1> QED
  BY <1>1, <1>2, <1>3 DEF SafetyInv

\* Where a handler is tells its state.
LEMMA Where ==
  ASSUME Inv, NEW c \in Conns
  PROVE  /\ pc[c] \in AuthPcs => state[c] = "AUTHENTICATING"
         /\ pc[c] \in GetPcs \cup PutPcs => state[c] = "ESTABLISHED" /\ req[c].vault \in Vaults
<1>1. state[c] \in States /\ pc[c] \in Pcs
  BY DEF Inv, TypeInv, TypeOk
<1>2. /\ pc[c] \in AuthPcs => state[c] = "AUTHENTICATING"
      /\ pc[c] \in GetPcs \cup PutPcs => state[c] = "ESTABLISHED"
  BY <1>1 DEF Inv, TypeInv, ControlOk
<1>3. pc[c] \in GetPcs \cup PutPcs => req[c] \in GetReq \cup PutReq
  BY DEF Inv, TypeInv, ControlOk
<1> QED
  BY <1>2, <1>3 DEF GetReq, PutReq

\* What the last accepted PUT leaves in the table is a row.
LEMMA StoredIsRow ==
  ASSUME NEW h \in Seq(Accepted), Len(h) # 0
  PROVE  /\ [user |-> h[Len(h)].user, version |-> Len(h), blob |-> h[Len(h)].blob] \in VaultRow
         /\ [user |-> h[Len(h)].user, version |-> Len(h), blob |-> h[Len(h)].blob] # None
         /\ Len(h) \in DOMAIN h
<1>1. Len(h) \in Nat \ {0} /\ Len(h) \in DOMAIN h
  OBVIOUS
<1>2. h[Len(h)] \in Accepted
  BY <1>1
<1>3. [user |-> h[Len(h)].user, version |-> Len(h), blob |-> h[Len(h)].blob] \in VaultRow
  BY <1>1, <1>2 DEF Accepted, VaultRow
<1> QED
  BY <1>1, <1>3, NoneAssumption

-----------------------------------------------------------------------------
\* What a step leaves alone.

\* What was told stays true while nothing new is told.
Told == AckIsCommitted /\ OneAckPerVersion /\ DataIsCommitted /\ TokenIsStored

LEMMA KeepStored ==
  ASSUME SafetyInv, UNCHANGED <<vaults, hist>>
  PROVE  RowIsLastPut' /\ OneOwner'
  BY DEF SafetyInv, RowIsLastPut, OneOwner

LEMMA KeepTrue ==
  ASSUME UNCHANGED <<sessions, user, client, hist>>, NEW c, NEW q, NEW r
  PROVE  /\ AckTrue(c, q, r)' <=> AckTrue(c, q, r)
         /\ DataTrue(c, r)' <=> DataTrue(c, r)
         /\ TokenTrue(c, r)' <=> TokenTrue(c, r)
  BY DEF AckTrue, DataTrue, TokenTrue

LEMMA KeepVersionsTold ==
  ASSUME SafetyInv, UNCHANGED <<user, log, hist>>
  PROVE  AckIsCommitted' /\ DataIsCommitted' /\ OneAckPerVersion'
<1>1. AckIsCommitted'
  BY SMTT(30) DEF SafetyInv, AckIsCommitted, AckTrue, Replied
<1>2. DataIsCommitted'
  BY SMTT(30) DEF SafetyInv, DataIsCommitted, DataTrue, Replied
<1>3. OneAckPerVersion'
  BY DEF SafetyInv, OneAckPerVersion, Replied
<1> QED
  BY <1>1, <1>2, <1>3

LEMMA KeepTold ==
  ASSUME SafetyInv, UNCHANGED <<sessions, user, client, log, hist>>
  PROVE  Told'
<1>1. TokenIsStored'
  BY DEF SafetyInv, TokenIsStored, TokenTrue, Replied
<1> QED
  BY <1>1, KeepVersionsTold DEF Told

\* Appending an exchange to the log of c.
LEMMA LogAppend ==
  ASSUME TypeInv, NEW c \in Conns, NEW r, NEW rep, LogReply(c, r, rep)
  PROVE  LET n == Len(log[c]) + 1 IN
         /\ n \in Nat
         /\ DOMAIN log[c] = 1..(n - 1)
         /\ DOMAIN log'[c] = 1..n
         /\ log'[c][n].req = r /\ log'[c][n].rep = rep
         /\ \A i \in 1..(n - 1) : log'[c][i] = log[c][i]
         /\ \A d \in Conns \ {c} : log'[d] = log[d]
<1> DEFINE x == [req |-> r, rep |-> rep]
<1>1. log[c] \in Seq(Exchange)
  BY DEF TypeInv, TypeOk
<1>2. log' = [log EXCEPT ![c] = Append(log[c], x)]
  BY DEF LogReply
<1>3. log'[c] = Append(log[c], x) /\ \A d \in Conns \ {c} : log'[d] = log[d]
  BY <1>2 DEF TypeInv, TypeOk
<1>4. x.req = r /\ x.rep = rep
  OBVIOUS
<1> HIDE DEF x
<1> QED
  BY <1>1, <1>3, <1>4

\* What was told stays true when what is told now is true.
LEMMA TellTrue ==
  ASSUME Inv, NEW c \in Conns, NEW r, NEW rep, LogReply(c, r, rep),
         UNCHANGED <<sessions, user, client, hist>>,
         rep.type = "VAULT_ACK" =>
           AckTrue(c, r, rep) /\ \A i \in DOMAIN log[c] : log[c][i].rep # rep,
         rep.type = "VAULT_DATA" => DataTrue(c, rep),
         rep.type = "AUTH_OK" => TokenTrue(c, rep)
  PROVE  Told'
<1> DEFINE n == Len(log[c]) + 1
<1>1. /\ n \in Nat
      /\ DOMAIN log[c] = 1..(n - 1)
      /\ DOMAIN log'[c] = 1..n
      /\ log'[c][n].req = r /\ log'[c][n].rep = rep
      /\ \A i \in 1..(n - 1) : log'[c][i] = log[c][i]
      /\ \A d \in Conns \ {c} : log'[d] = log[d]
  BY LogAppend DEF Inv
<1>2. \A d \in Conns : \A i \in DOMAIN log'[d] :
        \/ d = c /\ i = n
        \/ i \in DOMAIN log[d] /\ log'[d][i] = log[d][i] /\ ~(d = c /\ i = n)
  BY <1>1
<1> HIDE DEF n
<1>3. AckIsCommitted'
  <2> SUFFICES ASSUME NEW d \in Conns, NEW i \in DOMAIN log'[d],
                      NEW q, NEW t, q = log'[d][i].req, t = log'[d][i].rep, t.type = "VAULT_ACK"
               PROVE  AckTrue(d, q, t)'
    BY DEF AckIsCommitted, Replied, AckTrue
  <2>1. CASE d = c /\ i = n
    BY <1>1, <2>1, KeepTrue
  <2>2. CASE i \in DOMAIN log[d] /\ log'[d][i] = log[d][i]
    <3>1. AckTrue(d, q, t)
      BY <2>2 DEF Inv, SafetyInv, AckIsCommitted, Replied
    <3> QED
      BY <3>1, KeepTrue
  <2> QED
    BY <1>2, <2>1, <2>2
<1>4. DataIsCommitted'
  <2> SUFFICES ASSUME NEW d \in Conns, NEW i \in DOMAIN log'[d],
                      NEW t, t = log'[d][i].rep, t.type = "VAULT_DATA"
               PROVE  DataTrue(d, t)'
    BY DEF DataIsCommitted, Replied, DataTrue
  <2>1. CASE d = c /\ i = n
    BY <1>1, <2>1, KeepTrue
  <2>2. CASE i \in DOMAIN log[d] /\ log'[d][i] = log[d][i]
    <3>1. DataTrue(d, t)
      BY <2>2 DEF Inv, SafetyInv, DataIsCommitted, Replied
    <3> QED
      BY <3>1, KeepTrue
  <2> QED
    BY <1>2, <2>1, <2>2
<1>5. TokenIsStored'
  <2> SUFFICES ASSUME NEW d \in Conns, NEW i \in DOMAIN log'[d],
                      NEW t, t = log'[d][i].rep, t.type = "AUTH_OK"
               PROVE  TokenTrue(d, t)'
    BY DEF TokenIsStored, Replied, TokenTrue
  <2>1. CASE d = c /\ i = n
    BY <1>1, <2>1, KeepTrue
  <2>2. CASE i \in DOMAIN log[d] /\ log'[d][i] = log[d][i]
    <3>1. TokenTrue(d, t)
      BY <2>2 DEF Inv, SafetyInv, TokenIsStored, Replied
    <3> QED
      BY <3>1, KeepTrue
  <2> QED
    BY <1>2, <2>1, <2>2
<1>6. OneAckPerVersion'
  <2> SUFFICES ASSUME NEW d \in Conns, NEW e \in Conns,
                      NEW i \in DOMAIN log'[d], NEW j \in DOMAIN log'[e],
                      log'[d][i].rep.type = "VAULT_ACK",
                      log'[d][i].rep = log'[e][j].rep
               PROVE  d = e /\ i = j
    BY DEF OneAckPerVersion, Replied
  <2>1. CASE i \in DOMAIN log[d] /\ log'[d][i] = log[d][i] /\ j \in DOMAIN log[e] /\ log'[e][j] = log[e][j]
    BY <2>1 DEF Inv, SafetyInv, OneAckPerVersion, Replied
  <2>2. d = e
    <3>1. ASSUME NEW x \in Conns, NEW k \in DOMAIN log'[x],
                 NEW q, NEW t, q = log'[x][k].req, t = log'[x][k].rep, t.type = "VAULT_ACK"
          PROVE  hist[t.vault][t.version].by = x
      <4>1. AckTrue(x, q, t)'
        BY <1>3, <3>1 DEF AckIsCommitted, AckTrue, Replied
      <4>2. AckTrue(x, q, t)
        BY <4>1, KeepTrue
      <4> QED
        BY <4>2 DEF AckTrue
    <3> QED
      BY <3>1
  <2>3. CASE d = c /\ i = n /\ j # n
    BY <1>1, <1>2, <2>2, <2>3
  <2>4. CASE e = c /\ j = n /\ i # n
    BY <1>1, <1>2, <2>2, <2>4
  <2> QED
    BY <1>2, <2>1, <2>2, <2>3, <2>4
<1> QED
  BY <1>3, <1>4, <1>5, <1>6 DEF Told

\* Before the session is established nothing is told that depends on the user
\* or the client of the connection.
LEMMA TellEarly ==
  ASSUME Inv, NEW c \in Conns, UNCHANGED <<sessions, hist>>,
         \A d \in Conns \ {c} : user'[d] = user[d] /\ client'[d] = client[d] /\ log'[d] = log[d],
         \A i \in DOMAIN log'[c] : log'[c][i].rep.type \in {"CHALLENGE", "AUTH_FAIL"}
  PROVE  Told'
<1>1. AckIsCommitted'
  BY SMTT(30) DEF Inv, SafetyInv, AckIsCommitted, AckTrue, Replied
<1>2. DataIsCommitted'
  BY SMTT(30) DEF Inv, SafetyInv, DataIsCommitted, DataTrue, Replied
<1>3. TokenIsStored'
  BY DEF Inv, SafetyInv, TokenIsStored, TokenTrue, Replied
<1>4. OneAckPerVersion'
  BY DEF Inv, SafetyInv, OneAckPerVersion, Replied
<1> QED
  BY <1>1, <1>2, <1>3, <1>4 DEF Told

-----------------------------------------------------------------------------
\* What a handler knows while it waits.

Known == /\ TxnOk /\ RowWasCommitted /\ PutWasChecked
         /\ PutIsDone /\ EarlyReplies /\ SessionIsDone

\* A step of c that only touches what c holds, and leaves it at a point where
\* it holds nothing: in particular every "continue" and every new request.
LEMMA KnownElsewhere ==
  ASSUME Inv, NEW c \in Conns,
         UNCHANGED <<vaults, sessions, hist>>,
         (UNCHANGED txn /\ pc[c] \notin {"session_commit", "put_commit"}) \/ Rollback(c),
         \A d \in Conns \ {c} :
           /\ state'[d] = state[d] /\ pc'[d] = pc[d] /\ req'[d] = req[d]
           /\ row'[d] = row[d] /\ hit'[d] = hit[d] /\ log'[d] = log[d]
           /\ user'[d] = user[d] /\ client'[d] = client[d] /\ expiry'[d] = expiry[d],
         pc'[c] \notin {"session_commit", "put_execute", "put_commit", "put_done", "session_done"},
         row'[c] = None,
         state'[c] \in {"new", "GREETING", "AUTHENTICATING"} =>
           \A i \in DOMAIN log'[c] : log'[c][i].rep.type = "CHALLENGE"
  PROVE  Known'
<1>1. TxnOk'
  <2>1. txn' = txn \/ txn' = None
    BY DEF Rollback
  <2>2. txn' # None => txn'.by \in Conns \ {c}
    BY DEF Rollback, Inv, SafetyInv, TxnOk, TypeInv, TypeOk, DbTypeOk, Txn
  <2>3. txn' # None => pc'[txn'.by] \in {"session_commit", "put_commit"}
    BY <2>1, <2>2 DEF Inv, SafetyInv, TxnOk
  <2>4. ASSUME NEW d \in Conns, pc'[d] \in {"session_commit", "put_commit"}
        PROVE  /\ d # c /\ txn' = txn
               /\ NewVersion(d)' = NewVersion(d)
               /\ UpsertHits(req[d].vault, user[d], NewVersion(d))'
                   <=> UpsertHits(req[d].vault, user[d], NewVersion(d))
    <3>1. d # c /\ pc[d] \in {"session_commit", "put_commit"}
      BY <2>4
    <3>2. txn # None /\ txn.by = d
      BY <3>1 DEF Inv, SafetyInv, TxnOk, SessionPending, PutPending
    <3> QED
      BY <3>1, <3>2 DEF Rollback, UpsertHits, NewVersion, CurrentVersion
  <2>5. ASSUME NEW d \in Conns
        PROVE  SessionPending(d)'
    BY <2>4 DEF Inv, SafetyInv, TxnOk, SessionPending
  <2>6. ASSUME NEW d \in Conns
        PROVE  PutPending(d)'
    <3> SUFFICES ASSUME pc'[d] = "put_commit" PROVE PutPending(d)'
      BY DEF PutPending
    <3>1. /\ d # c /\ txn' = txn /\ pc[d] = "put_commit"
          /\ hit'[d] = hit[d] /\ req'[d] = req[d] /\ user'[d] = user[d]
      BY <2>4
    <3>2. PutPending(d)
      BY DEF Inv, SafetyInv, TxnOk
    <3> QED
      BY <2>4, <3>1, <3>2 DEF PutPending
  <2> QED
    BY <2>3, <2>5, <2>6 DEF TxnOk
<1>2. RowWasCommitted'
  BY DEF Inv, SafetyInv, RowWasCommitted
<1>3. PutWasChecked'
  BY DEF Inv, SafetyInv, PutWasChecked, ForeignRow, CurrentVersion
<1>4. PutIsDone'
  BY DEF Inv, SafetyInv, PutIsDone, PutReply, NewVersion, CurrentVersion
<1>5. EarlyReplies'
  BY DEF Inv, SafetyInv, EarlyReplies, Replied
<1>6. SessionIsDone'
  BY DEF Inv, SafetyInv, SessionIsDone
<1> QED
  BY <1>1, <1>2, <1>3, <1>4, <1>5, <1>6 DEF Known

LEMMA Assemble ==
  ASSUME Known', Told', RowIsLastPut', OneOwner'
  PROVE  SafetyInv'
  BY DEF Known, Told, SafetyInv

\* A handler that waits for a frame holds no row.
LEMMA NoRow ==
  ASSUME Inv, NEW c \in Conns,
         pc[c] \notin {"get_done", "put_check", "put_execute", "put_commit", "put_done"}
  PROVE  row[c] = None
  BY DEF Inv, SafetyInv, RowWasCommitted

-----------------------------------------------------------------------------
\* The actions.

\* Accepting a connection, and reading a frame that is handled later.
LEMMA ReadFrameSafety ==
  ASSUME Inv, NEW c \in Conns, NEW f,
         \/ Accept(c) \/ Auth(c, f) \/ VaultGet(c, f) \/ VaultPut(c, f)
         \/ PutFragment(c) \/ FragmentTimeout(c)
  PROVE  SafetyInv'
<1>1. /\ pc[c] = "read" /\ row[c] = None /\ row' = row
      /\ UNCHANGED <<vaults, sessions, txn, hit, log, hist, user, client, expiry>>
      /\ pc'[c] \in {"read", "auth", "get_read", "put_read"}
  BY NoRow DEF Inv, TypeInv, TypeOk, dbVars, Accept, Auth, VaultGet, VaultPut, PutFragment,
     FragmentTimeout, Reading, Goto
<1>2. /\ state'[c] \in {"new", "GREETING", "AUTHENTICATING"} =>
           state[c] \in {"new", "GREETING", "AUTHENTICATING"}
      /\ \A d \in Conns \ {c} : state'[d] = state[d] /\ pc'[d] = pc[d] /\ req'[d] = req[d]
  BY DEF Inv, TypeInv, TypeOk, Accept, Auth, VaultGet, VaultPut, PutFragment, FragmentTimeout,
     Reading, Goto
<1>3. state'[c] \in {"new", "GREETING", "AUTHENTICATING"} =>
        \A i \in DOMAIN log'[c] : log'[c][i].rep.type = "CHALLENGE"
  BY <1>1, <1>2 DEF Inv, SafetyInv, EarlyReplies, Replied
<1>4. Known'
  BY <1>1, <1>2, <1>3, KnownElsewhere
<1> QED
  BY <1>1, <1>4, KeepStored, KeepTold, Assemble DEF Inv

LEMMA HelloSafety ==
  ASSUME Inv, NEW c \in Conns, NEW f \in Frames, Hello(c, f)
  PROVE  SafetyInv'
<1>1. /\ pc[c] = "read" /\ row[c] = None /\ state[c] = "GREETING"
      /\ UNCHANGED <<vaults, sessions, txn, pc, req, row, hit, hist, user, expiry>>
      /\ \A d \in Conns \ {c} : state'[d] = state[d] /\ client'[d] = client[d]
      /\ LogReply(c, f, [type |-> "CHALLENGE"])
  BY NoRow DEF Inv, TypeInv, TypeOk, dbVars, Hello, Reading
<1>2. /\ \A d \in Conns \ {c} : log'[d] = log[d]
      /\ \A i \in DOMAIN log'[c] : log'[c][i].rep.type = "CHALLENGE"
  BY <1>1, LogAppend DEF Inv, SafetyInv, EarlyReplies, Replied
<1>3. Known'
  BY <1>1, <1>2, KnownElsewhere
<1>4. Told'
  BY <1>1, <1>2, TellEarly
<1> QED
  BY <1>1, <1>3, <1>4, KeepStored, Assemble DEF Inv

\* Whatever ends a connection without telling its client anything.
LEMMA FinishSafety ==
  ASSUME Inv, NEW c \in Conns, Finish(c), UNCHANGED <<client, user, expiry, log, hist>>
  PROVE  SafetyInv'
<1>1. /\ UNCHANGED <<vaults, sessions>>
      /\ Rollback(c)
      /\ pc'[c] = "done" /\ row'[c] = None /\ state'[c] = "closed"
      /\ \A d \in Conns \ {c} : /\ state'[d] = state[d] /\ pc'[d] = pc[d] /\ req'[d] = req[d]
                                 /\ row'[d] = row[d] /\ hit'[d] = hit[d]
  BY DEF Inv, TypeInv, TypeOk, Finish, Rollback
<1>2. Known'
  BY <1>1, KnownElsewhere
<1> QED
  BY <1>1, <1>2, KeepStored, KeepTold, Assemble DEF Inv

LEMMA AuthenticateSafety ==
  ASSUME Inv, NEW c \in Conns, Authenticate(c)
  PROVE  SafetyInv'
<1>1. /\ pc[c] = "auth" /\ row[c] = None /\ state[c] = "AUTHENTICATING"
      /\ UNCHANGED <<vaults, sessions, hist, client>>
  <2>1. pc[c] = "auth" /\ state[c] = "AUTHENTICATING"
    BY Where DEF Authenticate
  <2>2. UNCHANGED <<vaults, sessions, hist, client>>
    BY DEF dbVars, Authenticate, Finish, Rollback
  <2> QED
    BY <2>1, <2>2, NoRow
<1>2. \A i \in DOMAIN log[c] : log[c][i].rep.type = "CHALLENGE"
  BY <1>1 DEF Inv, SafetyInv, EarlyReplies, Replied
<1>3. CASE AuthValid(c, req[c])
  <2>1. /\ UNCHANGED <<txn, state, req, row, hit, log>>
        /\ pc'[c] = "session_execute"
        /\ \A d \in Conns \ {c} : pc'[d] = pc[d] /\ user'[d] = user[d] /\ expiry'[d] = expiry[d]
    BY <1>3 DEF Inv, TypeInv, TypeOk, dbVars, Authenticate, Goto
  <2>2. Known'
    BY <1>1, <1>2, <2>1, KnownElsewhere
  <2>3. Told'
    BY <1>1, <1>2, <2>1, TellEarly
  <2> QED
    BY <1>1, <2>2, <2>3, KeepStored, Assemble DEF Inv
<1>4. CASE ~AuthValid(c, req[c])
  <2>1. Finish(c) /\ LogReply(c, req[c], [type |-> "AUTH_FAIL"]) /\ UNCHANGED <<user, expiry>>
    BY <1>4 DEF Authenticate
  <2>2. /\ Rollback(c) /\ pc'[c] = "done" /\ row'[c] = None /\ state'[c] = "closed"
        /\ \A d \in Conns \ {c} : /\ state'[d] = state[d] /\ pc'[d] = pc[d] /\ req'[d] = req[d]
                                   /\ row'[d] = row[d] /\ hit'[d] = hit[d]
    BY <2>1 DEF Inv, TypeInv, TypeOk, Finish
  <2>3. /\ \A d \in Conns \ {c} : log'[d] = log[d]
        /\ \A i \in DOMAIN log'[c] : log'[c][i].rep.type \in {"CHALLENGE", "AUTH_FAIL"}
    BY <1>2, <2>1, LogAppend DEF Inv
  <2>4. Known'
    BY <1>1, <2>1, <2>2, <2>3, KnownElsewhere
  <2>5. Told'
    BY <1>1, <2>1, <2>3, TellEarly
  <2> QED
    BY <1>1, <2>4, <2>5, KeepStored, Assemble DEF Inv
<1> QED
  BY <1>3, <1>4

\* Answering and going back to the read.
LEMMA ContinueSafety ==
  ASSUME Inv, NEW c \in Conns, NEW r, NEW rep, LogReply(c, r, rep),
         UNCHANGED <<dbVars, client, user, expiry, hist>>,
         pc[c] \notin {"session_commit", "put_commit"},
         pc'[c] = "read", row'[c] = None,
         state'[c] \in {"ESTABLISHED", "closed"},
         \A d \in Conns \ {c} : /\ state'[d] = state[d] /\ pc'[d] = pc[d] /\ req'[d] = req[d]
                                /\ row'[d] = row[d] /\ hit'[d] = hit[d],
         rep.type = "VAULT_ACK" =>
           AckTrue(c, r, rep) /\ \A i \in DOMAIN log[c] : log[c][i].rep # rep,
         rep.type = "VAULT_DATA" => DataTrue(c, rep),
         rep.type = "AUTH_OK" => TokenTrue(c, rep)
  PROVE  SafetyInv'
<1>1. UNCHANGED <<vaults, sessions, txn>>
  BY DEF dbVars
<1>2. \A d \in Conns \ {c} : log'[d] = log[d]
  BY LogAppend DEF Inv
<1>3. Known'
  BY <1>1, <1>2, KnownElsewhere
<1>4. Told'
  BY <1>1, TellTrue
<1> QED
  BY <1>1, <1>3, <1>4, KeepStored, Assemble DEF Inv

LEMMA AuthOkSafety ==
  ASSUME Inv, NEW c \in Conns, AuthOk(c)
  PROVE  SafetyInv'
<1> DEFINE rep == [type |-> "AUTH_OK", token |-> c, expiry |-> expiry[c], vault_version |-> 0]
<1>1. TokenTrue(c, rep)
  BY DEF Inv, SafetyInv, SessionIsDone, AuthOk, TokenTrue
<1>2. /\ LogReply(c, req[c], rep) /\ UNCHANGED <<dbVars, client, user, expiry, hist>>
      /\ pc[c] = "session_done" /\ pc'[c] = "read" /\ row'[c] = None /\ state'[c] = "ESTABLISHED"
      /\ \A d \in Conns \ {c} : /\ state'[d] = state[d] /\ pc'[d] = pc[d] /\ req'[d] = req[d]
                                 /\ row'[d] = row[d] /\ hit'[d] = hit[d]
  BY DEF Inv, TypeInv, TypeOk, AuthOk, Continue, Goto
<1>3. rep.type = "AUTH_OK"
  OBVIOUS
<1> HIDE DEF rep
<1> QED
  BY <1>1, <1>2, <1>3, ContinueSafety

LEMMA SignalSafety ==
  ASSUME Inv, NEW c \in Conns, NEW f \in Frames, Ping(c, f) \/ Bye(c, f)
  PROVE  SafetyInv'
<1>1. CASE Ping(c, f)
  <2>1. row[c] = None
    BY <1>1, NoRow DEF Ping, Reading
  <2> QED
    BY <1>1, <2>1, ContinueSafety DEF Ping, Reading
<1>2. CASE Bye(c, f)
  <2>1. /\ LogReply(c, f, [type |-> "BYE"]) /\ Rollback(c)
        /\ UNCHANGED <<vaults, sessions, client, user, expiry, hist>>
        /\ pc'[c] = "done" /\ row'[c] = None /\ state'[c] = "closed"
        /\ \A d \in Conns \ {c} : /\ state'[d] = state[d] /\ pc'[d] = pc[d] /\ req'[d] = req[d]
                                   /\ row'[d] = row[d] /\ hit'[d] = hit[d]
    BY <1>2 DEF Inv, TypeInv, TypeOk, Bye, Finish, Rollback
  <2>2. \A d \in Conns \ {c} : log'[d] = log[d]
    BY <2>1, LogAppend DEF Inv
  <2>3. Known'
    BY <2>1, <2>2, KnownElsewhere
  <2>4. Told'
    BY <2>1, TellTrue
  <2> QED
    BY <2>1, <2>3, <2>4, KeepStored, Assemble DEF Inv
<1> QED
  BY <1>1, <1>2

LEMMA ReadRowSafety ==
  ASSUME Inv, NEW c \in Conns, GetRead(c) \/ PutRead(c)
  PROVE  SafetyInv'
<1> DEFINE v == req[c].vault
<1>1. /\ UNCHANGED <<vaults, sessions, txn, state, req, hit, log, hist, user, client, expiry>>
      /\ pc[c] \in {"get_read", "put_read"} /\ pc'[c] \in {"get_done", "put_check"}
      /\ row'[c] = vaults[v] /\ v \in Vaults
      /\ \A d \in Conns \ {c} : pc'[d] = pc[d] /\ row'[d] = row[d]
  <2>1. v \in Vaults
    BY Where DEF GetRead, PutRead, ReadRow
  <2> QED
    BY <2>1 DEF Inv, TypeInv, TypeOk, dbVars, GetRead, PutRead, ReadRow, Goto
<1>2. vaults[v] # None =>
        /\ vaults[v].version \in DOMAIN hist[v]
        /\ hist[v][vaults[v].version].user = vaults[v].user
        /\ hist[v][vaults[v].version].blob = vaults[v].blob
  <2>1. Len(hist[v]) \in Nat /\ DOMAIN hist[v] = 1..Len(hist[v])
    BY <1>1 DEF Inv, TypeInv, TypeOk
  <2>2. vaults[v] = IF Len(hist[v]) = 0 THEN None
                    ELSE [user |-> hist[v][Len(hist[v])].user, version |-> Len(hist[v]),
                          blob |-> hist[v][Len(hist[v])].blob]
    BY <1>1 DEF Inv, SafetyInv, RowIsLastPut
  <2> HIDE DEF v
  <2> QED
    BY <2>1, <2>2
<1>3. TxnOk'
  <2>1. txn' # None => pc'[txn'.by] \in {"session_commit", "put_commit"}
    BY <1>1 DEF Inv, SafetyInv, TxnOk, TypeInv, TypeOk, DbTypeOk, Txn
  <2>2. ASSUME NEW d \in Conns
        PROVE  SessionPending(d)' /\ PutPending(d)'
    BY <1>1 DEF Inv, SafetyInv, TxnOk, SessionPending, PutPending, UpsertHits, NewVersion,
       CurrentVersion
  <2> QED
    BY <2>1, <2>2 DEF TxnOk
<1>4. RowWasCommitted'
  BY <1>1, <1>2 DEF Inv, SafetyInv, RowWasCommitted
<1>5. PutWasChecked' /\ PutIsDone'
  BY <1>1 DEF Inv, SafetyInv, PutWasChecked, PutIsDone, PutReply, ForeignRow, NewVersion,
     CurrentVersion
<1>6. EarlyReplies' /\ SessionIsDone'
  BY <1>1 DEF Inv, SafetyInv, EarlyReplies, SessionIsDone, Replied
<1>7. Known'
  BY <1>3, <1>4, <1>5, <1>6 DEF Known
<1> QED
  BY <1>1, <1>7, KeepStored, KeepTold, Assemble DEF Inv

LEMMA GetDoneSafety ==
  ASSUME Inv, NEW c \in Conns, GetDone(c)
  PROVE  SafetyInv'
<1>1. GetReply(c).type = "VAULT_DATA" => DataTrue(c, GetReply(c))
  BY DEF GetReply, ErrorReply, ForeignRow, DataTrue, Inv, SafetyInv, RowWasCommitted
<1>2. GetReply(c).type \in {"VAULT_DATA", "ERROR"}
  BY DEF GetReply, ErrorReply
<1>3. /\ UNCHANGED <<dbVars, client, user, expiry, hist>>
      /\ pc[c] = "get_done" /\ pc'[c] = "read" /\ row'[c] = None /\ state'[c] = "ESTABLISHED"
      /\ \A d \in Conns \ {c} : /\ state'[d] = state[d] /\ pc'[d] = pc[d] /\ req'[d] = req[d]
                                 /\ row'[d] = row[d] /\ hit'[d] = hit[d]
  BY Where DEF Inv, TypeInv, TypeOk, GetDone, Continue, Goto
<1> QED
  BY <1>1, <1>2, <1>3, ContinueSafety DEF GetDone

LEMMA PutCheckSafety ==
  ASSUME Inv, NEW c \in Conns, PutCheck(c)
  PROVE  SafetyInv'
<1>1. pc[c] = "put_check" /\ state[c] = "ESTABLISHED"
  BY Where DEF PutCheck
<1>2. CASE Continue(c) /\ \E code : LogReply(c, req[c], ErrorReply(code))
  <2>1. PICK code : LogReply(c, req[c], ErrorReply(code))
    BY <1>2
  <2>2. ErrorReply(code).type = "ERROR"
    BY DEF ErrorReply
  <2>3. /\ UNCHANGED <<dbVars, client, user, expiry, hist>>
        /\ pc'[c] = "read" /\ row'[c] = None /\ state'[c] = "ESTABLISHED"
        /\ \A d \in Conns \ {c} : /\ state'[d] = state[d] /\ pc'[d] = pc[d] /\ req'[d] = req[d]
                                   /\ row'[d] = row[d] /\ hit'[d] = hit[d]
    BY <1>1, <1>2 DEF Inv, TypeInv, TypeOk, PutCheck, Continue, Goto
  <2> QED
    BY <1>1, <2>1, <2>2, <2>3, ContinueSafety
<1>3. CASE /\ ~ForeignRow(c) /\ req[c].base = CurrentVersion(c)
           /\ Goto(c, "put_execute") /\ UNCHANGED <<req, row, hit, log>>
  <2>1. /\ UNCHANGED <<vaults, sessions, txn, state, req, row, hit, log, hist, user, client, expiry>>
        /\ pc'[c] = "put_execute" /\ \A d \in Conns \ {c} : pc'[d] = pc[d]
    BY <1>3 DEF Inv, TypeInv, TypeOk, dbVars, PutCheck, Goto
  <2>2. TxnOk'
    <3>1. txn' # None => pc'[txn'.by] \in {"session_commit", "put_commit"}
      BY <1>1, <2>1 DEF Inv, SafetyInv, TxnOk, TypeInv, TypeOk, DbTypeOk, Txn
    <3>2. ASSUME NEW d \in Conns
          PROVE  SessionPending(d)' /\ PutPending(d)'
      BY <1>1, <2>1 DEF Inv, SafetyInv, TxnOk, SessionPending, PutPending, UpsertHits,
         NewVersion, CurrentVersion
    <3> QED
      BY <3>1, <3>2 DEF TxnOk
  <2>3. RowWasCommitted'
    BY <1>1, <2>1 DEF Inv, SafetyInv, RowWasCommitted
  <2>4. PutWasChecked' /\ PutIsDone'
    BY <1>1, <1>3, <2>1 DEF Inv, SafetyInv, PutWasChecked, PutIsDone, PutReply, ForeignRow,
       NewVersion, CurrentVersion
  <2>5. EarlyReplies' /\ SessionIsDone'
    BY <1>1, <2>1 DEF Inv, SafetyInv, EarlyReplies, SessionIsDone, Replied
  <2>6. Known'
    BY <2>2, <2>3, <2>4, <2>5 DEF Known
  <2> QED
    BY <2>1, <2>6, KeepStored, KeepTold, Assemble DEF Inv
<1> QED
  BY <1>2, <1>3 DEF PutCheck

LEMMA PutDoneSafety ==
  ASSUME Inv, NEW c \in Conns, PutDone(c)
  PROVE  SafetyInv'
<1>1. pc[c] = "put_done" /\ state[c] = "ESTABLISHED"
  BY Where DEF PutDone
<1>2. PutReply(c).type = "VAULT_ACK" =>
        AckTrue(c, req[c], PutReply(c)) /\ \A i \in DOMAIN log[c] : log[c][i].rep # PutReply(c)
  <2>1. PutReply(c).type = "VAULT_ACK" => hit[c]
    BY DEF PutReply, ErrorReply
  <2> QED
    BY <1>1, <2>1 DEF PutReply, AckTrue, NewVersion, Inv, SafetyInv, PutIsDone, PutWasChecked
<1>3. PutReply(c).type \in {"VAULT_ACK", "ERROR"}
  BY DEF PutReply, ErrorReply
<1>4. /\ UNCHANGED <<dbVars, client, user, expiry, hist>>
      /\ pc'[c] = "read" /\ row'[c] = None /\ state'[c] = "ESTABLISHED"
      /\ \A d \in Conns \ {c} : /\ state'[d] = state[d] /\ pc'[d] = pc[d] /\ req'[d] = req[d]
                                 /\ row'[d] = row[d] /\ hit'[d] = hit[d]
  BY <1>1 DEF Inv, TypeInv, TypeOk, PutDone, Continue, Goto
<1> QED
  BY <1>1, <1>2, <1>3, <1>4, ContinueSafety DEF PutDone

LEMMA CrashSafety ==
  ASSUME Inv, Crash
  PROVE  SafetyInv'
<1>1. /\ UNCHANGED <<vaults, sessions, client, user, expiry, log, hist>> /\ txn' = None
      /\ \A d \in Conns : /\ pc'[d] \in {"read", "done"} /\ row'[d] = None
                          /\ state'[d] \in {"new", "closed"}
                          /\ state'[d] = "new" => state[d] = "new"
  BY DEF Inv, TypeInv, TypeOk, ControlOk, Crash, CrashRollback, Open
<1>2. Known'
  BY <1>1 DEF Inv, SafetyInv, Known, TxnOk, SessionPending, PutPending, RowWasCommitted,
     PutWasChecked, PutIsDone, EarlyReplies, SessionIsDone, Replied
<1> QED
  BY <1>1, <1>2, KeepStored, KeepTold, Assemble DEF Inv

-----------------------------------------------------------------------------
\* The database steps.

\* While no transaction is open nobody is between execute and commit.
LEMMA NobodyPending ==
  ASSUME Inv, txn = None, NEW d \in Conns
  PROVE  pc[d] \notin {"session_commit", "put_commit"}
  BY DEF Inv, SafetyInv, TxnOk, SessionPending, PutPending

\* The handler that holds the write lock is the only one that can commit.
LEMMA OnlyPending ==
  ASSUME Inv, NEW c \in Conns, Commit(c), NEW d \in Conns \ {c}
  PROVE  pc[d] \notin {"session_commit", "put_commit"}
  BY DEF Inv, SafetyInv, TxnOk, SessionPending, PutPending, Commit

LEMMA SessionExecuteSafety ==
  ASSUME Inv, NEW c \in Conns, SessionExecute(c)
  PROVE  SafetyInv'
<1> DEFINE t == [by |-> c, vaults |-> vaults,
                 sessions |-> [sessions EXCEPT ![c] =
                   [user |-> user[c], client |-> client[c], expiry |-> expiry[c]]]]
<1>1. /\ UNCHANGED <<vaults, sessions, state, req, row, hit, log, hist, user, client, expiry>>
      /\ txn = None /\ txn' = t
      /\ pc[c] = "session_execute" /\ pc'[c] = "session_commit"
      /\ \A d \in Conns \ {c} : pc'[d] = pc[d]
  BY DEF Inv, TypeInv, TypeOk, SessionExecute, ExecuteSession, Goto
<1>2. t # None
  <2>1. t \in Txn
    <3>1. [user |-> user[c], client |-> client[c], expiry |-> expiry[c]] \in SessionRow
      BY <1>1, Where DEF Inv, TypeInv, TypeOk, ControlOk, SessionRow
    <3> QED
      BY <3>1 DEF Inv, TypeInv, TypeOk, DbTypeOk, Txn
  <2> QED
    BY <2>1, NoneAssumption
<1>3. TxnOk'
  <2>1. SessionPending(c)'
    BY <1>1, <1>2 DEF SessionPending
  <2>2. ASSUME NEW d \in Conns
        PROVE  SessionPending(d)' /\ PutPending(d)'
    <3>1. CASE d = c
      BY <1>1, <2>1, <3>1 DEF PutPending
    <3>2. CASE d # c
      <4>1. pc'[d] \notin {"session_commit", "put_commit"}
        BY <1>1, <3>2, NobodyPending
      <4> QED
        BY <4>1 DEF SessionPending, PutPending
    <3> QED
      BY <3>1, <3>2
  <2>3. pc'[txn'.by] = "session_commit"
    BY <1>1
  <2> QED
    BY <2>2, <2>3 DEF TxnOk
<1>4. RowWasCommitted' /\ PutWasChecked' /\ PutIsDone' /\ EarlyReplies' /\ SessionIsDone'
  BY <1>1 DEF Inv, SafetyInv, RowWasCommitted, PutWasChecked, PutIsDone, PutReply, ForeignRow,
     NewVersion, CurrentVersion, EarlyReplies, SessionIsDone, Replied
<1>5. Known'
  BY <1>3, <1>4 DEF Known
<1> QED
  BY <1>1, <1>5, KeepStored, KeepTold, Assemble DEF Inv

LEMMA SessionCommitSafety ==
  ASSUME Inv, NEW c \in Conns, SessionCommit(c)
  PROVE  SafetyInv'
<1>1. /\ UNCHANGED <<state, req, row, hit, log, hist, user, client, expiry>>
      /\ pc[c] = "session_commit" /\ pc'[c] = "session_done"
      /\ \A d \in Conns \ {c} : pc'[d] = pc[d]
      /\ Commit(c)
  BY DEF Inv, TypeInv, TypeOk, SessionCommit, Goto
<1>2. /\ UNCHANGED vaults /\ txn' = None
      /\ sessions'[c] = [user |-> user[c], client |-> client[c], expiry |-> expiry[c]]
      /\ \A d \in Conns \ {c} : sessions'[d] = sessions[d]
  <2>1. SessionPending(c)
    BY DEF Inv, SafetyInv, TxnOk
  <2> QED
    BY <1>1, <2>1 DEF SessionPending, Commit, Inv, TypeInv, TypeOk, DbTypeOk
<1>3. TxnOk'
  BY <1>1, <1>2, OnlyPending DEF TxnOk, SessionPending, PutPending
<1>4. RowWasCommitted' /\ PutWasChecked' /\ PutIsDone' /\ EarlyReplies'
  BY <1>1 DEF Inv, SafetyInv, RowWasCommitted, PutWasChecked, PutIsDone, PutReply, ForeignRow,
     NewVersion, CurrentVersion, EarlyReplies, Replied
<1>5. SessionIsDone'
  BY <1>1, <1>2 DEF Inv, SafetyInv, SessionIsDone
<1>6. Told'
  <2>1. \A i \in DOMAIN log[c] : log[c][i].rep.type = "CHALLENGE"
    BY <1>1, Where DEF Inv, SafetyInv, EarlyReplies, Replied
  <2>2. TokenIsStored'
    BY <1>1, <1>2, <2>1 DEF Inv, SafetyInv, TokenIsStored, TokenTrue, Replied
  <2>3. AckIsCommitted' /\ DataIsCommitted' /\ OneAckPerVersion'
    BY <1>1, KeepVersionsTold DEF Inv
  <2> QED
    BY <2>2, <2>3 DEF Told
<1>7. Known'
  BY <1>3, <1>4, <1>5 DEF Known
<1> QED
  BY <1>1, <1>2, <1>6, <1>7, KeepStored, Assemble DEF Inv

LEMMA PutExecuteSafety ==
  ASSUME Inv, NEW c \in Conns, PutExecute(c)
  PROVE  SafetyInv'
<1>1. /\ UNCHANGED <<vaults, sessions, state, req, row, log, hist, user, client, expiry>>
      /\ txn = None
      /\ ExecuteUpsert(c, req[c].vault, user[c], NewVersion(c), req[c].blob)
      /\ hit'[c] <=> UpsertHits(req[c].vault, user[c], NewVersion(c))
      /\ pc[c] = "put_execute" /\ pc'[c] = "put_commit"
      /\ \A d \in Conns \ {c} : pc'[d] = pc[d] /\ hit'[d] = hit[d]
  BY DEF Inv, TypeInv, TypeOk, PutExecute, ExecuteUpsert, UpsertHits, Goto
<1>2. TypeInv'
  BY PutExecuteTypeInv DEF Inv
<1>3. txn' # None /\ txn'.by = c
  <2>1. txn'.by = c
    BY <1>1 DEF ExecuteUpsert
  <2>2. txn' \in Txn
    <3> DEFINE r == [user |-> user[c], version |-> NewVersion(c), blob |-> req[c].blob]
    <3>1. req[c] \in PutReq /\ user[c] \in Users /\ NewVersion(c) \in Nat \ {0}
      BY <1>1, Where, NewVersionType DEF Inv, TypeInv, TypeOk, ControlOk
    <3>2. r \in VaultRow
      BY <3>1 DEF VaultRow, PutReq
    <3> QED
      BY <1>1, <3>1, <3>2 DEF ExecuteUpsert, Txn, PutReq, Inv, TypeInv, TypeOk, DbTypeOk
  <2> QED
    BY <2>1, <2>2, NoneAssumption
<1>4. TxnOk'
  <2>1. PutPending(c)'
    BY <1>1, <1>3 DEF PutPending, ExecuteUpsert, UpsertHits, NewVersion, CurrentVersion
  <2>2. ASSUME NEW d \in Conns
        PROVE  SessionPending(d)' /\ PutPending(d)'
    BY <1>1, <2>1, NobodyPending DEF SessionPending, PutPending
  <2> QED
    BY <1>1, <1>3, <2>2 DEF TxnOk
<1>5. RowWasCommitted' /\ PutWasChecked' /\ PutIsDone' /\ EarlyReplies' /\ SessionIsDone'
  BY <1>1, SMTT(30) DEF Inv, SafetyInv, RowWasCommitted, PutWasChecked, PutIsDone, PutReply, ForeignRow,
     NewVersion, CurrentVersion, EarlyReplies, SessionIsDone, Replied
<1>6. Known'
  BY <1>4, <1>5 DEF Known
<1> QED
  BY <1>1, <1>6, KeepStored, KeepTold, Assemble DEF Inv

\* Committing a PUT: its version is the next of the history, and the history
\* only grows.
LEMMA PutCommitSafety ==
  ASSUME Inv, NEW c \in Conns, PutCommit(c)
  PROVE  SafetyInv'
<1> DEFINE v == req[c].vault
           h == hist[v]
           w == [by |-> c, user |-> user[c], blob |-> req[c].blob]
           n == NewVersion(c)
<1>1. /\ UNCHANGED <<state, req, row, hit, log, user, client, expiry>>
      /\ pc[c] = "put_commit" /\ pc'[c] = "put_done"
      /\ \A d \in Conns \ {c} : pc'[d] = pc[d]
      /\ Commit(c)
      /\ hist' = IF hit[c] THEN [hist EXCEPT ![v] = Append(h, w)] ELSE hist
  BY DEF Inv, TypeInv, TypeOk, PutCommit, Goto
<1>2. /\ v \in Vaults /\ h \in Seq(Accepted) /\ Len(h) \in Nat /\ DOMAIN h = 1..Len(h)
      /\ n \in Nat \ {0}
  BY <1>1, Where, NewVersionType DEF Inv, TypeInv, TypeOk
<1>3. /\ txn' = None /\ UNCHANGED sessions
      /\ hit[c] <=> UpsertHits(v, user[c], n)
      /\ vaults' = IF hit[c]
                   THEN [vaults EXCEPT ![v] = [user |-> user[c], version |-> n, blob |-> req[c].blob]]
                   ELSE vaults
  <2>1. PutPending(c)
    BY DEF Inv, SafetyInv, TxnOk
  <2> QED
    BY <1>1, <2>1 DEF PutPending, Commit
<1>4. TxnOk'
  BY <1>1, <1>3, OnlyPending DEF TxnOk, SessionPending, PutPending
<1>5. EarlyReplies' /\ SessionIsDone' /\ PutWasChecked' /\ TokenIsStored'
  <2>1. EarlyReplies' /\ SessionIsDone' /\ PutWasChecked'
    BY <1>1, <1>3 DEF Inv, SafetyInv, EarlyReplies, SessionIsDone, PutWasChecked, ForeignRow,
       CurrentVersion, Replied
  <2>2. TokenIsStored'
    BY <1>1, <1>3 DEF Inv, SafetyInv, TokenIsStored, TokenTrue, Replied
  <2> QED
    BY <2>1, <2>2
<1>6. CASE ~hit[c]
  <2>1. UNCHANGED <<vaults, sessions, hist>>
    BY <1>1, <1>3, <1>6
  <2>2. RowWasCommitted' /\ PutIsDone'
    BY <1>1, <1>6, <2>1 DEF Inv, SafetyInv, RowWasCommitted, PutIsDone, PutReply, NewVersion,
       CurrentVersion
  <2>3. Known'
    BY <1>4, <1>5, <2>2 DEF Known
  <2> QED
    BY <1>1, <2>1, <2>3, KeepStored, KeepTold, Assemble DEF Inv
<1>7. CASE hit[c]
  <2>1. Len(h) = n - 1 /\ \A i \in DOMAIN h : h[i].user = user[c]
    <3>1. vaults[v] = IF Len(h) = 0 THEN None
                      ELSE [user |-> h[Len(h)].user, version |-> Len(h), blob |-> h[Len(h)].blob]
      BY <1>2 DEF Inv, SafetyInv, RowIsLastPut
    <3>2. \A i, j \in DOMAIN h : h[i].user = h[j].user
      BY <1>2 DEF Inv, SafetyInv, OneOwner
    <3>3. CASE vaults[v] = None
      <4>1. Len(h) = 0
        <5>1. ASSUME Len(h) # 0 PROVE FALSE
          BY <1>2, <3>1, <3>3, <5>1, StoredIsRow
        <5> QED
          BY <5>1
      <4>2. row[c] = None
        BY <1>2, <4>1 DEF Inv, SafetyInv, RowWasCommitted
      <4> QED
        BY <1>2, <4>1, <4>2 DEF NewVersion, CurrentVersion
    <3>4. CASE vaults[v] # None
      <4>1. vaults[v].user = user[c] /\ vaults[v].version = n - 1
        BY <1>3, <1>7, <3>4 DEF UpsertHits
      <4> QED
        BY <1>2, <3>1, <3>2, <3>4, <4>1, SMTT(30)
    <3> QED
      BY <3>3, <3>4
  <2>2. /\ hist'[v] = Append(h, w)
        /\ \A x \in Vaults \ {v} : hist'[x] = hist[x]
    BY <1>1, <1>2, <1>7 DEF Inv, TypeInv, TypeOk
  <2>3. /\ Len(hist'[v]) = n /\ DOMAIN hist'[v] = 1..n /\ hist'[v][n] = w
        /\ \A i \in 1..(n - 1) : hist'[v][i] = h[i]
    BY <1>2, <2>1, <2>2
  <2>4. \A x \in Vaults : \A i \in DOMAIN hist[x] : i \in DOMAIN hist'[x] /\ hist'[x][i] = hist[x][i]
    <3> SUFFICES ASSUME NEW x \in Vaults, NEW i \in DOMAIN hist[x]
                 PROVE  i \in DOMAIN hist'[x] /\ hist'[x][i] = hist[x][i]
      OBVIOUS
    <3>1. CASE x = v
      <4>1. DOMAIN h = 1..(n - 1)
        BY <1>2, <2>1
      <4>2. n \in Nat
        BY <1>2, <2>1
      <4> QED
        BY <2>3, <3>1, <4>1, <4>2
    <3>2. CASE x # v
      BY <2>2, <3>2
    <3> QED
      BY <3>1, <3>2
  <2>5. RowIsLastPut'
    <3> SUFFICES ASSUME NEW x \in Vaults
                 PROVE  vaults'[x] = IF Len(hist'[x]) = 0 THEN None
                          ELSE [user |-> hist'[x][Len(hist'[x])].user, version |-> Len(hist'[x]),
                                blob |-> hist'[x][Len(hist'[x])].blob]
      BY DEF RowIsLastPut
    <3>1. CASE x = v
      BY <1>2, <1>3, <1>7, <2>3, <3>1 DEF Inv, TypeInv, TypeOk, DbTypeOk
    <3>2. CASE x # v
      BY <1>3, <1>7, <2>2, <3>2 DEF Inv, SafetyInv, RowIsLastPut, TypeInv, TypeOk, DbTypeOk
    <3> QED
      BY <3>1, <3>2
  <2>6. OneOwner'
    <3> SUFFICES ASSUME NEW x \in Vaults, NEW i \in DOMAIN hist'[x], NEW j \in DOMAIN hist'[x]
                 PROVE  hist'[x][i].user = hist'[x][j].user
      BY DEF OneOwner
    <3>1. CASE x = v
      <4>1. \A k \in DOMAIN hist'[v] : hist'[v][k].user = user[c]
        BY <1>2, <2>1, <2>3
      <4> QED
        BY <3>1, <4>1
    <3>2. CASE x # v
      BY <2>2, <3>2 DEF Inv, SafetyInv, OneOwner
    <3> QED
      BY <3>1, <3>2
  <2>7. \A d \in Conns : req'[d] = req[d] /\ (row[d] # None => req[d].vault \in Vaults)
    BY <1>1, Where DEF Inv, SafetyInv, RowWasCommitted
  <2>8. RowWasCommitted'
    <3> SUFFICES ASSUME NEW d \in Conns, row'[d] # None
                 PROVE  /\ pc'[d] \in {"get_done", "put_check", "put_execute", "put_commit", "put_done"}
                        /\ row'[d].version \in DOMAIN hist'[req'[d].vault]
                        /\ hist'[req'[d].vault][row'[d].version].user = row'[d].user
                        /\ hist'[req'[d].vault][row'[d].version].blob = row'[d].blob
      BY DEF RowWasCommitted
    <3>1. row'[d] = row[d] /\ row[d] # None
      BY <1>1
    <3>2. req'[d] = req[d] /\ req[d].vault \in Vaults
      BY <2>7, <3>1
    <3>3. /\ pc[d] \in {"get_done", "put_check", "put_execute", "put_commit", "put_done"}
          /\ row[d].version \in DOMAIN hist[req[d].vault]
          /\ hist[req[d].vault][row[d].version].user = row[d].user
          /\ hist[req[d].vault][row[d].version].blob = row[d].blob
      BY <3>1 DEF Inv, SafetyInv, RowWasCommitted
    <3>4. pc'[d] \in {"get_done", "put_check", "put_execute", "put_commit", "put_done"}
      BY <1>1, <3>3
    <3> QED
      BY <2>4, <3>1, <3>2, <3>3, <3>4
  <2>9. \A i \in DOMAIN log[c] : log[c][i].rep # PutReply(c)
    <3>1. PutReply(c) = [type |-> "VAULT_ACK", vault |-> v, version |-> n]
      BY <1>7 DEF PutReply
    <3>2. ASSUME NEW i \in DOMAIN log[c], log[c][i].rep = PutReply(c)
          PROVE  FALSE
      <4>1. log[c][i].rep.type = "VAULT_ACK" /\ log[c][i].rep.vault = v /\ log[c][i].rep.version = n
        BY <3>1, <3>2
      <4>2. AckTrue(c, log[c][i].req, log[c][i].rep)
        BY <4>1 DEF Inv, SafetyInv, AckIsCommitted, Replied
      <4>3. n \in DOMAIN h
        BY <4>1, <4>2 DEF AckTrue
      <4> QED
        BY <1>2, <2>1, <4>3
    <3> QED
      BY <3>2
  <2>10. PutIsDone'
    <3> SUFFICES ASSUME NEW d \in Conns, pc'[d] = "put_done", hit'[d]
                 PROVE  /\ NewVersion(d)' \in DOMAIN hist'[req'[d].vault]
                        /\ hist'[req'[d].vault][NewVersion(d)'] = [by |-> d, user |-> user'[d], blob |-> req'[d].blob]
                        /\ \A i \in DOMAIN log'[d] : log'[d][i].rep # PutReply(d)'
      BY DEF PutIsDone
    <3>1. NewVersion(d)' = NewVersion(d) /\ PutReply(d)' = PutReply(d)
      BY <1>1 DEF PutReply, NewVersion, CurrentVersion
    <3>2. CASE d = c
      BY <1>1, <1>2, <2>3, <2>9, <3>1, <3>2
    <3>3. CASE d # c
      <4>1. pc[d] = "put_done" /\ hit[d] /\ req[d].vault \in Vaults
        BY <1>1, <3>3, Where
      <4> QED
        BY <1>1, <2>4, <3>1, <4>1 DEF Inv, SafetyInv, PutIsDone
    <3> QED
      BY <3>2, <3>3
  <2>11. AckIsCommitted' /\ DataIsCommitted' /\ OneAckPerVersion'
    <3>1. \A d \in Conns : \A i \in DOMAIN log[d] :
            log[d][i].rep.type \in {"VAULT_ACK", "VAULT_DATA"} => log[d][i].rep.vault \in Vaults
      <4> SUFFICES ASSUME NEW d \in Conns, NEW i \in DOMAIN log[d],
                          log[d][i].rep.type \in {"VAULT_ACK", "VAULT_DATA"}
                   PROVE  log[d][i].rep.vault \in Vaults
        OBVIOUS
      <4>1. log[d] \in Seq(Exchange)
        BY DEF Inv, TypeInv, TypeOk
      <4>2. log[d][i] \in Exchange
        BY <4>1
      <4>3. log[d][i].rep \in Reply
        BY <4>2 DEF Exchange
      <4> QED
        BY <4>3 DEF Reply
    <3>2. AckIsCommitted'
      <4> SUFFICES ASSUME NEW d \in Conns, NEW i \in DOMAIN log'[d], NEW q, NEW t,
                          q = log'[d][i].req, t = log'[d][i].rep, t.type = "VAULT_ACK"
                   PROVE  AckTrue(d, q, t)'
        BY DEF AckIsCommitted, AckTrue, Replied
      <4>1. AckTrue(d, q, t) /\ t.vault \in Vaults
        BY <1>1, <3>1 DEF Inv, SafetyInv, AckIsCommitted, Replied
      <4>2. t.version \in DOMAIN hist[t.vault]
        BY <4>1 DEF AckTrue
      <4>3. t.version \in DOMAIN hist'[t.vault] /\ hist'[t.vault][t.version] = hist[t.vault][t.version]
        BY <2>4, <4>1, <4>2
      <4>4. user' = user
        BY <1>1
      <4> QED
        BY <4>1, <4>3, <4>4 DEF AckTrue
    <3>3. DataIsCommitted'
      <4> SUFFICES ASSUME NEW d \in Conns, NEW i \in DOMAIN log'[d], NEW t,
                          t = log'[d][i].rep, t.type = "VAULT_DATA"
                   PROVE  DataTrue(d, t)'
        BY DEF DataIsCommitted, DataTrue, Replied
      <4>1. DataTrue(d, t) /\ t.vault \in Vaults
        BY <1>1, <3>1 DEF Inv, SafetyInv, DataIsCommitted, Replied
      <4>2. t.version \in DOMAIN hist[t.vault]
        BY <4>1 DEF DataTrue
      <4>3. t.version \in DOMAIN hist'[t.vault] /\ hist'[t.vault][t.version] = hist[t.vault][t.version]
        BY <2>4, <4>1, <4>2
      <4>4. user' = user
        BY <1>1
      <4> QED
        BY <4>1, <4>3, <4>4, SMTT(30) DEF DataTrue
    <3>4. OneAckPerVersion'
      BY <1>1 DEF Inv, SafetyInv, OneAckPerVersion, Replied
    <3> QED
      BY <3>2, <3>3, <3>4
  <2> QED
    BY <1>4, <1>5, <2>5, <2>6, <2>8, <2>10, <2>11, Assemble DEF Known, Told
<1> QED
  BY <1>6, <1>7

LEMMA TickSafety ==
  ASSUME Inv, Tick \/ UNCHANGED vars
  PROVE  SafetyInv'
<1>1. UNCHANGED <<vaults, sessions, txn, state, pc, client, user, expiry, req, row, hit, log, hist>>
  BY DEF Tick, dbVars, handlerVars, vars
<1>2. Known'
  BY <1>1 DEF Inv, SafetyInv, Known, TxnOk, SessionPending, PutPending, RowWasCommitted,
     PutWasChecked, PutIsDone, PutReply, ForeignRow, NewVersion, CurrentVersion, UpsertHits,
     EarlyReplies, SessionIsDone, Replied
<1> QED
  BY <1>1, <1>2, KeepStored, KeepTold, Assemble DEF Inv

LEMMA NextSafety == Inv /\ [Next]_vars => SafetyInv'
<1> SUFFICES ASSUME Inv, [Next]_vars
             PROVE  SafetyInv'
  OBVIOUS
<1>1. ASSUME NEW c \in Conns, FrameStep(c)
      PROVE  SafetyInv'
  <2>1. CASE \E f \in Frames : Hello(c, f) \/ Auth(c, f) \/ Ping(c, f) \/ Bye(c, f)
                               \/ VaultGet(c, f) \/ VaultPut(c, f)
    BY <2>1, HelloSafety, SignalSafety, ReadFrameSafety
  <2>2. CASE PutFragment(c)
    BY <2>2, ReadFrameSafety
  <2> QED
    BY <1>1, <2>1, <2>2 DEF FrameStep
<1>2. ASSUME NEW c \in Conns, HandlerStep(c)
      PROVE  SafetyInv'
  BY <1>2, AuthenticateSafety, SessionExecuteSafety, SessionCommitSafety, AuthOkSafety,
     ReadRowSafety, GetDoneSafety, PutCheckSafety, PutExecuteSafety, PutCommitSafety,
     PutDoneSafety, FinishSafety DEF HandlerStep, BusyTimeout
<1>3. ASSUME NEW c \in Conns, Accept(c) \/ FragmentTimeout(c)
      PROVE  SafetyInv'
  BY <1>3, ReadFrameSafety
<1>4. ASSUME NEW c \in Conns, ReadEnds(c) \/ HandlerFails(c)
      PROVE  SafetyInv'
  BY <1>4, FinishSafety DEF ReadEnds, HandlerFails
<1>5. CASE Crash
  BY <1>5, CrashSafety
<1>6. CASE Tick \/ AllClosed \/ UNCHANGED vars
  BY <1>6, TickSafety DEF AllClosed
<1> QED
  BY <1>1, <1>2, <1>3, <1>4, <1>5, <1>6 DEF Next

-----------------------------------------------------------------------------
LEMMA AlwaysInv == Spec => []Inv
<1>1. Init => Inv
  BY InitTypeInv, InitSafetyInv DEF Inv
<1>2. Inv /\ [Next]_vars => Inv'
  BY NextTypeInv, NextSafety DEF Inv
<1> QED
  BY <1>1, <1>2, PTL DEF Spec

\* What every handler knows while it waits, and all that follows from it
\* (server.py:286-695).
THEOREM KnowledgeHolds == Spec => []SafetyInv
<1>1. Inv => SafetyInv
  BY DEF Inv, SafetyInv
<1> QED
  BY <1>1, AlwaysInv, PTL

\* Whatever the handlers, the database and crashes do, the stored row is the
\* last accepted PUT (server.py:580-666, database.py:166-201).
THEOREM VaultIsVersioned == Spec => []RowIsLastPut
<1>1. Inv => RowIsLastPut
  BY DEF Inv, SafetyInv
<1> QED
  BY <1>1, AlwaysInv, PTL

\* A vault id belongs to the first user whose PUT was accepted, also when two race
\* to create it (server.py:613-625, database.py:185-195).
THEOREM OwnerNeverChanges == Spec => []OneOwner
<1>1. Inv => OneOwner
  BY DEF Inv, SafetyInv
<1> QED
  BY <1>1, AlwaysInv, PTL

\* A VAULT_ACK names the committed version that is the client's own PUT
\* (server.py:637-666).
THEOREM AcksAreTrue == Spec => []AckIsCommitted
<1>1. Inv => AckIsCommitted
  BY DEF Inv, SafetyInv
<1> QED
  BY <1>1, AlwaysInv, PTL

\* No version is acknowledged twice (server.py:637-666).
THEOREM AcksAreUnique == Spec => []OneAckPerVersion
<1>1. Inv => OneAckPerVersion
  BY DEF Inv, SafetyInv
<1> QED
  BY <1>1, AlwaysInv, PTL

\* VAULT_DATA is a committed version of a vault of the client's user
\* (server.py:527-570).
THEOREM DataIsTrue == Spec => []DataIsCommitted
<1>1. Inv => DataIsCommitted
  BY DEF Inv, SafetyInv
<1> QED
  BY <1>1, AlwaysInv, PTL

\* A token a client was given is in the database for good (server.py:470-493).
THEOREM TokensAreStored == Spec => []TokenIsStored
<1>1. Inv => TokenIsStored
  BY DEF Inv, SafetyInv
<1> QED
  BY <1>1, AlwaysInv, PTL
-----------------------------------------------------------------------------
\* Where sessions come from: however often tokens are refreshed, and whatever
\* handlers and process do meanwhile, a session rests on a full login.  The
\* transaction that stores a session is described by SafetyInv.

\* The inductive invariant: what is stored, and what is about to be.
BackedInv == SessionsBackedByLogin /\ HandlersBacked

Creating == {"session_execute", "session_commit"}

LEMMA InitBackedInv == Init => BackedInv
  BY DEF Init, DbInit, BackedInv, SessionsBackedByLogin, HandlersBacked

\* A step that neither stores a session nor begins to create one.
LEMMA KeepBacked ==
  ASSUME BackedInv, sessions' = sessions, shown' = shown,
         \A d \in Conns : pc'[d] \in Creating =>
           pc[d] \in Creating /\ user'[d] = user[d] /\ client'[d] = client[d]
  PROVE  BackedInv'
<1>1. SessionsBackedByLogin'
  BY DEF BackedInv, SessionsBackedByLogin, Backed
<1>2. HandlersBacked'
  BY DEF BackedInv, HandlersBacked, Backed, Creating
<1> QED
  BY <1>1, <1>2 DEF BackedInv

\* The password with every factor, or the token of a session that is backed.
LEMMA AuthenticateBacked ==
  ASSUME Inv, BackedInv, NEW c \in Conns, Authenticate(c)
  PROVE  BackedInv'
<1>1. pc[c] = "auth" /\ req[c] \in AuthReq /\ pc \in [Conns -> Pcs] /\ user \in [Conns -> Users \cup {None}]
  <2>1. pc[c] = "auth"
    BY DEF Authenticate
  <2>2. req[c] \in AuthReq
    BY <2>1 DEF Inv, TypeInv, ControlOk, AuthPcs
  <2>3. pc \in [Conns -> Pcs] /\ user \in [Conns -> Users \cup {None}]
    BY DEF Inv, TypeInv, TypeOk
  <2> QED
    BY <2>1, <2>2, <2>3
<1>2. shown \subseteq shown' /\ UNCHANGED <<sessions, client>>
  BY DEF Authenticate, Finish, Rollback, dbVars
<1>3. SessionsBackedByLogin'
  <2> SUFFICES ASSUME NEW t \in Conns, sessions'[t] # None
               PROVE  \E p \in shown' : Proves(p, sessions'[t].user, sessions'[t].client)
    BY DEF SessionsBackedByLogin, Backed
  <2>1. \E p \in shown : Proves(p, sessions[t].user, sessions[t].client)
    BY <1>2 DEF BackedInv, SessionsBackedByLogin, Backed
  <2> QED
    BY <1>2, <2>1
<1>4. CASE AuthValid(c, req[c])
  <2>1. user' = [user EXCEPT ![c] = req[c].user] /\ pc' = [pc EXCEPT ![c] = "session_execute"]
    BY <1>4 DEF Authenticate, Goto
  <2>2. \E p \in shown' : Proves(p, req[c].user, client[c])
    <3>1. CASE req[c].refresh = None
      <4> DEFINE p == [user |-> req[c].user, client |-> client[c], factors |-> req[c].factors]
      <4>1. p \in shown'
        BY <3>1 DEF Authenticate
      <4>2. Proves(p, req[c].user, client[c])
        BY <1>4, <3>1 DEF AuthValid, PasswordValid, Proves
      <4> QED
        BY <4>1, <4>2
    <3>2. CASE req[c].refresh # None
      <4>1. req[c].refresh \in Conns
        BY <1>1, <3>2 DEF AuthReq
      <4>2. /\ sessions[req[c].refresh] # None
            /\ sessions[req[c].refresh].user = req[c].user
            /\ sessions[req[c].refresh].client = client[c]
        BY <1>4, <3>2 DEF AuthValid, RefreshValid
      <4>3. Backed(req[c].user, client[c])
        BY <4>1, <4>2 DEF BackedInv, SessionsBackedByLogin
      <4> QED
        BY <4>3, <1>2 DEF Backed
    <3> QED
      BY <3>1, <3>2
  <2>3. ASSUME NEW d \in Conns, pc'[d] \in Creating
        PROVE  Backed(user[d], client[d])'
    <3>1. CASE d = c
      <4>1. user'[c] = req[c].user /\ client'[c] = client[c]
        BY <1>1, <1>2, <2>1
      <4> QED
        BY <2>2, <3>1, <4>1 DEF Backed
    <3>2. CASE d # c
      <4>1. user'[d] = user[d] /\ client'[d] = client[d] /\ pc[d] \in Creating
        BY <1>1, <1>2, <2>1, <2>3, <3>2
      <4>2. Backed(user[d], client[d])
        BY <4>1 DEF BackedInv, HandlersBacked, Creating
      <4> QED
        BY <4>1, <4>2, <1>2 DEF Backed
    <3> QED
      BY <3>1, <3>2
  <2> QED
    BY <1>3, <2>3 DEF BackedInv, HandlersBacked, Creating
<1>5. CASE ~AuthValid(c, req[c])
  <2>1. UNCHANGED user /\ pc' = [pc EXCEPT ![c] = "done"]
    BY <1>5 DEF Authenticate, Finish
  <2>2. ASSUME NEW d \in Conns, pc'[d] \in Creating
        PROVE  Backed(user[d], client[d])'
    <3>1. pc[d] \in Creating /\ user'[d] = user[d] /\ client'[d] = client[d]
      BY <1>1, <1>2, <2>1, <2>2 DEF Creating
    <3>2. Backed(user[d], client[d])
      BY <3>1 DEF BackedInv, HandlersBacked, Creating
    <3> QED
      BY <3>1, <3>2, <1>2 DEF Backed
  <2> QED
    BY <1>3, <2>2 DEF BackedInv, HandlersBacked, Creating
<1> QED
  BY <1>4, <1>5

\* The session stored is the one its handler has been backed for.
LEMMA SessionCommitBacked ==
  ASSUME Inv, BackedInv, NEW c \in Conns, SessionCommit(c)
  PROVE  BackedInv'
<1>1. /\ pc[c] = "session_commit"
      /\ sessions' = txn.sessions
      /\ pc' = [pc EXCEPT ![c] = "session_done"]
      /\ UNCHANGED <<user, client, shown>>
  BY DEF SessionCommit, Commit, Goto
<1>2. txn.sessions = [sessions EXCEPT ![c] = [user |-> user[c], client |-> client[c], expiry |-> expiry[c]]]
  BY <1>1 DEF Inv, SafetyInv, TxnOk, SessionPending
<1>3. sessions \in [Conns -> SessionRow \cup {None}] /\ pc \in [Conns -> Pcs]
  BY DEF Inv, TypeInv, TypeOk, DbTypeOk
<1>4. Backed(user[c], client[c])
  BY <1>1 DEF BackedInv, HandlersBacked
<1>5. SessionsBackedByLogin'
  <2> SUFFICES ASSUME NEW t \in Conns, sessions'[t] # None
               PROVE  Backed(sessions[t].user, sessions[t].client)'
    BY DEF SessionsBackedByLogin
  <2>1. CASE t = c
    <3>1. sessions'[c].user = user[c] /\ sessions'[c].client = client[c]
      BY <1>1, <1>2, <1>3
    <3> QED
      BY <2>1, <3>1, <1>1, <1>4 DEF Backed
  <2>2. CASE t # c
    <3>1. sessions'[t] = sessions[t]
      BY <2>2, <1>1, <1>2, <1>3
    <3> QED
      BY <3>1, <1>1 DEF BackedInv, SessionsBackedByLogin, Backed
  <2> QED
    BY <2>1, <2>2
<1>6. HandlersBacked'
  BY <1>1, <1>3 DEF BackedInv, HandlersBacked, Backed
<1> QED
  BY <1>5, <1>6 DEF BackedInv

\* Every other step.
LEMMA FrameStepBacked ==
  ASSUME Inv, BackedInv, NEW c \in Conns, FrameStep(c) \/ Accept(c) \/ FragmentTimeout(c)
  PROVE  BackedInv'
<1>1. pc \in [Conns -> Pcs] /\ client \in [Conns -> Clients \cup {None}]
  BY DEF Inv, TypeInv, TypeOk
<1>2. ASSUME NEW f \in Frames, Hello(c, f)
      PROVE  BackedInv'
  <2>1. client' = [client EXCEPT ![c] = f.client] /\ UNCHANGED <<sessions, shown, pc, user>> /\ pc[c] = "read"
    BY <1>2 DEF Hello, Reading, dbVars
  <2> QED
    BY <1>1, <2>1, KeepBacked DEF Creating
<1>3. ASSUME NEW f \in Frames, Auth(c, f) \/ Ping(c, f) \/ Bye(c, f) \/ VaultGet(c, f) \/ VaultPut(c, f)
      PROVE  BackedInv'
  <2>1. UNCHANGED <<sessions, shown, user, client>>
    BY <1>3 DEF Auth, Ping, Bye, VaultGet, VaultPut, Finish, Rollback, dbVars
  <2>2. \/ UNCHANGED pc
        \/ \E p \in {"auth", "done", "get_read", "put_read"} : pc' = [pc EXCEPT ![c] = p]
    BY <1>3 DEF Auth, Ping, Bye, VaultGet, VaultPut, Finish, Goto
  <2> QED
    BY <1>1, <2>1, <2>2, KeepBacked DEF Creating
<1>4. CASE PutFragment(c) \/ Accept(c) \/ FragmentTimeout(c)
  BY <1>4, KeepBacked DEF PutFragment, Accept, FragmentTimeout, dbVars
<1> QED
  BY <1>2, <1>3, <1>4 DEF FrameStep

LEMMA HandlerStepBacked ==
  ASSUME Inv, BackedInv, NEW c \in Conns, HandlerStep(c) \/ ReadEnds(c) \/ HandlerFails(c)
  PROVE  BackedInv'
<1>1. pc \in [Conns -> Pcs]
  BY DEF Inv, TypeInv, TypeOk
<1>2. CASE Authenticate(c)
  BY <1>2, AuthenticateBacked
<1>3. CASE SessionCommit(c)
  BY <1>3, SessionCommitBacked
<1>4. CASE SessionExecute(c)
  <2>1. /\ UNCHANGED <<sessions, shown, user, client>> /\ pc[c] = "session_execute"
        /\ pc' = [pc EXCEPT ![c] = "session_commit"]
    BY <1>4 DEF SessionExecute, ExecuteSession, Goto
  <2> QED
    BY <1>1, <2>1, KeepBacked DEF Creating
<1>5. CASE PutCommit(c)
  <2>1. /\ sessions' = txn.sessions /\ pc[c] = "put_commit"
        /\ pc' = [pc EXCEPT ![c] = "put_done"] /\ UNCHANGED <<shown, user, client>>
    BY <1>5 DEF PutCommit, Commit, Goto
  <2>2. txn.sessions = sessions
    BY <2>1 DEF Inv, SafetyInv, TxnOk, PutPending
  <2> QED
    BY <1>1, <2>1, <2>2, KeepBacked DEF Creating
<1>6. CASE \/ AuthOk(c) \/ GetRead(c) \/ GetDone(c) \/ PutRead(c) \/ PutCheck(c) \/ PutExecute(c)
           \/ PutDone(c) \/ BusyTimeout(c) \/ ReadEnds(c) \/ HandlerFails(c)
  <2>1. UNCHANGED <<sessions, shown, user, client>>
    BY <1>6 DEF AuthOk, GetRead, GetDone, PutRead, PutCheck, PutExecute, PutDone, BusyTimeout, ReadEnds,
       HandlerFails, ReadRow, ExecuteUpsert, Finish, Rollback, dbVars
  <2>2. \E p \in {"read", "get_done", "put_check", "put_execute", "put_commit", "done"} :
          pc' = [pc EXCEPT ![c] = p]
    BY <1>6 DEF AuthOk, GetRead, GetDone, PutRead, PutCheck, PutExecute, PutDone, BusyTimeout, ReadEnds,
       HandlerFails, ReadRow, Finish, Continue, Goto
  <2> QED
    BY <1>1, <2>1, <2>2, KeepBacked DEF Creating
<1> QED
  BY <1>2, <1>3, <1>4, <1>5, <1>6 DEF HandlerStep

LEMMA NextBackedInv == Inv /\ BackedInv /\ [Next]_vars => BackedInv'
<1> SUFFICES ASSUME Inv, BackedInv, [Next]_vars
             PROVE  BackedInv'
  OBVIOUS
<1>1. CASE Crash
  <2>1. UNCHANGED <<sessions, shown, user, client>>
    BY <1>1 DEF Crash, CrashRollback
  <2>2. \A d \in Conns : pc'[d] \in Creating => pc[d] \in Creating
    BY <1>1 DEF Crash, Creating
  <2> QED
    BY <2>1, <2>2, KeepBacked
<1>2. CASE Tick \/ AllClosed \/ UNCHANGED vars
  BY <1>2, KeepBacked DEF Tick, AllClosed, vars, dbVars, handlerVars
<1> QED
  BY <1>1, <1>2, FrameStepBacked, HandlerStepBacked DEF Next

-----------------------------------------------------------------------------
\* Through any chain of refreshes a session belongs to a user and client that
\* have logged in with all the factors the user needs (server.py:409-478).
THEOREM SessionsComeFromLogins == Spec => []SessionsBackedByLogin
<1>1. Inv /\ BackedInv /\ [Next]_vars => BackedInv'
  BY NextBackedInv
<1>2. BackedInv => SessionsBackedByLogin
  BY DEF BackedInv
<1> QED
  BY <1>1, <1>2, InitBackedInv, AlwaysInv, PTL DEF Spec
=============================================================================
