---------------------------- MODULE VersionedVault ----------------------------
(***************************************************************************)
(* What the server promises about vaults, whatever its handlers, database  *)
(* and crashes do: every vault is a log of accepted writes by one owner;   *)
(* version n is the n-th entry for ever; a client is only told entries of  *)
(* its own user's vaults, and an entry is acknowledged to its writer only, *)
(* and once.                                                               *)
(***************************************************************************)
EXTENDS Naturals, Sequences

CONSTANTS Conns, Users, Vaults, Blobs

VARIABLES
  log,    \* log[v]: the accepted writes of vault v
  read,   \* versions told in answer to a read
  acked   \* versions acknowledged

vars == <<log, read, acked>>

Write == [by : Conns, user : Users, blob : Blobs]
Told == [user : Users, vault : Vaults, version : Nat, blob : Blobs]
Ack == [by : Conns, vault : Vaults, version : Nat]

Init ==
  /\ log = [v \in Vaults |-> <<>>]
  /\ read = {}
  /\ acked = {}

AcceptWrite(v, w) ==
  /\ \A i \in DOMAIN log[v] : log[v][i].user = w.user
  /\ log' = [log EXCEPT ![v] = Append(@, w)]
  /\ UNCHANGED <<read, acked>>

TellRead(v, n) ==
  /\ n \in DOMAIN log[v]
  /\ read' = read \cup {[user |-> log[v][n].user, vault |-> v, version |-> n, blob |-> log[v][n].blob]}
  /\ UNCHANGED <<log, acked>>

TellAck(v, n) ==
  /\ n \in DOMAIN log[v]
  /\ ~\E a \in acked : a.vault = v /\ a.version = n
  /\ acked' = acked \cup {[by |-> log[v][n].by, vault |-> v, version |-> n]}
  /\ UNCHANGED <<log, read>>

Next ==
  \E v \in Vaults :
    \/ \E w \in Write : AcceptWrite(v, w)
    \/ \E n \in DOMAIN log[v] : TellRead(v, n) \/ TellAck(v, n)

Spec == Init /\ [][Next]_vars
=============================================================================
