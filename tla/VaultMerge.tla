------------------------------ MODULE VaultMerge ------------------------------
(***************************************************************************)
(* A decrypted vault and the client-side merge: class Vault of             *)
(* client-py/vault.py.                                                     *)
(*                                                                         *)
(* Entry ids are random and never reused, so the list of entries is a      *)
(* function on Ids.  The four text fields of an entry are one value; its   *)
(* order in the list, which only decides how names are looked up, is not   *)
(* kept.                                                                   *)
(***************************************************************************)
EXTENDS Naturals

CONSTANTS
  Ids,     \* entry ids
  Vals,    \* (service, username, password, notes)
  Absent   \* no entry with this id

Entry == [val : Vals, ts : Nat]
Content == [Ids -> Entry \cup {Absent}]

ASSUME AbsentAssumption == Absent \notin Entry

EmptyVault == [i \in Ids |-> Absent]
Present(c) == {i \in Ids : c[i] # Absent}

\* Add and Edit stamp the entry with the wall clock.
Stored(c, i, val, now) == [c EXCEPT ![i] = [val |-> val, ts |-> now]]
Removed(c, i) == [c EXCEPT ![i] = Absent]

\* The server's entry replaces the local one when there is no local one, or
\* when they differ and the local one is not newer.
ServerWins(s, l) ==
  /\ s # Absent
  /\ l # Absent => s.val # l.val /\ s.ts >= l.ts

\* Mutants of MergeFrom: entries the server alone has are dropped; the older
\* of two differing entries is kept.
MergeFromOwnIds(local, server) ==
  [i \in Ids |-> IF local[i] # Absent /\ ServerWins(server[i], local[i]) THEN server[i] ELSE local[i]]
MergeFromOlder(local, server) ==
  [i \in Ids |-> IF /\ server[i] # Absent
                    /\ local[i] # Absent => server[i].val # local[i].val /\ server[i].ts <= local[i].ts
                 THEN server[i] ELSE local[i]]

MergeFrom(local, server) ==
  [i \in Ids |-> IF ServerWins(server[i], local[i]) THEN server[i] ELSE local[i]]
=============================================================================
