------------------------------- MODULE MCServer -------------------------------
(***************************************************************************)
(* Small instances of SVPServer for TLC: for every question the frames the *)
(* clients send.                                                           *)
(***************************************************************************)
EXTENDS SVPServer, TLC

Logins == [type : {"AUTH"}, user : Users, factors : {{"hmac"}}, refresh : {None}]
Puts(bases) == [type : {"VAULT_PUT"}, vault : Vaults, base : bases, blob : Blobs]

\* Racing writers and readers that log in at once.
PutFrames == HelloReq \cup Logins \cup GetReq \cup Puts(0..2)

\* Logins with and without the second factor, also under an unknown name,
\* refreshes, and one of each request of a session.
SessionsFrames ==
  HelloReq
    \cup [type : {"AUTH"}, user : Users, factors : {{"hmac"}, Factors}, refresh : {None}]
    \cup [type : {"AUTH"}, user : Names \ Users, factors : {{"hmac"}}, refresh : {None}]
    \cup [type : {"AUTH"}, user : Users, factors : {{}}, refresh : Conns]
    \cup Puts({0}) \cup SignalReq

\* One login or refresh, then a PUT.
SessionFrames ==
  HelloReq \cup Logins \cup [type : {"AUTH"}, user : Users, factors : {{}}, refresh : Conns]
    \cup Puts({0})

Symmetry == Permutations(Conns) \cup Permutations(Blobs)
ConnSymmetry == Permutations(Conns)
=============================================================================
