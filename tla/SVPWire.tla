-------------------------------- MODULE SVPWire --------------------------------
(***************************************************************************)
(* The binary contract of SVP, written twice: by the client                *)
(* (client-py/framing.py, svpclient.py) and by the server                  *)
(* (server-py/protocol.py, server.py).  For every message the payload its  *)
(* sender builds and what its receiver makes of a payload; and the format  *)
(* of the client's cache file (secvault.py).                               *)
(*                                                                         *)
(* A payload is a sequence of bytes, with as many of them as the code      *)
(* writes: only what a byte can hold and the lengths of keys, ids and      *)
(* frames are parameters.  A key, nonce, token or id is one byte repeated. *)
(* A MAC is ideal: it is what was signed, and by which key.                *)
(***************************************************************************)
EXTENDS Naturals, Sequences

CONSTANTS
  Base,        \* values of a byte (256)
  KeyLen,      \* bytes of a key, nonce, HMAC or token (32)
  IdLen,       \* bytes of a client or vault id (16)
  MaxName,     \* bytes of a user name (64)
  MaxPayload,  \* MAX_PAYLOAD = MAX_PAYLOAD_LEN (2^20)
  MaxBlob,     \* MAX_VAULT_BLOB_BYTES (50 * 2^20)
  None         \* no token, no TOTP code, no message, no key

ASSUME WireAssumption ==
  /\ Base \in Nat \ {0, 1}
  /\ {KeyLen, IdLen, MaxName, MaxPayload, MaxBlob} \subseteq Nat \ {0}
  /\ MaxName < Base

-----------------------------------------------------------------------------
\* Fields: ByteWriter, ByteReader and the struct formats of the server.

Power[n \in Nat] == IF n = 0 THEN 1 ELSE Base * Power[n - 1]
LE(n, width) == [i \in 1..width |-> (n \div Power[i - 1]) % Base]
Number(b) ==
  LET sum[i \in 0..Len(b)] == IF i = 0 THEN 0 ELSE sum[i - 1] + b[i] * Power[i - 1]
  IN  sum[Len(b)]

Repeated(x, n) == [i \in 1..n |-> x]

\* The n bytes after the first at, the number in them, and all that follows.
Bytes(b, at, n) == SubSeq(b, at + 1, at + n)
NumberAt(b, at, width) == Number(Bytes(b, at, width))
From(b, at) == SubSeq(b, at + 1, Len(b))

\* Bytes behind their length.
Prefixed(b, width) == LE(Len(b), width) \o b

\* The length of a blob fits into four bytes (50 MiB).
ASSUME BlobLengthFits == MaxBlob < Power[4]

-----------------------------------------------------------------------------
\* Client to server.

ClientPayload(m) ==
  CASE m.type = "HELLO" -> m.nonce \o m.client \o LE(m.time, 8)
    [] m.type = "AUTH" ->
         Prefixed(m.name, 1) \o m.hmac
           \o (IF m.token = None THEN <<0>> ELSE <<1>> \o m.token)
           \o (IF m.totp = None THEN <<>> ELSE <<1>> \o LE(m.totp, 4))
    [] m.type = "VAULT_GET" -> m.vault \o LE(m.known, 8)
    [] m.type = "VAULT_PUT" -> m.vault \o LE(m.base, 8) \o Prefixed(m.blob, 4)
    [] m.type = "PING" -> LE(m.time, 8)
    [] m.type = "BYE" -> <<0>>

\* _parse_auth_payload: name and HMAC, then an optional refresh flag with its
\* token, then an optional TOTP flag with its code.
HmacEnd(p) == 1 + p[1] + KeyLen
RefreshEnd(p) == HmacEnd(p) + 1 + (IF p[HmacEnd(p) + 1] = 1 THEN KeyLen ELSE 0)
TotpOk(t) == IF Len(t) = 1 + 4 THEN t[1] = 1 ELSE t \in {<<>>, <<0>>}
AuthOk(p) ==
  /\ Len(p) >= 1 + KeyLen
  /\ p[1] \in 1..MaxName
  /\ Len(p) >= HmacEnd(p)
  /\ Len(p) > HmacEnd(p) =>
       /\ p[HmacEnd(p) + 1] \in {0, 1}
       /\ Len(p) >= RefreshEnd(p)
       /\ TotpOk(From(p, RefreshEnd(p)))
ParseAuth(p) ==
  LET refresh == Len(p) > HmacEnd(p) /\ p[HmacEnd(p) + 1] = 1
      totp == Len(p) > HmacEnd(p) /\ Len(From(p, RefreshEnd(p))) > 1
  IN  [type |-> "AUTH", name |-> Bytes(p, 1, p[1]), hmac |-> Bytes(p, 1 + p[1], KeyLen),
       token |-> IF refresh THEN Bytes(p, HmacEnd(p) + 1, KeyLen) ELSE None,
       totp |-> IF totp THEN NumberAt(p, RefreshEnd(p) + 1, 4) ELSE None]

PutOk(p) ==
  /\ Len(p) >= IdLen + 12
  /\ NumberAt(p, IdLen + 8, 4) <= MaxBlob
  /\ Len(p) = IdLen + 12 + NumberAt(p, IdLen + 8, 4)

ServerAccepts(type, p) ==
  CASE type = "HELLO" -> Len(p) = KeyLen + IdLen + 8
    [] type = "AUTH" -> AuthOk(p)
    [] type = "VAULT_GET" -> Len(p) = IdLen + 8
    [] type = "VAULT_PUT" -> PutOk(p)
    [] type = "PING" -> Len(p) = 8
    [] type = "BYE" -> Len(p) = 1
    [] OTHER -> FALSE

ServerParse(type, p) ==
  CASE type = "HELLO" ->
         [type |-> type, nonce |-> Bytes(p, 0, KeyLen), client |-> Bytes(p, KeyLen, IdLen),
          time |-> NumberAt(p, KeyLen + IdLen, 8)]
    [] type = "AUTH" -> ParseAuth(p)
    [] type = "VAULT_GET" ->
         [type |-> type, vault |-> Bytes(p, 0, IdLen), known |-> NumberAt(p, IdLen, 8)]
    [] type = "VAULT_PUT" ->
         [type |-> type, vault |-> Bytes(p, 0, IdLen), base |-> NumberAt(p, IdLen, 8),
          blob |-> Bytes(p, IdLen + 12, NumberAt(p, IdLen + 8, 4))]
    [] type = "PING" -> [type |-> type, time |-> Number(p)]
    [] type = "BYE" -> [type |-> type]

-----------------------------------------------------------------------------
\* Server to client.

ServerPayload(m) ==
  CASE m.type = "CHALLENGE" -> m.nonce \o LE(m.time, 8)
    [] m.type = "AUTH_OK" -> Prefixed(m.token, 2) \o LE(m.expiry, 8) \o LE(m.version, 8)
    [] m.type = "VAULT_DATA" -> m.vault \o LE(m.version, 8) \o m.blob
    [] m.type = "VAULT_ACK" -> m.vault \o LE(m.version, 8)
    [] m.type = "PONG" -> LE(m.time, 8)
    [] m.type = "BYE" -> <<0>>
    [] m.type = "AUTH_FAIL" -> <<m.code>> \o LE(0, 4)
    [] m.type = "ERROR" -> <<m.code>>

\* What ByteReader needs; more bytes than that are not noticed.
ClientAccepts(type, p) ==
  CASE type = "CHALLENGE" -> Len(p) >= KeyLen
    [] type = "AUTH_OK" -> Len(p) >= 2 /\ Len(p) >= 2 + NumberAt(p, 0, 2) + 16
    [] type \in {"VAULT_DATA", "VAULT_ACK"} -> Len(p) >= IdLen + 8
    [] type = "ERROR" -> Len(p) = 1
    [] OTHER -> TRUE

ClientParse(type, p) ==
  CASE type = "CHALLENGE" ->
         [type |-> type, nonce |-> Bytes(p, 0, KeyLen), time |-> NumberAt(p, KeyLen, 8)]
    [] type = "AUTH_OK" ->
         LET n == NumberAt(p, 0, 2)
         IN  [type |-> type, token |-> Bytes(p, 2, n), expiry |-> NumberAt(p, 2 + n, 8),
              version |-> NumberAt(p, 10 + n, 8)]
    [] type = "VAULT_DATA" ->
         [type |-> type, vault |-> Bytes(p, 0, IdLen), version |-> NumberAt(p, IdLen, 8),
          blob |-> From(p, IdLen + 8)]
    [] type = "VAULT_ACK" ->
         [type |-> type, vault |-> Bytes(p, 0, IdLen), version |-> NumberAt(p, IdLen, 8)]
    [] type = "PONG" -> [type |-> type, time |-> Number(p)]
    [] type = "ERROR" -> [type |-> type, code |-> p[1]]
    [] OTHER -> [type |-> type]

-----------------------------------------------------------------------------
\* Frames.  VERSION is always 1; SEQ_ID is written by both sides and used by neither.

Sign(key, type, flags, p) == [key |-> key, type |-> type, flags |-> flags, payload |-> p]
Frame(key, type, flags, p) ==
  [type |-> type, flags |-> flags, payload |-> p, mac |-> Sign(key, type, flags, p)]

ServerTypes == {"HELLO", "CHALLENGE", "AUTH", "AUTH_OK", "AUTH_FAIL", "VAULT_GET", "VAULT_PUT",
                "VAULT_DATA", "VAULT_ACK", "PING", "PONG", "BYE", "ERROR"}

\* decode and recv_frame: the length, then the MAC; the server also the type.
ShortEnough(f) == Len(f.payload) <= MaxPayload
Authentic(f, key) == f.mac = Sign(key, f.type, f.flags, f.payload)
KnownType(f) == f.type \in ServerTypes

\* Mutants: vaults are not cut; the last fragment is only marked when it is not full.
FramesUncut(key, type, p) == <<Frame(key, type, {}, p)>>
FramesUnmarkedFull(key, type, p) ==
  IF Len(p) <= MaxPayload THEN <<Frame(key, type, {}, p)>>
  ELSE [i \in 1..((Len(p) + MaxPayload - 1) \div MaxPayload) |->
          Frame(key, type,
                {"FRAGMENTED"} \cup (IF i * MaxPayload > Len(p) THEN {"LAST_FRAG"} ELSE {}),
                SubSeq(p, (i - 1) * MaxPayload + 1,
                       IF i * MaxPayload < Len(p) THEN i * MaxPayload ELSE Len(p)))]

\* put_vault and _send_fragmented_payload cut a vault the same way.
Frames(key, type, p) ==
  IF Len(p) <= MaxPayload THEN <<Frame(key, type, {}, p)>>
  ELSE [i \in 1..((Len(p) + MaxPayload - 1) \div MaxPayload) |->
          Frame(key, type,
                {"FRAGMENTED"} \cup (IF i * MaxPayload >= Len(p) THEN {"LAST_FRAG"} ELSE {}),
                SubSeq(p, (i - 1) * MaxPayload + 1,
                       IF i * MaxPayload < Len(p) THEN i * MaxPayload ELSE Len(p)))]

-----------------------------------------------------------------------------
\* The cache file.

Magic == Repeated(1, 8)

CacheFile(login, vault, version, blob) ==
  Magic \o Prefixed(login, 2) \o vault \o LE(version, 8) \o Prefixed(blob, 4)

\* Mutant: the length of the blob is taken for granted.
LoadCacheAnyLength(f) ==
  LET n == NumberAt(f, 8, 2)
      blob == 10 + n + IdLen + 12
  IN  IF Len(f) < 10 \/ Len(f) < blob \/ Bytes(f, 0, 8) # Magic THEN None
      ELSE [login |-> Bytes(f, 10, n), vault |-> Bytes(f, 10 + n, IdLen),
            version |-> NumberAt(f, 10 + n + IdLen, 8), blob |-> From(f, blob)]

LoadCache(f) ==
  LET n == NumberAt(f, 8, 2)
      blob == 10 + n + IdLen + 12
      size == NumberAt(f, blob - 4, 4)
  IN  IF Len(f) < 10 \/ Len(f) < blob \/ Len(f) < blob + size \/ Bytes(f, 0, 8) # Magic THEN None
      ELSE [login |-> Bytes(f, 10, n), vault |-> Bytes(f, 10 + n, IdLen),
            version |-> NumberAt(f, 10 + n + IdLen, 8), blob |-> Bytes(f, blob, size)]

-----------------------------------------------------------------------------
\* What either side may mean: fields of bytes, and numbers that fit into theirs.

Byte == 0..Base - 1
Text(n) == {b \in Seq(Byte) : Len(b) = n}
Fits(width) == 0..Power[width] - 1

ClientMessages ==
  [type : {"HELLO"}, nonce : Text(KeyLen), client : Text(IdLen), time : Fits(8)]
  \cup [type : {"AUTH"}, name : {b \in Seq(Byte) : Len(b) \in 1..MaxName}, hmac : Text(KeyLen),
         token : Text(KeyLen) \cup {None}, totp : Fits(4) \cup {None}]
  \cup [type : {"VAULT_GET"}, vault : Text(IdLen), known : Fits(8)]
  \cup [type : {"VAULT_PUT"}, vault : Text(IdLen), base : Fits(8),
         blob : {b \in Seq(Byte) : Len(b) \in Fits(4)}]
  \cup [type : {"PING"}, time : Fits(8)]
  \cup [type : {"BYE"}]

ServerMessages ==
  [type : {"CHALLENGE"}, nonce : Text(KeyLen), time : Fits(8)]
  \cup [type : {"AUTH_OK"}, token : {b \in Seq(Byte) : Len(b) \in Fits(2)}, expiry : Fits(8),
         version : Fits(8)]
  \cup [type : {"AUTH_FAIL"}, code : Nat]
  \cup [type : {"VAULT_DATA"}, vault : Text(IdLen), version : Fits(8),
         blob : {b \in Seq(Byte) : Len(b) <= MaxBlob}]
  \cup [type : {"VAULT_ACK"}, vault : Text(IdLen), version : Fits(8)]
  \cup [type : {"PONG"}, time : Fits(8)]
  \cup [type : {"ERROR"}, code : Nat]
  \cup [type : {"BYE"}]

TooLarge(m) == m.type = "VAULT_PUT" /\ Len(m.blob) > MaxBlob
=============================================================================
