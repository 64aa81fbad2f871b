--------------------------- MODULE SVPSession_proofs ---------------------------
(***************************************************************************)
(* Client and server understand each other, whatever the lengths of keys,  *)
(* frames and vaults are: the safety properties of SVPSession.  SVPWire_   *)
(* proofs says what becomes of one message; here of the messages of many   *)
(* connections, with keys that change and vaults in any number of frames.  *)
(***************************************************************************)
EXTENDS SVPSession, SVPWire_proofs

-----------------------------------------------------------------------------
\* One message under way.

Whole(part, f) == IF part = None THEN f.payload ELSE part \o f.payload

\* All frames of a message are under way when it has just been sent.
LEMMA JustSent ==
  ASSUME NEW key, NEW type, NEW p \in Data
  PROVE  /\ UnderWay(Frames(key, type, p), key, type, p, None)
         /\ <<>> \o Frames(key, type, p) = Frames(key, type, p)
         /\ Frames(key, type, p) # <<>>
         /\ Short(Frames(key, type, p))
<1> DEFINE fs == Frames(key, type, p)
<1>1. /\ Pieces(p) \in Nat \ {0} /\ fs \in Seq(Range(fs)) /\ Len(fs) = Pieces(p)
      /\ \A i \in 1..Pieces(p) : FrameOk(fs[i], key, type, p, i)
  BY FramesAre
<1> HIDE DEF fs
<1>2. SubSeq(fs, 0 + 1, Len(fs)) = fs /\ <<>> \o fs = fs /\ fs # <<>>
  BY <1>1, SubSeqFull, ConcatEmptySeq, EmptySeq
<1>3. 0 \in 0..Len(fs) - 1
  BY <1>1
<1>4. UnderWay(fs, key, type, p, None)
  BY <1>2, <1>3 DEF UnderWay, fs
<1>5. Short(fs)
  BY <1>1 DEF Short, FrameOk
<1> QED
  BY <1>2, <1>4, <1>5 DEF fs

LEMMA Beginning ==
  ASSUME NEW S, NEW p \in Seq(S), NEW n \in 0..Len(p)
  PROVE  SubSeq(p, 1, n) \in Seq(S) /\ Len(SubSeq(p, 1, n)) = n
<1>1. n \in Int /\ 1 \in Int /\ \A i \in 1..n : p[i] \in S
  OBVIOUS
<1>2. SubSeq(p, 1, n) \in Seq(S) /\ Len(SubSeq(p, 1, n)) = IF 1 <= n THEN n - 1 + 1 ELSE 0
  BY <1>1, SubSeqProperties
<1> QED
  BY <1>2

LEMMA UnderWayIsShort ==
  ASSUME NEW q, NEW key, NEW type, NEW p \in Data, NEW part,
         UnderWay(q, key, type, p, part)
  PROVE  Short(q)
<1> DEFINE fs == Frames(key, type, p)
           n == Pieces(p)
<1>1. /\ n \in Nat \ {0} /\ fs \in Seq(Range(fs)) /\ Len(fs) = n
      /\ \A i \in 1..n : FrameOk(fs[i], key, type, p, i)
  BY FramesAre
<1>2. PICK k \in 0..Len(fs) - 1 : q = SubSeq(fs, k + 1, Len(fs))
  BY DEF UnderWay
<1> HIDE DEF fs, n
<1>3. k \in Nat /\ k < n
  BY <1>1, <1>2
<1>4. \A i \in k + 1 .. n : fs[i] \in Range(fs)
  BY <1>1, <1>3
<1>5. k + 1 \in Int /\ n \in Int
  BY <1>1, <1>3
<1>6. /\ Len(SubSeq(fs, k + 1, n)) = IF k + 1 <= n THEN n - (k + 1) + 1 ELSE 0
      /\ \A i \in 1 .. n - (k + 1) + 1 : SubSeq(fs, k + 1, n)[i] = fs[(k + 1) + i - 1]
  BY <1>4, <1>5, SubSeqProperties
<1>7. ASSUME NEW i \in 1..Len(q) PROVE ShortEnough(q[i])
  <2>1. i \in 1 .. n - (k + 1) + 1 /\ (k + 1) + i - 1 \in 1..n
    BY <1>1, <1>2, <1>3, <1>6
  <2>2. q[i] = fs[(k + 1) + i - 1]
    BY <1>1, <1>2, <1>6, <2>1
  <2> QED
    BY <1>1, <2>1, <2>2 DEF FrameOk
<1> QED
  BY <1>7 DEF Short

\* Of a message under way the next frame has its type, its key and a length that
\* is taken, and what was put together with it is the beginning of the payload, or
\* all of it.
NextIs(q, key, type, p, part) ==
  LET f == Head(q)
  IN  /\ q # <<>>
      /\ f.type = type /\ Authentic(f, key) /\ ShortEnough(f)
      /\ part # None => part \in Data /\ Len(p) > MaxPayload
      /\ "FRAGMENTED" \in f.flags <=> Len(p) > MaxPayload
      /\ "LAST_FRAG" \in f.flags => "FRAGMENTED" \in f.flags
      /\ More(f) => UnderWay(Tail(q), key, type, p, Whole(part, f))
      /\ ~More(f) => Tail(q) = <<>> /\ Whole(part, f) = p
      /\ \E n \in 0..Len(p) : Whole(part, f) = SubSeq(p, 1, n)

LEMMA NextFrame ==
  ASSUME NEW q, NEW key, NEW type, NEW p \in Data, NEW part,
         UnderWay(q, key, type, p, part)
  PROVE  NextIs(q, key, type, p, part)
<1> DEFINE fs == Frames(key, type, p)
           n == Pieces(p)
           f == Head(q)
<1>1. /\ n \in Nat \ {0} /\ fs \in Seq(Range(fs)) /\ Len(fs) = n
      /\ \A i \in 1..n : FrameOk(fs[i], key, type, p, i)
  BY FramesAre
<1>2. PICK k \in 0..Len(fs) - 1 :
        /\ q = SubSeq(fs, k + 1, Len(fs))
        /\ part = IF k = 0 THEN None ELSE SubSeq(p, 1, k * MaxPayload)
  BY DEF UnderWay
<1> HIDE DEF fs, n
<1>3. k \in Nat /\ k + 1 \in 1..n /\ k + 1 <= n /\ Len(fs) = n
  BY <1>1, <1>2
<1>4. FrameOk(fs[k + 1], key, type, p, k + 1)
  BY <1>1, <1>3
<1>5. q # <<>> /\ Head(q) = fs[k + 1] /\ Tail(q) = SubSeq(fs, k + 2, n)
  <2>1. SubSeq(fs, k + 1, n) # <<>> /\ Head(SubSeq(fs, k + 1, n)) = fs[k + 1]
        /\ Tail(SubSeq(fs, k + 1, n)) = SubSeq(fs, k + 1 + 1, n)
    BY <1>1, <1>3, HeadTailOfSubSeq
  <2> QED
    BY <1>1, <1>2, <1>3, <2>1
<1> DEFINE from == k * MaxPayload
           end == End(p, k + 1)
<1>6. /\ f.type = type /\ Authentic(f, key) /\ ShortEnough(f)
      /\ "FRAGMENTED" \in f.flags <=> Len(p) > MaxPayload
      /\ "LAST_FRAG" \in f.flags => "FRAGMENTED" \in f.flags
      /\ More(f) <=> k + 1 < n
  BY <1>4, <1>5 DEF FrameOk, n
<1>7. /\ f.payload = SubSeq(p, from + 1, end)
      /\ from \in Nat /\ end \in Nat /\ from <= end /\ end <= Len(p)
  <2>1. (k + 1) - 1 = k
    BY <1>3
  <2> QED
    BY <1>4, <1>5, <2>1 DEF FrameOk
<1>8. p \in Seq(Nat) /\ Len(p) \in Nat /\ MaxPayload \in Nat
  BY WireAssumption, LengthIsNat DEF Data
<1> DEFINE Put == Whole(part, f) = SubSeq(p, 1, end)
           Cut == part # None => part \in Data /\ Len(p) > MaxPayload
<1>9. ASSUME k = 0 PROVE Put /\ Cut
  <2>1. part = None /\ from = 0
    BY <1>2, <1>8, <1>9
  <2> HIDE DEF f, from, end
  <2>2. Whole(part, f) = SubSeq(p, 1, end)
    BY <1>7, <2>1 DEF Whole
  <2> QED
    BY <2>1, <2>2
<1>10. ASSUME k # 0 PROVE Put /\ Cut
  <2>1. part = SubSeq(p, 1, from)
    BY <1>2, <1>10
  <2> HIDE DEF f, from, end
  <2>2. SubSeq(p, 1, from) \in Seq(Nat)
    BY <1>7, <1>8, Beginning
  <2>3. part # None
    BY <2>1, <2>2, SessionAssumption
  <2>4. SubSeq(p, 1, from) \o SubSeq(p, from + 1, end) = SubSeq(p, 1, end)
    <3>1. 1 \in 1..Len(p) + 1 /\ from \in 1 - 1..Len(p) /\ end \in from..Len(p)
      BY <1>7, <1>8
    <3> QED
      BY <1>8, <3>1, ConcatAdjacentSubSeq
  <2>5. n > 1
    BY <1>1, <1>3, <1>10
  <2>6. Len(p) > MaxPayload
    BY <1>8, <2>5 DEF Pieces, n
  <2>7. Whole(part, f) = SubSeq(p, 1, end)
    BY <1>7, <2>1, <2>3, <2>4 DEF Whole
  <2> QED
    BY <2>1, <2>2, <2>6, <2>7 DEF Data
<1> HIDE DEF f
<1>11. Whole(part, f) = SubSeq(p, 1, end) /\ (part # None => part \in Data /\ Len(p) > MaxPayload)
  BY <1>9, <1>10
<1>12. More(f) => UnderWay(Tail(q), key, type, p, Whole(part, f))
  <2> SUFFICES ASSUME More(f) PROVE UnderWay(Tail(q), key, type, p, Whole(part, f))
    OBVIOUS
  <2> DEFINE j == k + 1
  <2>1. j < n /\ j \in 0..Len(fs) - 1 /\ j # 0 /\ j + 1 = k + 2
    BY <1>1, <1>3, <1>6
  <2>2. end = j * MaxPayload
    BY <1>3, <2>1 DEF End, n
  <2>3. Tail(q) = SubSeq(fs, j + 1, Len(fs))
    BY <1>3, <1>5, <2>1
  <2> HIDE DEF j, end
  <2>4. Whole(part, f) = IF j = 0 THEN None ELSE SubSeq(p, 1, j * MaxPayload)
    BY <1>11, <2>1, <2>2
  <2> QED
    BY <2>1, <2>3, <2>4 DEF UnderWay, fs
<1>13. ~More(f) => Tail(q) = <<>> /\ Whole(part, f) = p
  <2> SUFFICES ASSUME ~More(f) PROVE Tail(q) = <<>> /\ Whole(part, f) = p
    OBVIOUS
  <2>1. k + 1 = n
    BY <1>1, <1>3, <1>6
  <2>2. end = Len(p)
    BY <1>1, <2>1 DEF End, n
  <2>3. SubSeq(fs, k + 2, n) = <<>>
    BY <1>1, <1>3, <2>1, SubSeqEmpty
  <2>4. SubSeq(p, 1, Len(p)) = p
    BY <1>8, SubSeqFull
  <2> HIDE DEF end
  <2> QED
    BY <1>5, <1>11, <2>2, <2>3, <2>4
<1>14. \E l \in 0..Len(p) : Whole(part, f) = SubSeq(p, 1, l)
  <2>1. end \in 0..Len(p)
    BY <1>7, <1>8
  <2> HIDE DEF end
  <2> QED
    BY <1>11, <2>1
<1> QED
  BY <1>5, <1>6, <1>11, <1>12, <1>13, <1>14 DEF f, NextIs

-----------------------------------------------------------------------------
\* The messages: what a payload is, how long it is, and what the fields are.

ClientType(type) == {m \in ClientMessages : m.type = type}
ServerType(type) == {m \in ServerMessages : m.type = type}
OneFrame(p) == p \in Data /\ Len(p) <= MaxPayload

LEMMA ClientTypes ==
  /\ ClientType("HELLO") =
       [type : {"HELLO"}, nonce : Text(KeyLen), client : Text(IdLen), time : Fits(8)]
  /\ ClientType("AUTH") =
       [type : {"AUTH"}, name : {b \in Seq(Byte) : Len(b) \in 1..MaxName}, hmac : Text(KeyLen),
        token : Text(KeyLen) \cup {None}, totp : Fits(4) \cup {None}]
  /\ ClientType("VAULT_GET") = [type : {"VAULT_GET"}, vault : Text(IdLen), known : Fits(8)]
  /\ ClientType("VAULT_PUT") =
       [type : {"VAULT_PUT"}, vault : Text(IdLen), base : Fits(8),
        blob : {b \in Seq(Byte) : Len(b) \in Fits(4)}]
  /\ ClientType("PING") = [type : {"PING"}, time : Fits(8)]
  /\ ClientType("BYE") = [type : {"BYE"}]
  /\ \A m \in ClientMessages :
       m.type \in {"HELLO", "AUTH", "VAULT_GET", "VAULT_PUT", "PING", "BYE"}
<1> QED
  BY DEF ClientMessages, ClientType

LEMMA ServerTypesAre ==
  /\ ServerType("CHALLENGE") = [type : {"CHALLENGE"}, nonce : Text(KeyLen), time : Fits(8)]
  /\ ServerType("AUTH_OK") =
       [type : {"AUTH_OK"}, token : {b \in Seq(Byte) : Len(b) \in Fits(2)}, expiry : Fits(8),
        version : Fits(8)]
  /\ ServerType("AUTH_FAIL") = [type : {"AUTH_FAIL"}, code : Nat]
  /\ ServerType("VAULT_DATA") =
       [type : {"VAULT_DATA"}, vault : Text(IdLen), version : Fits(8),
        blob : {b \in Seq(Byte) : Len(b) <= MaxBlob}]
  /\ ServerType("VAULT_ACK") = [type : {"VAULT_ACK"}, vault : Text(IdLen), version : Fits(8)]
  /\ ServerType("PONG") = [type : {"PONG"}, time : Fits(8)]
  /\ ServerType("ERROR") = [type : {"ERROR"}, code : Nat]
  /\ ServerType("BYE") = [type : {"BYE"}]
<1> QED
  BY DEF ServerMessages, ServerType

\* Everything but a vault has room in one frame.
LEMMA Shorter ==
  ASSUME NEW p, NEW n \in Nat, Sized(p, n), n <= MaxPayload
  PROVE  OneFrame(p)
<1>1. Len(p) \in Nat /\ MaxPayload \in Nat
  BY LengthIsNat, WireAssumption DEF Sized
<1> QED
  BY <1>1 DEF Sized, OneFrame

LEMMA ClientSent ==
  ASSUME NEW m \in ClientMessages
  PROVE  /\ Arrives(m) /\ ClientPayload(m) \in Data
         /\ m.type # "VAULT_PUT" => OneFrame(ClientPayload(m))
<1>1. Arrives(m)
  BY ServerUnderstands
<1>2. /\ {KeyLen, IdLen, MaxName, MaxPayload} \subseteq Nat
      /\ KeyLen + IdLen + 8 <= MaxPayload /\ IdLen + 8 <= MaxPayload /\ 8 <= MaxPayload
      /\ 1 <= MaxPayload /\ MaxName + 2 * KeyLen + 7 <= MaxPayload
  <2>1. KeyLen \in Nat /\ IdLen \in Nat /\ MaxName \in Nat /\ MaxPayload \in Nat
    BY WireAssumption
  <2>2. KeyLen + IdLen + 8 <= MaxPayload /\ MaxName + 2 * KeyLen + 7 <= MaxPayload
    BY SessionAssumption, Zenon
  <2> QED
    BY <2>1, <2>2
<1>3. ASSUME m.type = "HELLO" PROVE OneFrame(ClientPayload(m))
  <2>1. m \in ClientType("HELLO")
    BY <1>3 DEF ClientType
  <2>2. Sized(ClientPayload(m), KeyLen + IdLen + 8)
    BY <2>1, HelloArrives, ClientTypes
  <2>3. KeyLen + IdLen + 8 \in Nat
    BY <1>2
  <2> QED
    BY <1>2, <2>2, <2>3, Shorter
<1>4. ASSUME m.type = "AUTH" PROVE OneFrame(ClientPayload(m))
  <2>1. m \in ClientType("AUTH")
    BY <1>4 DEF ClientType
  <2>2. Sized(ClientPayload(m), MaxName + 2 * KeyLen + 7)
    BY <2>1, AuthArrives, ClientTypes
  <2>3. MaxName + 2 * KeyLen + 7 \in Nat
    BY <1>2
  <2> QED
    BY <1>2, <2>2, <2>3, Shorter
<1>5. ASSUME m.type = "VAULT_GET" PROVE OneFrame(ClientPayload(m))
  <2>1. m \in ClientType("VAULT_GET")
    BY <1>5 DEF ClientType
  <2>2. Sized(ClientPayload(m), IdLen + 8)
    BY <2>1, GetArrives, ClientTypes
  <2>3. IdLen + 8 \in Nat
    BY <1>2
  <2> QED
    BY <1>2, <2>2, <2>3, Shorter
<1>6. ASSUME m.type = "PING" PROVE OneFrame(ClientPayload(m))
  <2>1. m \in ClientType("PING")
    BY <1>6 DEF ClientType
  <2>2. Sized(ClientPayload(m), 8)
    BY <2>1, PingArrives, ClientTypes
  <2>3. 8 \in Nat
    BY <1>2
  <2> QED
    BY <1>2, <2>2, <2>3, Shorter
<1>7. ASSUME m.type = "BYE" PROVE OneFrame(ClientPayload(m))
  <2>1. m \in ClientType("BYE")
    BY <1>7 DEF ClientType
  <2>2. Sized(ClientPayload(m), 1)
    BY <2>1, ByeArrives, ClientTypes
  <2>3. 1 \in Nat
    BY <1>2
  <2> QED
    BY <1>2, <2>2, <2>3, Shorter
<1>8. ASSUME m.type = "VAULT_PUT" PROVE ClientPayload(m) \in Data
  <2>1. m \in ClientType("VAULT_PUT")
    BY <1>8 DEF ClientType
  <2> QED
    BY <2>1, PutArrives, ClientTypes DEF Sized
<1>9. m.type \in {"HELLO", "AUTH", "VAULT_GET", "VAULT_PUT", "PING", "BYE"}
  BY ClientTypes
<1> QED
  BY <1>1, <1>3, <1>4, <1>5, <1>6, <1>7, <1>8, <1>9 DEF OneFrame

\* A PUT.
LEMMA PutSent ==
  ASSUME NEW m \in ClientMessages, m.type = "VAULT_PUT"
  PROVE  /\ ClientPayload(m) \in Seq(Byte)
         /\ Len(ClientPayload(m)) <= IdLen + 12 + Len(m.blob)
         /\ m.vault \in Text(IdLen) /\ m.base \in Fits(8)
         /\ m.blob \in Seq(Byte) /\ Len(m.blob) \in Nat /\ Len(m.blob) \in Fits(4)
<1>1. m \in ClientType("VAULT_PUT")
  BY DEF ClientType
<1>2. m \in [type : {"VAULT_PUT"}, vault : Text(IdLen), base : Fits(8),
              blob : {b \in Seq(Byte) : Len(b) \in Fits(4)}]
  BY <1>1, ClientTypes
<1>3. ClientPayload(m) \in Seq(Byte) /\ Len(ClientPayload(m)) <= IdLen + 12 + Len(m.blob)
  BY <1>2, PutIsBytes, PutArrives DEF Sized
<1> QED
  BY <1>2, <1>3, FitsIsNat

LEMMA AskedFields ==
  ASSUME NEW m \in ClientMessages
  PROVE  /\ m.type = "VAULT_GET" => m.vault \in Text(IdLen)
         /\ m.type = "PING" => m.time \in Fits(8)
<1>2. ASSUME m.type = "VAULT_GET" PROVE m.vault \in Text(IdLen)
  <2>1. m \in ClientType("VAULT_GET")
    BY <1>2 DEF ClientType
  <2>2. m \in [type : {"VAULT_GET"}, vault : Text(IdLen), known : Fits(8)]
    BY <2>1, ClientTypes
  <2> QED
    BY <2>2
<1>3. ASSUME m.type = "PING" PROVE m.time \in Fits(8)
  <2>1. m \in ClientType("PING")
    BY <1>3 DEF ClientType
  <2>2. m \in [type : {"PING"}, time : Fits(8)]
    BY <2>1, ClientTypes
  <2> QED
    BY <2>2
<1> QED
  BY <1>2, <1>3

LEMMA ServerSent ==
  ASSUME NEW m \in ServerMessages
  PROVE  /\ m.type \in {"CHALLENGE", "AUTH_FAIL", "VAULT_ACK", "PONG", "ERROR"} => OneFrame(ServerPayload(m))
         /\ m.type = "AUTH_OK" /\ m.token \in Text(KeyLen) => OneFrame(ServerPayload(m))
         /\ m.type = "VAULT_DATA" =>
              ServerPayload(m) \in Data /\ ServerPayload(m) \in Seq(Byte)
              /\ m.blob \in Seq(Byte) /\ Len(m.blob) <= MaxBlob
         /\ m.type \in {"AUTH_OK", "VAULT_DATA", "VAULT_ACK"} => m.version \in Fits(8)
         /\ m.type = "CHALLENGE" => m.nonce \in Text(KeyLen)
<1>1. KeyLen \in Nat /\ IdLen \in Nat /\ MaxPayload \in Nat
  BY WireAssumption
<1>2. /\ KeyLen \in Nat /\ IdLen \in Nat /\ MaxPayload \in Nat
      /\ KeyLen + 8 <= MaxPayload /\ IdLen + 8 <= MaxPayload /\ 8 <= MaxPayload
      /\ 1 <= MaxPayload /\ 5 <= MaxPayload /\ KeyLen + 18 <= MaxPayload
  <2>1. KeyLen + IdLen + 8 <= MaxPayload /\ KeyLen + 18 <= MaxPayload
    BY SessionAssumption
  <2> QED
    BY <1>1, <2>1
<1>3. ASSUME m.type = "CHALLENGE" PROVE OneFrame(ServerPayload(m)) /\ m.nonce \in Text(KeyLen)
  <2>1. m \in ServerType("CHALLENGE")
    BY <1>3 DEF ServerType
  <2>2. Sized(ServerPayload(m), KeyLen + 8) /\ m.nonce \in Text(KeyLen)
    <3>1. m \in [type : {"CHALLENGE"}, nonce : Text(KeyLen), time : Fits(8)]
      BY <2>1, ServerTypesAre
    <3> QED
      BY <3>1, ChallengeReturns
  <2>3. KeyLen + 8 \in Nat
    BY <1>2
  <2> QED
    BY <1>2, <2>2, <2>3, Shorter
<1>4. ASSUME m.type = "AUTH_FAIL" PROVE OneFrame(ServerPayload(m))
  <2>1. m \in ServerType("AUTH_FAIL")
    BY <1>4 DEF ServerType
  <2>2. m.code \in Nat
    <3>1. m \in [type : {"AUTH_FAIL"}, code : Nat]
      BY <2>1, ServerTypesAre
    <3> QED
      BY <3>1
  <2>3. <<m.code>> \in Data /\ Len(<<m.code>>) = 1 /\ 4 \in Nat /\ 0 \in Nat
    BY <2>2 DEF Data
  <2>4. LE(0, 4) \in Data /\ Len(LE(0, 4)) = 4
    BY <2>3, FieldIsText
  <2>5. <<m.code>> \o LE(0, 4) \in Data /\ Len(<<m.code>> \o LE(0, 4)) = 1 + 4
    BY <2>3, <2>4, Joined
  <2>6. ServerPayload(m) = <<m.code>> \o LE(0, 4)
    BY <1>4 DEF ServerPayload
  <2> QED
    BY <1>2, <2>5, <2>6 DEF OneFrame
<1>5. ASSUME m.type = "VAULT_ACK" PROVE OneFrame(ServerPayload(m)) /\ m.version \in Fits(8)
  <2>1. m \in ServerType("VAULT_ACK")
    BY <1>5 DEF ServerType
  <2>2. Sized(ServerPayload(m), IdLen + 8) /\ m.version \in Fits(8)
    <3>1. m \in [type : {"VAULT_ACK"}, vault : Text(IdLen), version : Fits(8)]
      BY <2>1, ServerTypesAre
    <3> QED
      BY <3>1, AckReturns
  <2>3. IdLen + 8 \in Nat
    BY <1>2
  <2> QED
    BY <1>2, <2>2, <2>3, Shorter
<1>6. ASSUME m.type = "PONG" PROVE OneFrame(ServerPayload(m))
  <2>1. m \in ServerType("PONG")
    BY <1>6 DEF ServerType
  <2>2. Sized(ServerPayload(m), 8)
    BY <2>1, PongReturns, ServerTypesAre
  <2>3. 8 \in Nat
    BY <1>2
  <2> QED
    BY <1>2, <2>2, <2>3, Shorter
<1>7. ASSUME m.type = "ERROR" PROVE OneFrame(ServerPayload(m))
  <2>1. m \in ServerType("ERROR")
    BY <1>7 DEF ServerType
  <2>2. Sized(ServerPayload(m), 1)
    BY <2>1, ErrorReturns, ServerTypesAre
  <2>3. 1 \in Nat
    BY <1>2
  <2> QED
    BY <1>2, <2>2, <2>3, Shorter
<1>8. ASSUME m.type = "AUTH_OK"
      PROVE  (m.token \in Text(KeyLen) => OneFrame(ServerPayload(m))) /\ m.version \in Fits(8)
  <2>1. m \in ServerType("AUTH_OK")
    BY <1>8 DEF ServerType
  <2>2. Sized(ServerPayload(m), Len(m.token) + 18) /\ m.version \in Fits(8)
    <3>1. m \in [type : {"AUTH_OK"}, token : {b \in Seq(Byte) : Len(b) \in Fits(2)}, expiry : Fits(8),
              version : Fits(8)]
      BY <2>1, ServerTypesAre
    <3> QED
      BY <3>1, AuthOkReturns
  <2>3. ASSUME m.token \in Text(KeyLen) PROVE OneFrame(ServerPayload(m))
    <3>1. Sized(ServerPayload(m), KeyLen + 18)
      BY <2>2, <2>3 DEF Text
    <3>2. KeyLen + 18 \in Nat
      BY <1>2
    <3> QED
      BY <1>2, <3>1, <3>2, Shorter
  <2> QED
    BY <2>2, <2>3
<1>9. ASSUME m.type = "VAULT_DATA"
      PROVE  /\ ServerPayload(m) \in Data /\ ServerPayload(m) \in Seq(Byte)
             /\ m.blob \in Seq(Byte) /\ Len(m.blob) <= MaxBlob /\ m.version \in Fits(8)
  <2>1. m \in ServerType("VAULT_DATA")
    BY <1>9 DEF ServerType
  <2>2. m \in [type : {"VAULT_DATA"}, vault : Text(IdLen), version : Fits(8),
                blob : {b \in Seq(Byte) : Len(b) <= MaxBlob}]
    BY <2>1, ServerTypesAre
  <2> QED
    BY <2>2, DataReturns, DataIsBytes DEF Sized
<1> QED
  BY <1>3, <1>4, <1>5, <1>6, <1>7, <1>8, <1>9

LEMMA Repeats ==
  ASSUME NEW x \in Byte, NEW n \in Nat
  PROVE  Repeated(x, n) \in Text(n)
BY DEF Repeated, Text

LEMMA NoneIsNoText ==
  /\ None \notin Seq(Byte) /\ None \notin Data
  /\ \A n : None \notin Text(n)
BY SessionAssumption, BytesAreData DEF Data, Text

\* Counters and versions fit into eight bytes.
LEMMA CountersFit ==
  /\ \A n \in Nat : n <= Base + MaxAsked => n \in Fits(8)
  /\ Base \in Nat /\ MaxAsked \in Nat /\ MaxConns \in Nat /\ MaxConns < Base
<1>1. Base \in Nat /\ MaxAsked \in Nat /\ MaxConns \in Nat /\ MaxConns < Base
  BY WireAssumption, SessionAssumption
<1>2. Base + MaxAsked < Power[8] /\ Power[8] \in Nat
  BY SessionAssumption, PowerAtLeastOne
<1> QED
  BY <1>1, <1>2 DEF Fits

-----------------------------------------------------------------------------
\* What a handler reads.

HandlerFinds(f) ==
  /\ asked \in ClientMessages /\ asked.type \in Requests /\ f.type = asked.type
  /\ asked.type # "VAULT_PUT" => buffer = None /\ ~MoreFragments(f) /\ Assembled(f) = f.payload
  /\ asked.type = "VAULT_PUT" => Assembled(f) \in Seq(Byte)
  /\ Accepted(f) \/ TooLarge(asked)
  /\ MoreFragments(f) =>
       UnderWay(Tail(toServer), AskKey, asked.type, ClientPayload(asked), Assembled(f))
  /\ ~MoreFragments(f) =>
       /\ Tail(toServer) = <<>>
       /\ ServerParse(asked.type, Assembled(f)) = asked
       /\ Accepted(f) => ~TooLarge(asked)

LEMMA HandlerHead ==
  ASSUME BytesOk, HandlerOk, state # "closed", toServer # <<>>
  PROVE  HandlerFinds(Head(toServer))
<1> DEFINE f == Head(toServer)
           p == ClientPayload(asked)
           whole == Whole(buffer, f)
<1>1. /\ asked \in ClientMessages /\ asked.type \in Requests
      /\ UnderWay(toServer, AskKey, asked.type, p, buffer)
      /\ state = "ESTABLISHED" => hkey = kmac
  BY DEF HandlerOk, Asking
<1>2. state \in {"GREETING", "AUTHENTICATING", "ESTABLISHED"}
  BY DEF BytesOk
<1>3. /\ Arrives(asked) /\ p \in Data /\ Len(p) \in Nat /\ MaxPayload \in Nat
      /\ asked.type # "VAULT_PUT" => Len(p) <= MaxPayload
  BY <1>1, ClientSent, LengthIsNat, WireAssumption DEF OneFrame
<1>4. /\ f.type = asked.type /\ Authentic(f, AskKey) /\ ShortEnough(f)
      /\ buffer # None => buffer \in Data /\ Len(p) > MaxPayload
      /\ "FRAGMENTED" \in f.flags <=> Len(p) > MaxPayload
      /\ "LAST_FRAG" \in f.flags => "FRAGMENTED" \in f.flags
      /\ More(f) => UnderWay(Tail(toServer), AskKey, asked.type, p, whole)
      /\ ~More(f) => Tail(toServer) = <<>> /\ whole = p
      /\ \E n \in 0..Len(p) : whole = SubSeq(p, 1, n)
  <2>1. NextIs(toServer, AskKey, asked.type, p, buffer)
    BY <1>1, <1>3, NextFrame, Zenon
  <2> QED
    BY <2>1 DEF NextIs
<1> HIDE DEF f, p
<1>5. asked.type # "VAULT_PUT" => buffer = None /\ "FRAGMENTED" \notin f.flags
  BY <1>3, <1>4
<1>6. MoreFragments(f) <=> More(f)
  BY <1>4, <1>5 DEF MoreFragments, More
<1>7. Assembled(f) = whole
  BY <1>4 DEF Assembled, Whole
<1>8. asked.type # "VAULT_PUT" => Assembled(f) = f.payload
  BY <1>5 DEF Assembled
<1> HIDE DEF whole
<1>9. Authentic(f, HandlerKey)
  <2>1. AskKey = HandlerKey
    BY <1>1, <1>2 DEF AskKey, HandlerKey, Requests
  <2> QED
    BY <1>4, <2>1
<1>10. KnownType(f) /\ f.type \in Expected
  BY <1>1, <1>2, <1>4, <1>5 DEF KnownType, ServerTypes, Expected, Requests
<1>11. ASSUME asked.type = "VAULT_PUT"
       PROVE  /\ Assembled(f) \in Seq(Byte)
              /\ ~TooLarge(asked) => Len(Assembled(f)) <= MaxBlob + IdLen + 12
  <2>1. /\ p \in Seq(Byte) /\ Len(p) <= IdLen + 12 + Len(asked.blob) /\ Len(asked.blob) \in Nat
        /\ MaxBlob \in Nat /\ IdLen \in Nat
    BY <1>1, <1>11, PutSent, WireAssumption DEF p
  <2>2. PICK n \in 0..Len(p) : whole = SubSeq(p, 1, n)
    BY <1>4
  <2>3. n \in Nat /\ n <= Len(p)
    BY <1>3
  <2>4. SubSeq(p, 1, n) \in Seq(Byte) /\ Len(SubSeq(p, 1, n)) = n
    BY <1>3, <2>1, Beginning
  <2>5. ~TooLarge(asked) => Len(asked.blob) <= MaxBlob
    BY <1>11, <2>1 DEF TooLarge
  <2>6. ~TooLarge(asked) => n <= MaxBlob + IdLen + 12
    <3> DEFINE size == Len(asked.blob)
    <3>1. size \in Nat /\ Len(p) <= IdLen + 12 + size /\ (~TooLarge(asked) => size <= MaxBlob)
      BY <2>1, <2>5
    <3> HIDE DEF size
    <3> QED
      BY <1>3, <2>1, <2>3, <3>1
  <2>7. Assembled(f) = SubSeq(p, 1, n)
    BY <1>7, <2>2
  <2>8. Assembled(f) \in Seq(Byte) /\ Len(Assembled(f)) = n
    BY <2>4, <2>7
  <2> QED
    BY <2>6, <2>8
<1>12. ASSUME ~MoreFragments(f)
       PROVE  /\ Tail(toServer) = <<>>
              /\ ServerParse(asked.type, Assembled(f)) = asked
              /\ ServerAccepts(f.type, Assembled(f)) <=> ~TooLarge(asked)
  <2>1. Assembled(f) = p /\ Tail(toServer) = <<>>
    BY <1>4, <1>6, <1>7, <1>12
  <2> QED
    BY <1>3, <1>4, <2>1 DEF Arrives, p
<1>13. Accepted(f) \/ TooLarge(asked)
  <2>1. "FRAGMENTED" \in f.flags => asked.type = "VAULT_PUT"
    BY <1>5
  <2> QED
    BY <1>4, <1>9, <1>10, <1>11, <1>12, <2>1 DEF Accepted
<1>14. Accepted(f) /\ ~MoreFragments(f) => ~TooLarge(asked)
  BY <1>12 DEF Accepted
<1>15. MoreFragments(f) =>
         UnderWay(Tail(toServer), AskKey, asked.type, ClientPayload(asked), Assembled(f))
  BY <1>4, <1>6, <1>7 DEF p
<1>16. asked.type # "VAULT_PUT" => ~MoreFragments(f)
  BY <1>4 DEF MoreFragments
<1> QED
  BY <1>1, <1>4, <1>5, <1>8, <1>11, <1>12, <1>13, <1>14, <1>15, <1>16 DEF HandlerFinds, f

-----------------------------------------------------------------------------
\* What a waiting client reads.

\* What has been told, by what the client waits for.
Awaited ==
  /\ told \in ServerMessages /\ Telling /\ toServer = <<>>
  /\ step = "challenge" =>
       told.type = "CHALLENGE" /\ state = "AUTHENTICATING" /\ told.nonce = ServerNonce
  /\ step = "auth" =>
       \/ told.type = "AUTH_FAIL" /\ state = "closed"
       \/ /\ told.type = "AUTH_OK" /\ state = "ESTABLISHED"
          /\ told.token \in Text(KeyLen) /\ <<told.token, hclient>> \in sessions
          /\ hkey = <<told.token, hnonce>>
  /\ step \in {"first_data", "reply"} =>
       /\ state = "ESTABLISHED" /\ hkey = kmac
       /\ asked \in ClientMessages /\ asked.type \in {"VAULT_GET", "VAULT_PUT", "PING"}
       /\ told.type \in Answers
       /\ step = "first_data" => asked.type = "VAULT_GET"

LEMMA WhatIsAwaited ==
  ASSUME ClientOk, up, step \in Waiting, toClient # <<>> \/ (toServer = <<>> /\ state # "closed")
  PROVE  Awaited
<1>1. CASE step = "challenge"
  BY <1>1 DEF ClientOk, GreetingOk, OnlyAsked, OnlyTold, Awaited
<1>2. CASE step = "auth"
  BY <1>2 DEF ClientOk, LoginOk, OnlyAsked, OnlyTold, Awaited
<1>3. CASE step \in {"first_data", "reply"}
  BY <1>3 DEF ClientOk, RequestOk, OnlyAsked, OnlyTold, Awaited
<1> QED
  BY <1>1, <1>2, <1>3 DEF Waiting

ClientFinds(f) ==
  /\ toClient # <<>> /\ Welcome(f) /\ f.type = told.type
  /\ MoreToCome(f) =>
       /\ told.type = "VAULT_DATA"
       /\ Gathered(f) \in Seq(Byte)
       /\ UnderWay(Tail(toClient), TellKey, told.type, ServerPayload(told), Gathered(f))
  /\ ~MoreToCome(f) =>
       /\ Tail(toClient) = <<>>
       /\ told.type # "AUTH_FAIL" => ClientParse(told.type, Gathered(f)) = told

LEMMA ClientHead ==
  ASSUME Awaited, step \in Waiting
  PROVE  ClientFinds(Head(toClient))
<1> DEFINE f == Head(toClient)
           p == ServerPayload(told)
           whole == Whole(parts, f)
<1>1. Awaited
  OBVIOUS
<1>2. /\ told \in ServerMessages /\ UnderWay(toClient, TellKey, told.type, p, parts)
      /\ told.type \in {"CHALLENGE", "AUTH_OK", "AUTH_FAIL", "VAULT_DATA", "VAULT_ACK", "PONG", "ERROR"}
      /\ told.type = "AUTH_OK" => told.token \in Text(KeyLen)
      /\ told.type \in Wanted /\ TellKey = ClientKey
  <2>1. told \in ServerMessages /\ UnderWay(toClient, TellKey, told.type, p, parts)
    BY <1>1 DEF Awaited, Telling
  <2>2. CASE step = "challenge"
    BY <1>1, <2>1, <2>2 DEF Awaited, Wanted, TellKey, ClientKey
  <2>3. CASE step = "auth"
    BY <1>1, <2>1, <2>3 DEF Awaited, Wanted, TellKey, ClientKey
  <2>4. CASE step \in {"first_data", "reply"}
    <3>1. told.type \in {"VAULT_DATA", "VAULT_ACK", "PONG", "ERROR"}
      BY <1>1, <2>4 DEF Awaited, Answers
    <3>2. told.type \in Wanted
      BY <1>1, <2>4 DEF Awaited, Answers, Wanted
    <3>3. TellKey = hkey /\ ClientKey = kmac /\ hkey = kmac
      BY <1>1, <2>4, <3>1 DEF Awaited, TellKey, ClientKey
    <3> QED
      BY <2>1, <3>1, <3>2, <3>3
  <2> QED
    BY <2>2, <2>3, <2>4 DEF Waiting
<1>3. /\ p \in Data /\ Len(p) \in Nat /\ MaxPayload \in Nat
      /\ told.type # "VAULT_DATA" => Len(p) <= MaxPayload
      /\ told.type = "VAULT_DATA" => p \in Seq(Byte)
  BY <1>2, ServerSent, LengthIsNat, WireAssumption DEF OneFrame
<1>4. /\ toClient # <<>> /\ f.type = told.type /\ Authentic(f, TellKey) /\ ShortEnough(f)
      /\ parts # None => parts \in Data /\ Len(p) > MaxPayload
      /\ "FRAGMENTED" \in f.flags <=> Len(p) > MaxPayload
      /\ "LAST_FRAG" \in f.flags => "FRAGMENTED" \in f.flags
      /\ More(f) => UnderWay(Tail(toClient), TellKey, told.type, p, whole)
      /\ ~More(f) => Tail(toClient) = <<>> /\ whole = p
      /\ \E n \in 0..Len(p) : whole = SubSeq(p, 1, n)
  <2>1. NextIs(toClient, TellKey, told.type, p, parts)
    BY <1>2, <1>3, NextFrame, Zenon
  <2> QED
    BY <2>1 DEF NextIs
<1>5. Gathered(f) = whole
  BY DEF Gathered, Whole
<1> HIDE DEF f, p, whole
<1>6. "FRAGMENTED" \in f.flags => told.type = "VAULT_DATA"
  BY <1>3, <1>4
<1>7. MoreToCome(f) <=> More(f)
  BY <1>4, <1>6 DEF MoreToCome, More
<1>8. ASSUME MoreToCome(f) PROVE Gathered(f) \in Seq(Byte)
  <2>1. p \in Seq(Byte)
    BY <1>3, <1>4, <1>6, <1>8 DEF MoreToCome
  <2>2. PICK n \in 0..Len(p) : whole = SubSeq(p, 1, n)
    BY <1>4
  <2>3. SubSeq(p, 1, n) \in Seq(Byte)
    BY <2>1, Beginning
  <2> QED
    BY <1>5, <2>2, <2>3
<1>9. ASSUME ~MoreToCome(f)
      PROVE  /\ Tail(toClient) = <<>>
             /\ ClientAccepts(f.type, Gathered(f))
             /\ told.type # "AUTH_FAIL" => ClientParse(told.type, Gathered(f)) = told
  <2>1. Gathered(f) = p /\ Tail(toClient) = <<>>
    BY <1>4, <1>5, <1>7, <1>9
  <2>2. /\ ClientAccepts(told.type, p)
        /\ told.type # "AUTH_FAIL" => ClientParse(told.type, p) = told
    BY <1>2, ClientUnderstands DEF Returns, p
  <2> QED
    BY <1>4, <2>1, <2>2
<1>10. Welcome(f)
  <2>1. Readable(f)
    BY <1>2, <1>4 DEF Readable
  <2>2. parts # None => f.type = "VAULT_DATA" /\ "FRAGMENTED" \in f.flags
    BY <1>4, <1>6
  <2> QED
    BY <1>2, <1>4, <1>9, <2>1, <2>2 DEF Welcome
<1> QED
  BY <1>1, <1>4, <1>5, <1>6, <1>7, <1>8, <1>9, <1>10 DEF ClientFinds, MoreToCome, f, p

-----------------------------------------------------------------------------
\* The invariant gives the safety properties.

IInv == BytesOk /\ SessionInv

LEMMA NothingElseRefused ==
  ASSUME IInv PROVE OnlyOversizeIsRefused
<1>1. BytesOk /\ HandlerOk /\ ClientOk
  BY DEF IInv, SessionInv
<1>2. ASSUME up, step \in Waiting, toClient # <<>>
      PROVE  Welcome(Head(toClient))
  <2>1. ClientFinds(Head(toClient))
    BY <1>1, <1>2, WhatIsAwaited, ClientHead
  <2> QED
    BY <2>1 DEF ClientFinds
<1>3. ASSUME state # "closed", toServer # <<>>
      PROVE  LET f == Head(toServer)
             IN  /\ Accepted(f) \/ (asked.type = "VAULT_PUT" /\ Len(asked.blob) > MaxBlob)
                 /\ state = "AUTHENTICATING" =>
                      LET m == ServerParse("AUTH", f.payload) IN Valid(m) \/ m.token \in lapsed
  <2> DEFINE f == Head(toServer)
  <2>1. HandlerFinds(f)
    BY <1>1, <1>3, HandlerHead
  <2> HIDE DEF f
  <2>2. Accepted(f) \/ (asked.type = "VAULT_PUT" /\ Len(asked.blob) > MaxBlob)
    BY <2>1 DEF HandlerFinds, TooLarge
  <2>3. ASSUME state = "AUTHENTICATING"
        PROVE  LET m == ServerParse("AUTH", f.payload) IN Valid(m) \/ m.token \in lapsed
    <3>1. asked.type = "AUTH"
      BY <2>1, <2>3 DEF HandlerFinds, Requests
    <3>2. ServerParse("AUTH", f.payload) = asked
      BY <2>1, <3>1 DEF HandlerFinds
    <3>3. ProvesLogin
      BY <1>1, <1>3, <2>3 DEF HandlerOk
    <3>4. Valid(asked) \/ asked.token \in lapsed
      BY <3>3 DEF ProvesLogin, Valid
    <3> QED
      BY <3>2, <3>4
  <2> QED
    BY <2>2, <2>3 DEF f
<1> QED
  BY <1>2, <1>3 DEF OnlyOversizeIsRefused

LEMMA NeverBothWaiting ==
  ASSUME IInv PROVE NoStandstill
<1>1. ClientOk
  BY DEF IInv, SessionInv
<1> SUFFICES ASSUME up, step \in Waiting, state # "closed", toServer = <<>>
             PROVE  toClient # <<>>
  BY DEF NoStandstill
<1>2. ClientFinds(Head(toClient))
  BY <1>1, WhatIsAwaited, ClientHead
<1> QED
  BY <1>2 DEF ClientFinds

LEMMA CacheLoadsAsSaved ==
  ASSUME IInv PROVE OnlyWholeCacheLoads
<1> SUFFICES ASSUME step = "save"
             PROVE  /\ LoadCache(File) = ToSave
                    /\ \A n \in 0..Len(File) - 1 : LoadCache(SubSeq(File, 1, n)) = None
  BY DEF OnlyWholeCacheLoads
<1> DEFINE blob == IF learnt.type = "VAULT_DATA" THEN learnt.blob ELSE asked.blob
<1>1. /\ asked \in ClientMessages /\ learnt \in ServerMessages
      /\ learnt.type = "VAULT_DATA" \/ (learnt.type = "VAULT_ACK" /\ asked.type = "VAULT_PUT")
  BY DEF IInv, SessionInv, ClientOk
<1>2. blob \in Seq(Byte) /\ Len(blob) \in Fits(4)
  <2>1. CASE learnt.type = "VAULT_DATA"
    <3>1. learnt.blob \in Seq(Byte) /\ Len(learnt.blob) <= MaxBlob
      BY <1>1, <2>1, ServerSent
    <3>2. Len(learnt.blob) \in Nat /\ MaxBlob \in Nat /\ Power[4] \in Nat
      BY <3>1, WireAssumption, PowerAtLeastOne
    <3>3. Len(learnt.blob) \in Fits(4)
      BY <3>1, <3>2, BlobLengthFits DEF Fits
    <3> QED
      BY <2>1, <3>1, <3>3
  <2>2. CASE learnt.type # "VAULT_DATA"
    BY <1>1, <2>2, PutSent
  <2> QED
    BY <2>1, <2>2
<1>3. base \in Fits(8)
  BY DEF IInv, SessionInv, MemoryOk, FieldsOk
<1>4. Vault \in Text(IdLen)
  BY WireAssumption, Repeats DEF Vault, Byte
<1>5. Name \in Seq(Byte) /\ Len(Name) \in Fits(2)
  <2>1. Name \in Seq(Byte) /\ Len(Name) \in 1..MaxName /\ MaxName \in Nat /\ MaxName < Base
        /\ Base \in Nat
    BY SessionAssumption, WireAssumption
  <2>2. Power[2] \in Nat /\ Power[2] >= Base
    <3>1. Power[0] = 1 /\ Power[0 + 1] = Base * Power[0] /\ Power[1 + 1] = Base * Power[1]
      BY PowerIs
    <3>2. Power[2] = Base * Base
      BY <2>1, <3>1
    <3>3. Base * Base >= Base /\ Base * Base \in Nat
      BY BaseIsNat
    <3> QED
      BY <3>2, <3>3
  <2> QED
    BY <2>1, <2>2 DEF Fits
<1> HIDE DEF blob
<1>6. LET f == CacheFile(Name, Vault, base, blob)
      IN  /\ LoadCache(f) = Cached(Name, Vault, base, blob)
          /\ \A k \in 0..Len(f) - 1 : LoadCache(SubSeq(f, 1, k)) = None
  BY <1>2, <1>3, <1>4, <1>5, BytesAreData, WholeCacheLoads
<1>7. ToSave = Cached(Name, Vault, base, blob) /\ File = CacheFile(Name, Vault, base, blob)
  BY DEF ToSave, File, Cached, blob
<1> QED
  BY <1>6, <1>7

-----------------------------------------------------------------------------
\* The invariant holds at first.

LEMMA InitIInv == Init => IInv
<1> SUFFICES ASSUME Init PROVE IInv
  OBVIOUS
<1> USE DEF Init
<1>1. 0 \in Fits(8) /\ 0 \in Nat /\ Base \in Nat /\ Base >= 2 /\ MaxConns \in Nat /\ MaxAsked \in Nat
  BY CountersFit, BaseIsNat
<1>2. ASSUME stored # None
      PROVE  /\ stored.version = Base - 1 /\ stored.version \in Nat
             /\ stored.blob \in Seq(Byte) /\ Len(stored.blob) <= MaxBlob
  <2>1. stored \in [version : {Base - 1}, blob : {b \in Blobs : Len(b) <= MaxBlob}]
    BY <1>2
  <2>2. stored.version = Base - 1 /\ stored.blob \in Blobs /\ Len(stored.blob) <= MaxBlob
    BY <2>1
  <2> QED
    BY <1>1, <2>2, SessionAssumption
<1>3. Short(<<>>)
  BY DEF Short
<1>4. BytesOk
  <2>1. step \in Waiting \cup {"off", "first", "idle", "save"}
    BY DEF Waiting
  <2>2. process \in 0..conns /\ conns \in 0..MaxConns /\ askedSoFar \in 0..MaxAsked
    BY <1>1
  <2>3. \A b \in {nonce, token, parts, hnonce, hclient, buffer} : b = None
    OBVIOUS
  <2>4. stored # None => stored.version \in Nat /\ Bits(stored.blob)
    BY <1>2 DEF Bits, Byte
  <2>5. Short(toServer) /\ Short(toClient)
    BY <1>3
  <2> QED
    BY <2>1, <2>2, <2>3, <2>4, <2>5, Zenon DEF BytesOk
<1>5. MemoryOk
  BY <1>1 DEF MemoryOk, FieldsOk
<1>6. VersionsOk
  <2>1. Current <= Base - 1 /\ Current \in Nat /\ Pending = 0
    BY <1>1, <1>2 DEF Current, Pending
  <2> QED
    BY <1>1, <1>2, <2>1 DEF VersionsOk
<1>7. HandlerOk /\ ClientOk
  BY DEF HandlerOk, ClientOk
<1> QED
  BY <1>4, <1>5, <1>6, <1>7 DEF IInv, SessionInv

-----------------------------------------------------------------------------
\* What sending does.

LEMMA AskIs ==
  ASSUME NEW key, NEW m \in ClientMessages, toServer = <<>>, Ask(key, m)
  PROVE  /\ asked' = m /\ toServer' # <<>> /\ Short(toServer')
         /\ UnderWay(toServer', key, m.type, ClientPayload(m), None)
<1> DEFINE p == ClientPayload(m)
<1>1. p \in Data
  BY ClientSent
<1>2. toServer' = <<>> \o Frames(key, m.type, p) /\ asked' = m
  BY DEF Ask
<1> HIDE DEF p
<1>3. toServer' = Frames(key, m.type, p)
  BY <1>1, <1>2, JustSent
<1>4. Frames(key, m.type, p) # <<>> /\ Short(Frames(key, m.type, p))
      /\ UnderWay(Frames(key, m.type, p), key, m.type, p, None)
  BY <1>1, JustSent
<1> QED
  BY <1>2, <1>3, <1>4 DEF p

LEMMA TellIs ==
  ASSUME NEW key, NEW m \in ServerMessages, ServerPayload(m) \in Data, Tell(key, m),
         up => toClient = <<>>, Short(toClient)
  PROVE  /\ told' = m /\ Short(toClient')
         /\ up => UnderWay(toClient', key, m.type, ServerPayload(m), None)
<1> DEFINE p == ServerPayload(m)
<1>1. told' = m /\ toClient' = IF up THEN toClient \o Frames(key, m.type, p) ELSE toClient
  BY DEF Tell
<1> HIDE DEF p
<1>2. CASE up
  <2>1. toClient' = <<>> \o Frames(key, m.type, p)
    BY <1>1, <1>2
  <2>2. toClient' = Frames(key, m.type, p)
    BY <2>1, JustSent DEF p
  <2>3. Short(Frames(key, m.type, p)) /\ UnderWay(Frames(key, m.type, p), key, m.type, p, None)
    BY JustSent DEF p
  <2> QED
    BY <1>1, <2>2, <2>3 DEF p
<1>3. CASE ~up
  BY <1>1, <1>3
<1> QED
  BY <1>2, <1>3

-----------------------------------------------------------------------------
\* The handler's steps.

\* Whom a handler with something to read serves.
LEMMA WhoWaits ==
  ASSUME BytesOk, ClientOk, up, state # "closed", toServer # <<>>
  PROVE  /\ toClient = <<>> /\ parts = None
         /\ state = "GREETING" => step = "challenge"
         /\ state = "AUTHENTICATING" => step = "auth"
         /\ state = "ESTABLISHED" =>
              /\ step \in {"first_data", "reply"} /\ hkey = kmac
              /\ asked \in ClientMessages /\ asked.type \in {"VAULT_GET", "VAULT_PUT", "PING"}
              /\ step = "first_data" => asked.type = "VAULT_GET"
<1>1. step \in {"challenge", "auth", "first_data", "reply", "first", "idle", "save"}
  BY DEF BytesOk, ClientOk, Waiting
<1>2. CASE step = "challenge"
  BY <1>2 DEF ClientOk, GreetingOk, OnlyAsked, OnlyTold
<1>3. CASE step = "auth"
  BY <1>3 DEF ClientOk, LoginOk, OnlyAsked, OnlyTold
<1>4. CASE step \in {"first_data", "reply"}
  BY <1>4 DEF ClientOk, RequestOk, OnlyAsked, OnlyTold
<1>5. CASE step \in {"first", "idle", "save"}
  BY <1>5 DEF ClientOk, RestOk
<1> QED
  BY <1>1, <1>2, <1>3, <1>4, <1>5

HearsIt(type) ==
  /\ state # "closed" /\ toServer # <<>> /\ toServer' = <<>>
  /\ asked \in ClientMessages /\ asked.type = type /\ type \in Requests
  /\ heard' = asked /\ ~TooLarge(asked)
  /\ type # "VAULT_PUT" => buffer = None
  /\ up' = up /\ step' = step /\ parts' = parts /\ conns' = conns
  /\ process' = process /\ nonce' = nonce /\ token' = token /\ kmac' = kmac /\ base' = base
  /\ asked' = asked /\ learnt' = learnt /\ askedSoFar' = askedSoFar

LEMMA Hearing ==
  ASSUME IInv, NEW type, Hears(type)
  PROVE  HearsIt(type)
<1> DEFINE f == Head(toServer)
<1>1. /\ HandlerReads(f) /\ Accepted(f) /\ f.type = type /\ ~MoreFragments(f)
      /\ heard' = ServerParse(type, Assembled(f))
  BY DEF Hears
<1>2. /\ state # "closed" /\ toServer # <<>> /\ toServer' = Tail(toServer)
      /\ UNCHANGED <<step, up, memory, parts, conns, asked, learnt, askedSoFar>>
  BY <1>1 DEF HandlerReads
<1>3. HandlerFinds(f)
  BY <1>2, HandlerHead DEF IInv, SessionInv
<1> HIDE DEF f
<1>4. /\ asked.type = type /\ toServer' = <<>> /\ heard' = asked /\ ~TooLarge(asked)
      /\ asked \in ClientMessages /\ type \in Requests
      /\ type # "VAULT_PUT" => buffer = None
  BY <1>1, <1>2, <1>3 DEF HandlerFinds
<1> QED
  BY <1>2, <1>4 DEF HearsIt, memory

LEMMA MeIs ==
  ASSUME BytesOk
  PROVE  /\ Me \in Text(IdLen) /\ Me \in Seq(Byte) /\ Me # None
         /\ process \in Nat /\ conns \in Nat /\ conns < Base /\ Base - conns \in Nat
<1>1. process \in 0..conns /\ conns \in 0..MaxConns
  BY DEF BytesOk
<1>2. process \in Nat /\ conns \in Nat /\ conns < Base /\ Base - conns \in Nat /\ process \in Byte /\ IdLen \in Nat
  BY <1>1, CountersFit, WireAssumption DEF Byte
<1>3. Me \in Text(IdLen)
  BY <1>2, Repeats DEF Me
<1> QED
  BY <1>2, <1>3, NoneIsNoText DEF Text

\* What all steps of a handler that has heard a message have in common.
LEMMA HandlerStep ==
  ASSUME IInv, NEW type, HearsIt(type), told' \in ServerMessages, Short(toClient'),
         state' \in {"closed", "AUTHENTICATING", "ESTABLISHED"}, buffer' = None,
         hnonce' = nonce, hclient' = Me, sessions \subseteq sessions',
         \A entry \in sessions' : Bits(entry[1]) /\ Bits(entry[2]), VersionsOk'
  PROVE  BytesOk' /\ MemoryOk' /\ HandlerOk'
<1>1. BytesOk /\ MemoryOk
  BY DEF IInv, SessionInv
<1>2. /\ up' = up /\ step' = step /\ parts' = parts /\ conns' = conns
      /\ process' = process /\ nonce' = nonce /\ token' = token /\ kmac' = kmac /\ base' = base
      /\ asked' = asked /\ learnt' = learnt /\ askedSoFar' = askedSoFar
      /\ toServer' = <<>> /\ state # "closed"
  BY DEF HearsIt
<1>3. nonce \in Text(KeyLen) /\ Bits(nonce) /\ conns > 0 /\ nonce # None
  BY <1>1, <1>2 DEF MemoryOk, FieldsOk, Text, Bits, Byte
<1>4. hclient' \in Text(IdLen) /\ Bits(hclient') /\ Me' = Me
  BY <1>1, <1>2, MeIs DEF Bits, Byte, Me
<1>5. BytesOk'
  <2>1. \A b \in {nonce', token', parts', hnonce', hclient', buffer'} : b # None => Bits(b)
    BY <1>1, <1>2, <1>3, <1>4 DEF BytesOk
  <2>2. stored' # None => stored'.version \in Nat /\ Bits(stored'.blob)
    BY DEF VersionsOk, Bits, Byte
  <2>3. Short(toServer')
    BY <1>2 DEF Short
  <2> QED
    BY <1>1, <1>2, <2>1, <2>2, <2>3 DEF BytesOk, Bits
<1>6. MemoryOk'
  <2>1. <<token, Me>> \in sessions => <<token', Me'>> \in sessions'
    BY <1>2, <1>4
  <2> QED
    BY <1>1, <1>2, <1>3, <1>4, <2>1 DEF MemoryOk, FieldsOk
<1>7. HandlerOk'
  BY <1>2, <1>4 DEF HandlerOk
<1> QED
  BY <1>5, <1>6, <1>7

LEMMA CurrentIs ==
  ASSUME BytesOk, VersionsOk
  PROVE  /\ Current \in Nat /\ askedSoFar \in Nat /\ askedSoFar <= MaxAsked /\ Pending \in {0, 1}
         /\ Base \in Nat /\ MaxAsked \in Nat /\ Current <= Base - 1 + askedSoFar
<1>1. Current \in Nat /\ askedSoFar \in Nat /\ askedSoFar <= MaxAsked /\ Pending \in {0, 1}
      /\ Base \in Nat /\ MaxAsked \in Nat
  BY CountersFit DEF BytesOk, VersionsOk, Current, Pending
<1>2. Current + Pending <= Base - 1 + askedSoFar
  BY DEF VersionsOk
<1> QED
  BY <1>1, <1>2

LEMMA SameVault ==
  ASSUME BytesOk, VersionsOk, stored' = stored, askedSoFar' = askedSoFar,
         Pending' = 0 \/ Pending' = Pending
  PROVE  VersionsOk'
<1>1. Current' = Current
  BY DEF Current
<1>2. Current + Pending' <= Base - 1 + askedSoFar'
  <2>1. CASE Pending' = 0
    BY <2>1, CurrentIs
  <2>2. CASE Pending' = Pending
    BY <2>2 DEF VersionsOk
  <2> QED
    BY <2>1, <2>2
<1> QED
  BY <1>1, <1>2 DEF VersionsOk

LEMMA HelloKeeps ==
  ASSUME IInv, HandleHello
  PROVE  IInv'
<1> DEFINE m == [type |-> "CHALLENGE", nonce |-> ServerNonce, time |-> conns]
<1>1. BytesOk /\ MemoryOk /\ VersionsOk /\ HandlerOk /\ ClientOk
  BY DEF IInv, SessionInv
<1>2. HearsIt("HELLO")
  BY Hearing DEF HandleHello
<1>3. /\ hnonce' = heard'.nonce /\ hclient' = heard'.client /\ state' = "AUTHENTICATING"
      /\ Tell(Dummy, m) /\ UNCHANGED <<hkey, buffer, sessions, lapsed, stored>>
  BY DEF HandleHello, tables
<1>4. state = "GREETING"
  BY <1>1, <1>2 DEF HearsIt, Requests, BytesOk
<1>5. hnonce' = nonce /\ hclient' = Me
  BY <1>1, <1>2, <1>3, <1>4 DEF HearsIt, HandlerOk
<1>6. conns \in 0..MaxConns /\ conns > 0 /\ nonce # None
  BY <1>1, <1>2 DEF BytesOk, MemoryOk, FieldsOk, HearsIt
<1>7. ServerNonce \in Text(KeyLen) /\ m \in ServerMessages
  <2>1. Base - conns \in Byte /\ conns \in Nat /\ conns <= Base + MaxAsked /\ KeyLen \in Nat
    BY <1>6, CountersFit, WireAssumption DEF Byte
  <2>2. ServerNonce \in Text(KeyLen) /\ conns \in Fits(8)
    BY <2>1, Repeats, CountersFit DEF ServerNonce
  <2> QED
    BY <2>2 DEF ServerMessages
<1>8. up => toClient = <<>> /\ parts = None /\ step = "challenge"
  BY <1>1, <1>2, <1>4, WhoWaits DEF HearsIt
<1> HIDE DEF m
<1>9. m.type = "CHALLENGE" /\ m.nonce = ServerNonce
  BY DEF m
<1>10. /\ told' = m /\ Short(toClient')
       /\ up => UnderWay(toClient', Dummy, m.type, ServerPayload(m), None)
  <2>1. Short(toClient) /\ ServerPayload(m) \in Data
    BY <1>1, <1>7, <1>9, ServerSent DEF BytesOk, OneFrame
  <2> QED
    BY <1>3, <1>7, <1>8, <2>1, TellIs
<1>11. VersionsOk'
  BY <1>1, <1>2, <1>3, SameVault DEF Pending, HearsIt
<1>12. BytesOk' /\ MemoryOk' /\ HandlerOk'
  <2>1. /\ told' \in ServerMessages /\ buffer' = None
        /\ \A entry \in sessions' : Bits(entry[1]) /\ Bits(entry[2])
    BY <1>1, <1>2, <1>3, <1>7, <1>10 DEF HearsIt, BytesOk
  <2> QED
    BY <1>2, <1>3, <1>5, <1>10, <1>11, <2>1, HandlerStep
<1>13. ClientOk'
  <2>1. up' = up /\ step' = step /\ parts' = parts /\ conns' = conns /\ toServer' = <<>>
        /\ asked' = asked /\ learnt' = learnt
    BY <1>2 DEF HearsIt
  <2>2. ASSUME up PROVE GreetingOk' /\ step = "challenge"
    <3>1. Telling'
      BY <1>8, <1>9, <1>10, <2>1, <2>2 DEF Telling, TellKey
    <3>2. ServerNonce' = ServerNonce
      BY <2>1 DEF ServerNonce
    <3> QED
      BY <1>3, <1>7, <1>8, <1>9, <1>10, <2>1, <2>2, <3>1, <3>2 DEF GreetingOk, OnlyTold
  <2>3. step = "save" =>
          /\ asked \in ClientMessages /\ learnt \in ServerMessages
          /\ learnt.type = "VAULT_DATA" \/ (learnt.type = "VAULT_ACK" /\ asked.type = "VAULT_PUT")
    BY <1>1 DEF ClientOk
  <2> QED
    BY <2>1, <2>2, <2>3 DEF ClientOk
<1> QED
  BY <1>11, <1>12, <1>13 DEF IInv, SessionInv

\* The answer to a request.
LEMMA AnswerKeeps ==
  ASSUME IInv, NEW type \in {"PING", "VAULT_GET", "VAULT_PUT"}, HearsIt(type),
         NEW m \in ServerMessages, m.type \in Answers, Tell(hkey, m),
         state' = state, hkey' = hkey, hnonce' = hnonce, hclient' = hclient, buffer' = None,
         sessions' = sessions, VersionsOk'
  PROVE  IInv'
<1>1. BytesOk /\ MemoryOk /\ VersionsOk /\ HandlerOk /\ ClientOk
  BY DEF IInv, SessionInv
<1>2. /\ up' = up /\ step' = step /\ parts' = parts /\ conns' = conns /\ toServer' = <<>>
      /\ kmac' = kmac /\ asked' = asked /\ learnt' = learnt
      /\ asked \in ClientMessages /\ asked.type = type
      /\ state # "closed" /\ toServer # <<>> /\ type \in Requests
  BY DEF HearsIt
<1>3. state = "ESTABLISHED" /\ hnonce = nonce /\ hclient = Me
  BY <1>1, <1>2 DEF Requests, BytesOk, HandlerOk
<1>4. /\ up => toClient = <<>> /\ parts = None /\ step \in {"first_data", "reply"}
      /\ up => hkey = kmac /\ (step = "first_data" => asked.type = "VAULT_GET")
  BY <1>1, <1>2, <1>3, WhoWaits
<1>5. m.type \in {"VAULT_DATA", "VAULT_ACK", "PONG", "ERROR"}
  BY <1>2 DEF Answers
<1>6. /\ told' = m /\ Short(toClient')
      /\ up => UnderWay(toClient', hkey, m.type, ServerPayload(m), None)
  <2>1. Short(toClient) /\ ServerPayload(m) \in Data
    BY <1>1, <1>5, ServerSent DEF BytesOk, OneFrame
  <2> QED
    BY <1>4, <2>1, TellIs
<1>7. BytesOk' /\ MemoryOk' /\ HandlerOk'
  <2>1. \A entry \in sessions' : Bits(entry[1]) /\ Bits(entry[2])
    BY <1>1 DEF BytesOk
  <2> QED
    BY <1>3, <1>6, <2>1, HandlerStep
<1>8. ClientOk'
  <2>1. Answers' = Answers
    BY <1>2 DEF Answers
  <2>2. ASSUME up PROVE RequestOk'
    <3>1. Telling'
      BY <1>2, <1>4, <1>5, <1>6, <2>2 DEF Telling, TellKey
    <3>2. OnlyTold(Answers)'
      BY <1>2, <1>6, <2>1, <3>1 DEF OnlyTold
    <3> QED
      BY <1>2, <1>3, <1>4, <2>2, <3>2 DEF RequestOk
  <2>3. step = "save" =>
          /\ asked \in ClientMessages /\ learnt \in ServerMessages
          /\ learnt.type = "VAULT_DATA" \/ (learnt.type = "VAULT_ACK" /\ asked.type = "VAULT_PUT")
    BY <1>1 DEF ClientOk
  <2> QED
    BY <1>2, <1>4, <2>2, <2>3 DEF ClientOk
<1> QED
  BY <1>7, <1>8 DEF IInv, SessionInv

LEMMA PingKeeps ==
  ASSUME IInv, HandlePing
  PROVE  IInv'
<1> DEFINE m == [type |-> "PONG", time |-> heard'.time]
<1>1. BytesOk /\ VersionsOk
  BY DEF IInv, SessionInv
<1>2. HearsIt("PING")
  BY Hearing DEF HandlePing
<1>3. Tell(hkey, m) /\ UNCHANGED <<state, hnonce, hclient, hkey, buffer, sessions, stored>>
  BY DEF HandlePing, handler, tables
<1>4. m \in ServerMessages
  <2>1. heard'.time \in Fits(8)
    BY <1>2, AskedFields DEF HearsIt
  <2> QED
    BY <2>1 DEF ServerMessages
<1>5. m.type \in Answers
  BY <1>2 DEF HearsIt, Answers
<1>6. VersionsOk'
  BY <1>1, <1>2, <1>3, SameVault DEF Pending, HearsIt
<1>7. buffer' = None
  BY <1>2, <1>3 DEF HearsIt
<1> HIDE DEF m
<1> QED
  BY <1>2, <1>3, <1>4, <1>5, <1>6, <1>7, AnswerKeeps

LEMMA GetKeeps ==
  ASSUME IInv, HandleGet
  PROVE  IInv'
<1> DEFINE m == IF stored = None THEN [type |-> "ERROR", code |-> NotFound]
                ELSE [type |-> "VAULT_DATA", vault |-> heard'.vault, version |-> stored.version,
                      blob |-> stored.blob]
<1>1. BytesOk /\ VersionsOk
  BY DEF IInv, SessionInv
<1>2. HearsIt("VAULT_GET")
  BY Hearing DEF HandleGet
<1>3. Tell(hkey, m) /\ UNCHANGED <<state, hnonce, hclient, hkey, buffer, sessions, stored>>
  BY DEF HandleGet, handler, tables
<1>4. m \in ServerMessages
  <2>1. CASE stored = None
    BY <2>1 DEF ServerMessages, NotFound
  <2>2. CASE stored # None
    <3>1. heard'.vault \in Text(IdLen)
      BY <1>2, AskedFields DEF HearsIt
    <3>2. stored.version \in Fits(8)
      <4>1. Current \in Nat /\ Current <= Base + MaxAsked
        BY <1>1, CurrentIs
      <4> QED
        BY <2>2, <4>1, CountersFit DEF Current
    <3>3. stored.blob \in Seq(Byte) /\ Len(stored.blob) <= MaxBlob
      BY <1>1, <2>2 DEF VersionsOk
    <3> QED
      BY <2>2, <3>1, <3>2, <3>3 DEF ServerMessages
  <2> QED
    BY <2>1, <2>2
<1>5. m.type \in Answers
  BY <1>2 DEF HearsIt, Answers
<1>6. VersionsOk'
  BY <1>1, <1>2, <1>3, SameVault DEF Pending, HearsIt
<1>7. buffer' = None
  BY <1>2, <1>3 DEF HearsIt
<1> HIDE DEF m
<1> QED
  BY <1>2, <1>3, <1>4, <1>5, <1>6, <1>7, AnswerKeeps

LEMMA PutKeeps ==
  ASSUME IInv, HandlePut
  PROVE  IInv'
<1>1. BytesOk /\ VersionsOk
  BY DEF IInv, SessionInv
<1>2. HearsIt("VAULT_PUT")
  BY Hearing DEF HandlePut
<1>3. buffer' = None /\ UNCHANGED <<state, hnonce, hclient, hkey, sessions>>
  BY DEF HandlePut
<1>4. /\ heard' = asked /\ asked \in ClientMessages /\ asked.type = "VAULT_PUT" /\ ~TooLarge(asked)
      /\ toServer' = <<>> /\ toServer # <<>> /\ state # "closed" /\ askedSoFar' = askedSoFar
  BY <1>2 DEF HearsIt
<1>5. /\ asked.vault \in Text(IdLen) /\ asked.blob \in Seq(Byte) /\ Len(asked.blob) \in Nat
      /\ MaxBlob \in Nat
  BY <1>4, PutSent, WireAssumption
<1>6. Len(asked.blob) <= MaxBlob
  BY <1>4, <1>5 DEF TooLarge
<1>7. Current + 1 <= Base - 1 + askedSoFar /\ Current + 1 \in Fits(8) /\ Pending' = 0
  <2>1. Pending = 1 /\ Pending' = 0
    BY <1>4 DEF Pending
  <2>2. Current + 1 <= Base - 1 + askedSoFar
    BY <1>1, <2>1 DEF VersionsOk
  <2>3. Current + 1 \in Nat /\ Current + 1 <= Base + MaxAsked
    BY <1>1, <2>2, CurrentIs
  <2> QED
    BY <2>1, <2>2, <2>3, CountersFit
<1>8. CASE /\ stored' = [version |-> Current + 1, blob |-> heard'.blob]
           /\ Tell(hkey, [type |-> "VAULT_ACK", vault |-> heard'.vault, version |-> Current + 1])
  <2> DEFINE m == [type |-> "VAULT_ACK", vault |-> heard'.vault, version |-> Current + 1]
  <2>1. m \in ServerMessages
    BY <1>4, <1>5, <1>7 DEF ServerMessages
  <2>2. m.type \in Answers
    BY <1>4 DEF Answers
  <2>3. VersionsOk'
    <3>1. /\ stored'.version = Current + 1 /\ stored'.blob = asked.blob
      BY <1>4, <1>8
    <3>2. Current' \in {0, Current + 1} /\ Current \in Nat
      BY <1>1, <3>1, CurrentIs DEF Current
    <3>3. Current' + Pending' <= Base - 1 + askedSoFar'
      BY <1>1, <1>4, <1>7, <3>2, CurrentIs
    <3> QED
      BY <1>5, <1>6, <3>1, <3>2, <3>3 DEF VersionsOk
  <2>4. Tell(hkey, m)
    BY <1>8
  <2> HIDE DEF m
  <2> QED
    BY <1>2, <1>3, <2>1, <2>2, <2>3, <2>4, AnswerKeeps
<1>9. CASE Tell(hkey, [type |-> "ERROR", code |-> Conflict]) /\ UNCHANGED stored
  <2> DEFINE m == [type |-> "ERROR", code |-> Conflict]
  <2>1. m \in ServerMessages
    BY DEF ServerMessages, Conflict
  <2>2. m.type \in Answers
    BY <1>4 DEF Answers
  <2>3. VersionsOk'
    BY <1>1, <1>4, <1>7, <1>9, SameVault
  <2>4. Tell(hkey, m)
    BY <1>9
  <2> HIDE DEF m
  <2> QED
    BY <1>2, <1>3, <2>1, <2>2, <2>3, <2>4, AnswerKeeps
<1> QED
  BY <1>8, <1>9 DEF HandlePut

\* What save_cache writes stays as it is while a handler takes its steps.
LEMMA SavedStays ==
  ASSUME ClientOk, asked' = asked, learnt' = learnt, step' = step
  PROVE  step' = "save" =>
           /\ asked' \in ClientMessages /\ learnt' \in ServerMessages
           /\ learnt'.type = "VAULT_DATA" \/ (learnt'.type = "VAULT_ACK" /\ asked'.type = "VAULT_PUT")
BY DEF ClientOk

LEMMA AuthKeeps ==
  ASSUME IInv, HandleAuth
  PROVE  IInv'
<1> DEFINE new == Repeated(conns, KeyLen)
<1>1. BytesOk /\ MemoryOk /\ VersionsOk /\ HandlerOk /\ ClientOk
  BY DEF IInv, SessionInv
<1>2. HearsIt("AUTH")
  BY Hearing DEF HandleAuth
<1>3. /\ up' = up /\ step' = step /\ parts' = parts /\ conns' = conns /\ toServer' = <<>>
      /\ asked' = asked /\ learnt' = learnt /\ state # "closed" /\ toServer # <<>> /\ buffer = None
      /\ asked.type = "AUTH" /\ "AUTH" \in Requests
  BY <1>2 DEF HearsIt
<1>4. UNCHANGED <<hnonce, hclient, buffer, lapsed, stored>>
  BY DEF HandleAuth
<1>5. state = "AUTHENTICATING" /\ hnonce = nonce /\ hclient = Me
  BY <1>1, <1>3 DEF Requests, BytesOk, HandlerOk
<1>6. up => toClient = <<>> /\ parts = None /\ step = "auth"
  BY <1>1, <1>3, <1>5, WhoWaits
<1>7. VersionsOk'
  BY <1>1, <1>2, <1>4, SameVault DEF Pending, HearsIt
<1>8. CASE /\ sessions' = sessions \cup {<<new, hclient>>}
           /\ state' = "ESTABLISHED" /\ hkey' = <<new, hnonce>>
           /\ Tell(Dummy, [type |-> "AUTH_OK", token |-> new, expiry |-> conns, version |-> 0])
  <2> DEFINE m == [type |-> "AUTH_OK", token |-> new, expiry |-> conns, version |-> 0]
  <2>1. conns \in Byte /\ conns \in Fits(8) /\ 0 \in Fits(8) /\ KeyLen \in Nat
    BY <1>1, MeIs, CountersFit, WireAssumption DEF Byte
  <2>2. new \in Text(KeyLen)
    BY <2>1, Repeats
  <2>3. Len(new) \in Fits(2) /\ new \in Seq(Byte)
    BY <2>2, SessionAssumption DEF Text
  <2> HIDE DEF new
  <2>4. m \in ServerMessages
    BY <2>1, <2>3 DEF ServerMessages
  <2>5. m.type = "AUTH_OK" /\ m.token = new /\ Tell(Dummy, m)
    BY <1>8
  <2> HIDE DEF m
  <2>6. /\ told' = m /\ Short(toClient')
        /\ up => UnderWay(toClient', Dummy, m.type, ServerPayload(m), None)
    <3>1. Short(toClient) /\ ServerPayload(m) \in Data
      BY <1>1, <2>2, <2>4, <2>5, ServerSent DEF BytesOk, OneFrame
    <3> QED
      BY <1>6, <2>4, <2>5, <3>1, TellIs
  <2>7. BytesOk' /\ MemoryOk' /\ HandlerOk'
    <3>1. \A entry \in sessions' : Bits(entry[1]) /\ Bits(entry[2])
      <4>1. Bits(new) /\ Bits(hclient)
        BY <1>1, <1>5, <2>3, MeIs DEF Bits, Byte
      <4> QED
        BY <1>1, <1>8, <4>1 DEF BytesOk
    <3>2. sessions \subseteq sessions' /\ told' \in ServerMessages /\ buffer' = None
          /\ hnonce' = nonce /\ hclient' = Me /\ state' \in {"closed", "AUTHENTICATING", "ESTABLISHED"}
      BY <1>3, <1>4, <1>5, <1>8, <2>4, <2>6
    <3> QED
      BY <1>2, <1>7, <2>6, <3>1, <3>2, HandlerStep
  <2>8. ClientOk'
    <3>1. ASSUME up PROVE LoginOk'
      <4>1. Telling'
        BY <1>3, <1>6, <2>5, <2>6, <3>1 DEF Telling, TellKey
      <4>2. OnlyTold({"AUTH_OK"})'
        BY <1>3, <2>4, <2>5, <2>6, <4>1 DEF OnlyTold
      <4>3. told'.token = new /\ <<told'.token, hclient'>> \in sessions' /\ hkey' = <<told'.token, hnonce'>>
        BY <1>4, <1>8, <2>5, <2>6
      <4> QED
        BY <1>8, <2>2, <4>2, <4>3 DEF LoginOk
    <3> QED
      BY <1>1, <1>3, <1>6, <3>1, SavedStays DEF ClientOk
  <2> QED
    BY <1>7, <2>7, <2>8 DEF IInv, SessionInv
<1>9. CASE /\ state' = "closed"
           /\ Tell(Dummy, [type |-> "AUTH_FAIL", code |-> AuthFailed])
           /\ UNCHANGED <<sessions, hkey>>
  <2> DEFINE m == [type |-> "AUTH_FAIL", code |-> AuthFailed]
  <2>1. m \in ServerMessages
    BY DEF ServerMessages, AuthFailed
  <2>2. m.type = "AUTH_FAIL" /\ Tell(Dummy, m)
    BY <1>9
  <2> HIDE DEF m
  <2>3. /\ told' = m /\ Short(toClient')
        /\ up => UnderWay(toClient', Dummy, m.type, ServerPayload(m), None)
    <3>1. Short(toClient) /\ ServerPayload(m) \in Data
      BY <1>1, <2>1, <2>2, ServerSent DEF BytesOk, OneFrame
    <3> QED
      BY <1>6, <2>1, <2>2, <3>1, TellIs
  <2>4. BytesOk' /\ MemoryOk' /\ HandlerOk'
    <3>1. \A entry \in sessions' : Bits(entry[1]) /\ Bits(entry[2])
      BY <1>1, <1>9 DEF BytesOk
    <3>2. sessions \subseteq sessions' /\ told' \in ServerMessages /\ buffer' = None
          /\ hnonce' = nonce /\ hclient' = Me /\ state' \in {"closed", "AUTHENTICATING", "ESTABLISHED"}
      BY <1>3, <1>4, <1>5, <1>9, <2>1, <2>3
    <3> QED
      BY <1>2, <1>7, <2>3, <3>1, <3>2, HandlerStep
  <2>5. ClientOk'
    <3>1. ASSUME up PROVE LoginOk'
      <4>1. Telling'
        BY <1>3, <1>6, <2>2, <2>3, <3>1 DEF Telling, TellKey
      <4>2. OnlyTold({"AUTH_FAIL"})'
        BY <1>3, <2>1, <2>2, <2>3, <4>1 DEF OnlyTold
      <4> QED
        BY <1>9, <4>2 DEF LoginOk
    <3> QED
      BY <1>1, <1>3, <1>6, <3>1, SavedStays DEF ClientOk
  <2> QED
    BY <1>7, <2>4, <2>5 DEF IInv, SessionInv
<1> QED
  BY <1>8, <1>9 DEF HandleAuth

LEMMA ByeKeeps ==
  ASSUME IInv, HandleBye
  PROVE  IInv'
<1>1. BytesOk /\ MemoryOk /\ VersionsOk /\ HandlerOk /\ ClientOk
  BY DEF IInv, SessionInv
<1>2. HearsIt("BYE")
  BY Hearing DEF HandleBye
<1>3. /\ up' = up /\ step' = step /\ asked' = asked /\ learnt' = learnt /\ state # "closed"
      /\ toServer # <<>> /\ buffer = None /\ asked.type = "BYE" /\ "BYE" \in Requests
  BY <1>2 DEF HearsIt
<1>4. /\ state' = "closed" /\ Tell(hkey, [type |-> "BYE"])
      /\ UNCHANGED <<hnonce, hclient, hkey, buffer, sessions, lapsed, stored>>
  BY DEF HandleBye, tables
<1>5. state = "ESTABLISHED" /\ hnonce = nonce /\ hclient = Me
  BY <1>1, <1>3 DEF Requests, BytesOk, HandlerOk
<1>6. ~up
  BY <1>1, <1>3, <1>5, WhoWaits
<1>7. told' = [type |-> "BYE"] /\ toClient' = toClient
  BY <1>4, <1>6 DEF Tell
<1>8. VersionsOk'
  BY <1>1, <1>2, <1>4, SameVault DEF Pending, HearsIt
<1>9. BytesOk' /\ MemoryOk' /\ HandlerOk'
  <2>1. told' \in ServerMessages
    BY <1>7 DEF ServerMessages
  <2>2. Short(toClient') /\ \A entry \in sessions' : Bits(entry[1]) /\ Bits(entry[2])
    BY <1>1, <1>4, <1>7 DEF BytesOk
  <2>3. sessions \subseteq sessions' /\ buffer' = None /\ hnonce' = nonce /\ hclient' = Me
        /\ state' \in {"closed", "AUTHENTICATING", "ESTABLISHED"}
    BY <1>3, <1>4, <1>5
  <2> QED
    BY <1>2, <1>8, <2>1, <2>2, <2>3, HandlerStep
<1>10. ClientOk'
  BY <1>1, <1>3, <1>6, SavedStays DEF ClientOk
<1> QED
  BY <1>8, <1>9, <1>10 DEF IInv, SessionInv

\* A frame that is not the last, and one that is refused.
LEMMA TailIsShort ==
  ASSUME BytesOk, HandlerOk, state # "closed", toServer # <<>>
  PROVE  Short(Tail(toServer))
<1> DEFINE f == Head(toServer)
<1>1. HandlerFinds(f)
  BY HandlerHead
<1> HIDE DEF f
<1>2. CASE MoreFragments(f)
  <2>1. UnderWay(Tail(toServer), AskKey, asked.type, ClientPayload(asked), Assembled(f))
    BY <1>1, <1>2 DEF HandlerFinds
  <2>2. ClientPayload(asked) \in Data
    BY <1>1, ClientSent DEF HandlerFinds
  <2> QED
    BY <2>1, <2>2, UnderWayIsShort
<1>3. CASE ~MoreFragments(f)
  <2>1. Tail(toServer) = <<>>
    BY <1>1, <1>3 DEF HandlerFinds
  <2>2. Short(<<>>)
    BY DEF Short
  <2> QED
    BY <2>1, <2>2
<1> QED
  BY <1>2, <1>3

LEMMA RefusesKeeps ==
  ASSUME IInv, HandlerRefuses
  PROVE  IInv'
<1> DEFINE f == Head(toServer)
<1>1. BytesOk /\ MemoryOk /\ VersionsOk /\ HandlerOk /\ ClientOk
  BY DEF IInv, SessionInv
<1>2. /\ state # "closed" /\ toServer # <<>> /\ toServer' = Tail(toServer) /\ ~Accepted(f)
      /\ state' = "closed"
      /\ UNCHANGED <<step, up, process, nonce, token, kmac, base, parts, conns, asked, learnt, askedSoFar,
                     hnonce, hclient, hkey, buffer, sessions, lapsed, stored, toClient, heard, told>>
  BY DEF HandlerRefuses, HandlerReads, memory, tables
<1>3. HandlerFinds(f)
  BY <1>1, <1>2, HandlerHead
<1> HIDE DEF f
<1>4. asked \in ClientMessages /\ TooLarge(asked) /\ asked.type = "VAULT_PUT" /\ state = "ESTABLISHED"
  BY <1>1, <1>2, <1>3 DEF HandlerFinds, TooLarge, Requests, BytesOk
<1>5. BytesOk'
  <2>1. Short(toServer')
    BY <1>1, <1>2, TailIsShort
  <2> QED
    BY <1>1, <1>2, <2>1 DEF BytesOk
<1>6. MemoryOk'
  BY <1>1, <1>2 DEF MemoryOk, FieldsOk, Me
<1>7. VersionsOk'
  BY <1>1, <1>2, SameVault DEF Pending
<1>8. HandlerOk'
  BY <1>2 DEF HandlerOk
<1>9. ClientOk'
  <2>1. ASSUME up PROVE RequestOk' /\ step \in {"first_data", "reply"}
    BY <1>1, <1>2, <1>4, <2>1, WhoWaits DEF RequestOk
  <2> QED
    BY <1>1, <1>2, <2>1, SavedStays DEF ClientOk
<1> QED
  BY <1>5, <1>6, <1>7, <1>8, <1>9 DEF IInv, SessionInv

LEMMA FragmentKeeps ==
  ASSUME IInv, HandlerKeeps
  PROVE  IInv'
<1> DEFINE f == Head(toServer)
           p == ClientPayload(asked)
<1>1. BytesOk /\ MemoryOk /\ VersionsOk /\ HandlerOk /\ ClientOk
  BY DEF IInv, SessionInv
<1>2. /\ state # "closed" /\ toServer # <<>> /\ toServer' = Tail(toServer)
      /\ Accepted(f) /\ MoreFragments(f) /\ buffer' = Assembled(f)
      /\ UNCHANGED <<step, up, process, nonce, token, kmac, base, parts, conns, asked, learnt, askedSoFar,
                     state, hnonce, hclient, hkey, sessions, lapsed, stored, toClient, heard, told>>
  BY DEF HandlerKeeps, HandlerReads, memory, tables
<1>3. HandlerFinds(f)
  BY <1>1, <1>2, HandlerHead
<1> HIDE DEF f
<1>4. /\ asked \in ClientMessages /\ asked.type = "VAULT_PUT" /\ state = "ESTABLISHED"
      /\ Assembled(f) \in Seq(Byte) /\ "FRAGMENTED" \in f.flags
      /\ UnderWay(toServer', AskKey, asked.type, p, buffer')
  BY <1>1, <1>2, <1>3 DEF HandlerFinds, MoreFragments, Requests, BytesOk
<1>5. toServer' # <<>>
  <2>1. p \in Data
    BY <1>4, ClientSent
  <2>2. NextIs(toServer', AskKey, asked.type, p, buffer')
    BY <1>4, <2>1, NextFrame, Zenon
  <2> QED
    BY <2>2 DEF NextIs
<1>6. BytesOk'
  <2>1. Short(toServer')
    BY <1>1, <1>2, TailIsShort
  <2>2. Bits(buffer') /\ Len(buffer') <= MaxBlob + IdLen + 12
    BY <1>2, <1>4 DEF Accepted, Bits, Byte
  <2>3. \A b \in {nonce', token', parts', hnonce', hclient', buffer'} : b # None => Bits(b)
    BY <1>1, <1>2, <2>2 DEF BytesOk
  <2> QED
    BY <1>1, <1>2, <2>1, <2>2, <2>3 DEF BytesOk, Bits
<1>7. MemoryOk'
  BY <1>1, <1>2 DEF MemoryOk, FieldsOk, Me
<1>8. VersionsOk'
  BY <1>1, <1>2, <1>5, SameVault DEF Pending
<1>9. HandlerOk'
  <2>1. Asking'
    BY <1>2, <1>4 DEF Asking, AskKey, p
  <2>2. Me' = Me /\ Requests' = Requests
    BY <1>2 DEF Me, Requests
  <2> QED
    BY <1>1, <1>2, <1>4, <1>5, <2>1, <2>2 DEF HandlerOk, Requests
<1>10. ClientOk'
  <2>1. ASSUME up PROVE RequestOk' /\ step \in {"first_data", "reply"}
    BY <1>1, <1>2, <1>4, <1>5, <2>1, WhoWaits DEF RequestOk, OnlyAsked
  <2> QED
    BY <1>1, <1>2, <2>1, SavedStays DEF ClientOk
<1> QED
  BY <1>6, <1>7, <1>8, <1>9, <1>10 DEF IInv, SessionInv

-----------------------------------------------------------------------------
\* The client's steps.

\* Steps of the client that leave the handler and what was asked alone.
LEMMA HandlerUndisturbed ==
  ASSUME HandlerOk, kmac' = kmac \/ toServer = <<>>,
         UNCHANGED <<state, hnonce, hclient, hkey, buffer, toServer, asked, nonce, process, conns, sessions>>
  PROVE  HandlerOk'
<1>1. Me' = Me /\ Requests' = Requests /\ ServerNonce' = ServerNonce
  BY DEF Me, Requests, ServerNonce
<1>2. ProvesLogin' = ProvesLogin
  BY <1>1 DEF ProvesLogin
<1>3. CASE toServer = <<>>
  BY <1>1, <1>3 DEF HandlerOk
<1>4. CASE kmac' = kmac
  <2>1. Asking' = Asking
    BY <1>4 DEF Asking, AskKey
  <2> QED
    BY <1>1, <1>2, <1>4, <2>1 DEF HandlerOk
<1> QED
  BY <1>3, <1>4

LearnsIt(type) ==
  /\ up /\ step \in Waiting /\ Awaited /\ told.type = type /\ toClient' = <<>> /\ parts' = None
  /\ type # "AUTH_FAIL" => learnt' = told
  /\ UNCHANGED <<up, process, nonce, state, hnonce, hclient, hkey, buffer, sessions, lapsed, stored, conns, told>>

LEMMA Learning ==
  ASSUME IInv, NEW type, Answered(type)
  PROVE  LearnsIt(type)
<1> DEFINE f == Head(toClient)
<1>1. /\ Receives(f) /\ f.type = type /\ ~MoreToCome(f) /\ learnt' = ClientParse(f.type, Gathered(f))
      /\ parts' = None
      /\ UNCHANGED <<up, process, nonce, state, hnonce, hclient, hkey, buffer, sessions, lapsed, stored, conns, told>>
  BY DEF Answered, Learn, handler, tables
<1>2. step \in Waiting /\ up /\ toClient # <<>> /\ toClient' = Tail(toClient)
  BY <1>1 DEF Receives
<1>3. Awaited
  BY <1>2, WhatIsAwaited DEF IInv, SessionInv
<1>4. ClientFinds(f)
  BY <1>2, <1>3, ClientHead
<1> HIDE DEF f
<1> QED
  BY <1>1, <1>2, <1>3, <1>4 DEF ClientFinds, LearnsIt

LEMMA ReadFragmentKeeps ==
  ASSUME IInv, ReadFragment
  PROVE  IInv'
<1> DEFINE f == Head(toClient)
<1>1. BytesOk /\ MemoryOk /\ VersionsOk /\ HandlerOk /\ ClientOk
  BY DEF IInv, SessionInv
<1>2. /\ step \in Waiting /\ up /\ toClient # <<>> /\ toClient' = Tail(toClient) /\ MoreToCome(f)
      /\ parts' = Gathered(f)
      /\ UNCHANGED <<step, up, process, nonce, token, kmac, base, state, hnonce, hclient, hkey, buffer,
                     sessions, lapsed, stored, toServer, conns, asked, heard, told, learnt, askedSoFar>>
  BY DEF ReadFragment, Receives, memory, handler, tables
<1>3. Awaited /\ ClientFinds(f)
  BY <1>1, <1>2, WhatIsAwaited, ClientHead
<1> HIDE DEF f
<1>4. /\ told.type = "VAULT_DATA" /\ Bits(parts')
      /\ UnderWay(toClient', TellKey, told.type, ServerPayload(told), parts')
  BY <1>2, <1>3 DEF ClientFinds, Bits, Byte
<1>5. step \in {"first_data", "reply"}
  BY <1>2, <1>3, <1>4 DEF Awaited, Waiting
<1>6. BytesOk'
  <2>1. Short(toClient')
    <3>1. ServerPayload(told) \in Data
      BY <1>3, <1>4, ServerSent DEF Awaited
    <3> QED
      BY <1>4, <3>1, UnderWayIsShort
  <2>2. \A b \in {nonce', token', parts', hnonce', hclient', buffer'} : b # None => Bits(b)
    BY <1>1, <1>2, <1>4 DEF BytesOk
  <2> QED
    BY <1>1, <1>2, <2>1, <2>2 DEF BytesOk, Bits
<1>7. MemoryOk'
  BY <1>1, <1>2 DEF MemoryOk, FieldsOk, Me
<1>8. VersionsOk'
  BY <1>1, <1>2, SameVault DEF Pending
<1>9. HandlerOk'
  BY <1>1, <1>2, HandlerUndisturbed
<1>10. ClientOk'
  <2>1. Telling'
    BY <1>2, <1>4 DEF Telling, TellKey
  <2>2. Answers' = Answers
    BY <1>2 DEF Answers
  <2>3. OnlyTold(Answers)'
    BY <1>2, <1>3, <1>5, <2>1, <2>2 DEF Awaited, OnlyTold
  <2>4. RequestOk'
    BY <1>2, <1>3, <1>5, <2>3 DEF Awaited, RequestOk
  <2> QED
    BY <1>2, <1>5, <2>4 DEF ClientOk
<1> QED
  BY <1>6, <1>7, <1>8, <1>9, <1>10 DEF IInv, SessionInv

\* The types after a step of the client on an open connection.
LEMMA ClientTypesStay ==
  ASSUME BytesOk, step' \in Waiting \cup {"off", "first", "idle", "save"}, up' \in BOOLEAN,
         Short(toServer'), Short(toClient'), askedSoFar' \in 0..MaxAsked,
         parts' \in {None, parts}, token' = token \/ Bits(token'),
         UNCHANGED <<state, process, conns, nonce, hnonce, hclient, buffer, stored, sessions>>
  PROVE  BytesOk'
<1>1. \A b \in {nonce', token', parts', hnonce', hclient', buffer'} : b # None => Bits(b)
  BY DEF BytesOk
<1> QED
  BY <1>1 DEF BytesOk, Bits

\* An answer after which the client is at rest.
LEMMA RestKeeps ==
  ASSUME IInv, NEW type, LearnsIt(type), type # "AUTH_FAIL", state = "ESTABLISHED",
         step' \in {"first", "idle", "save"}, hkey = kmac', base' \in Fits(8),
         token' = token \/ (token' \in Text(KeyLen) /\ <<token', Me>> \in sessions),
         step' = "save" =>
           /\ asked \in ClientMessages
           /\ told.type = "VAULT_DATA" \/ (told.type = "VAULT_ACK" /\ asked.type = "VAULT_PUT"),
         UNCHANGED <<toServer, asked, askedSoFar>>
  PROVE  IInv'
<1>1. BytesOk /\ MemoryOk /\ VersionsOk /\ HandlerOk /\ ClientOk
  BY DEF IInv, SessionInv
<1>2. /\ up /\ Awaited /\ toClient' = <<>> /\ parts' = None /\ learnt' = told
      /\ UNCHANGED <<up, process, nonce, state, hnonce, hclient, hkey, buffer, sessions, stored, conns, told>>
  BY DEF LearnsIt
<1>3. toServer = <<>> /\ told \in ServerMessages
  BY <1>2 DEF Awaited
<1>4. BytesOk'
  <2>1. step' \in Waiting \cup {"off", "first", "idle", "save"}
    OBVIOUS
  <2>2. Short(toServer') /\ Short(toClient')
    BY <1>2, <1>3 DEF Short
  <2>3. token' = token \/ Bits(token')
    BY DEF Text, Bits, Byte
  <2>4. up' \in BOOLEAN /\ askedSoFar' \in 0..MaxAsked
    BY <1>1, <1>2 DEF BytesOk
  <2> QED
    BY <1>1, <1>2, <2>1, <2>2, <2>3, <2>4, ClientTypesStay
<1>5. MemoryOk'
  <2>1. Me' = Me
    BY <1>2 DEF Me
  <2> QED
    BY <1>1, <1>2, <1>3, <2>1 DEF MemoryOk, FieldsOk
<1>6. VersionsOk'
  BY <1>1, <1>2, <1>3, SameVault DEF Pending
<1>7. HandlerOk'
  BY <1>1, <1>2, <1>3, HandlerUndisturbed
<1>8. ClientOk'
  <2>1. RestOk'
    BY <1>2, <1>3 DEF RestOk
  <2> QED
    BY <1>2, <1>3, <2>1 DEF ClientOk
<1> QED
  BY <1>4, <1>5, <1>6, <1>7, <1>8 DEF IInv, SessionInv

LEMMA AuthOkKeeps ==
  ASSUME IInv, ReadAuthOk
  PROVE  IInv'
<1>1. BytesOk /\ MemoryOk /\ VersionsOk /\ HandlerOk /\ ClientOk
  BY DEF IInv, SessionInv
<1>2. LearnsIt("AUTH_OK")
  BY Learning DEF ReadAuthOk
<1>3. /\ token' = learnt'.token /\ base' = learnt'.version /\ kmac' = <<learnt'.token, nonce>>
      /\ step' \in {"first", "idle"} /\ UNCHANGED <<toServer, asked, askedSoFar>>
  BY DEF ReadAuthOk, SessionKey
<1>4. told \in ServerMessages /\ told.type = "AUTH_OK" /\ learnt' = told /\ step = "auth"
  <2>1. told \in ServerMessages /\ told.type = "AUTH_OK" /\ learnt' = told /\ step \in Waiting /\ Awaited
    BY <1>2 DEF LearnsIt, Awaited
  <2> QED
    BY <2>1 DEF Awaited, Answers, Waiting
<1>5. /\ state = "ESTABLISHED" /\ told.token \in Text(KeyLen) /\ <<told.token, hclient>> \in sessions
      /\ hkey = <<told.token, hnonce>>
  BY <1>2, <1>4 DEF LearnsIt, Awaited
<1>6. hclient = Me /\ hnonce = nonce
  BY <1>1, <1>5 DEF HandlerOk
<1>7. base' \in Fits(8)
  BY <1>3, <1>4, ServerSent
<1> QED
  BY <1>2, <1>3, <1>4, <1>5, <1>6, <1>7, RestKeeps

LEMMA DataKeeps ==
  ASSUME IInv, ReadData \/ ReadAck \/ ReadOther
  PROVE  IInv'
<1> SUFFICES ASSUME NEW type \in {"VAULT_DATA", "VAULT_ACK", "PONG", "ERROR"}, Answered(type),
                    step' \in {"first", "idle", "save"},
                    base' = base \/ (base' = learnt'.version /\ type \in {"VAULT_DATA", "VAULT_ACK"}),
                    step' = "save" => type \in {"VAULT_DATA", "VAULT_ACK"},
                    UNCHANGED <<token, kmac, toServer, asked, heard, askedSoFar>>
             PROVE  IInv'
  BY DEF ReadData, ReadAck, ReadOther
<1>1. BytesOk /\ MemoryOk
  BY DEF IInv, SessionInv
<1>2. LearnsIt(type)
  BY Learning
<1>3. told \in ServerMessages /\ told.type = type /\ learnt' = told /\ step \in Waiting /\ Awaited
  BY <1>2 DEF LearnsIt, Awaited
<1>4. step \in {"first_data", "reply"}
  BY <1>3 DEF Awaited, Waiting
<1>5. state = "ESTABLISHED" /\ hkey = kmac /\ asked \in ClientMessages
      /\ (told.type = "VAULT_ACK" => asked.type = "VAULT_PUT")
  BY <1>3, <1>4 DEF Awaited, Answers
<1>6. base' \in Fits(8)
  BY <1>1, <1>3, ServerSent DEF MemoryOk, FieldsOk
<1> QED
  BY <1>2, <1>3, <1>5, <1>6, RestKeeps

LEMMA AuthFailKeeps ==
  ASSUME IInv, ReadAuthFail
  PROVE  IInv'
<1> DEFINE f == Head(toClient)
<1>1. BytesOk /\ MemoryOk /\ VersionsOk /\ HandlerOk /\ ClientOk
  BY DEF IInv, SessionInv
<1>2. /\ step \in Waiting /\ up /\ toClient # <<>> /\ toClient' = Tail(toClient)
      /\ f.type = "AUTH_FAIL" /\ step' \in {"off", "idle"} /\ up' = FALSE
      /\ UNCHANGED <<process, nonce, token, kmac, base, parts, state, hnonce, hclient, hkey, buffer,
                     sessions, lapsed, stored, toServer, conns, asked, heard, told, learnt, askedSoFar>>
  BY DEF ReadAuthFail, Receives, memory, handler, tables
<1>3. ClientFinds(f)
  BY <1>1, <1>2, WhatIsAwaited, ClientHead
<1> HIDE DEF f
<1>4. toClient' = <<>>
  BY <1>2, <1>3 DEF ClientFinds, MoreToCome
<1>5. BytesOk'
  <2>1. Short(toClient') /\ Short(toServer') /\ askedSoFar' \in 0..MaxAsked
    BY <1>1, <1>2, <1>4 DEF Short, BytesOk
  <2>2. step' \in Waiting \cup {"off", "first", "idle", "save"}
    BY <1>2
  <2> QED
    BY <1>1, <1>2, <2>1, <2>2, ClientTypesStay
<1>6. MemoryOk'
  BY <1>1, <1>2 DEF MemoryOk, FieldsOk, Me
<1>7. VersionsOk'
  BY <1>1, <1>2, SameVault DEF Pending
<1>8. HandlerOk'
  BY <1>1, <1>2, HandlerUndisturbed
<1>9. ClientOk'
  BY <1>2 DEF ClientOk
<1> QED
  BY <1>5, <1>6, <1>7, <1>8, <1>9 DEF IInv, SessionInv

LEMMA AuthSent ==
  ASSUME IInv, LearnsIt("CHALLENGE"), NEW m \in ClientMessages, m.type = "AUTH", Ask(Dummy, m),
         step' = "auth",
         IF m.token = None THEN m.hmac = Proof(nonce, ServerNonce) ELSE <<m.token, Me>> \in sessions,
         UNCHANGED <<token, kmac, base, askedSoFar>>
  PROVE  IInv'
<1>1. BytesOk /\ MemoryOk /\ VersionsOk /\ HandlerOk /\ ClientOk
  BY DEF IInv, SessionInv
<1>2. /\ up /\ Awaited /\ toClient' = <<>> /\ parts' = None /\ learnt' = told /\ step \in Waiting
      /\ told.type = "CHALLENGE"
      /\ UNCHANGED <<up, process, nonce, state, hnonce, hclient, hkey, buffer, sessions, stored, conns, told>>
  BY DEF LearnsIt
<1>3. step = "challenge"
  BY <1>2 DEF Awaited, Answers, Waiting
<1>4. state = "AUTHENTICATING" /\ toServer = <<>> /\ told \in ServerMessages
  BY <1>2, <1>3 DEF Awaited
<1>5. buffer = None /\ hnonce = nonce /\ hclient = Me
  BY <1>1, <1>4 DEF HandlerOk
<1>6. /\ asked' = m /\ toServer' # <<>> /\ Short(toServer')
      /\ UnderWay(toServer', Dummy, m.type, ClientPayload(m), None)
  BY <1>4, AskIs
<1>7. BytesOk'
  <2>1. Short(toClient') /\ askedSoFar' \in 0..MaxAsked /\ up' \in BOOLEAN
    BY <1>1, <1>2 DEF Short, BytesOk
  <2>2. step' \in Waiting \cup {"off", "first", "idle", "save"}
    BY DEF Waiting
  <2> QED
    BY <1>1, <1>2, <1>6, <2>1, <2>2, ClientTypesStay
<1>8. MemoryOk'
  <2>1. Me' = Me
    BY <1>2 DEF Me
  <2> QED
    BY <1>1, <1>2, <1>4, <1>6, <2>1 DEF MemoryOk, FieldsOk
<1>9. VersionsOk'
  <2>1. Pending' = 0
    BY <1>6 DEF Pending
  <2> QED
    BY <1>1, <1>2, <2>1, SameVault
<1>10. HandlerOk'
  <2>1. Me' = Me /\ ServerNonce' = ServerNonce
    BY <1>2 DEF Me, ServerNonce
  <2>2. Asking'
    BY <1>2, <1>5, <1>6 DEF Asking, AskKey
  <2>3. ProvesLogin'
    BY <1>2, <1>5, <1>6, <2>1 DEF ProvesLogin
  <2>4. asked' \in ClientMessages /\ asked'.type \in Requests'
    BY <1>2, <1>4, <1>6 DEF Requests
  <2> QED
    BY <1>2, <1>4, <1>5, <1>6, <2>1, <2>2, <2>3, <2>4 DEF HandlerOk
<1>11. ClientOk'
  BY <1>2, <1>4, <1>6 DEF ClientOk, LoginOk, OnlyAsked
<1> QED
  BY <1>7, <1>8, <1>9, <1>10, <1>11 DEF IInv, SessionInv

LEMMA ProofIsText ==
  ASSUME NEW x \in Text(KeyLen), NEW y \in Text(KeyLen)
  PROVE  Proof(x, y) \in Text(KeyLen)
<1>1. KeyLen \in Nat
  BY WireAssumption
<1>2. \A i \in 1..KeyLen : x[i] \in Byte /\ y[i] \in Byte
  BY <1>1 DEF Text
<1>3. \A i \in 1..KeyLen : (IF i % 2 = 1 THEN x[i] ELSE y[i]) \in Byte
  BY <1>2
<1>4. Proof(x, y) \in [1..KeyLen -> Byte]
  BY <1>3 DEF Proof
<1>5. Proof(x, y) \in Seq(Byte) /\ Len(Proof(x, y)) = KeyLen
  BY <1>1, <1>4
<1> QED
  BY <1>5 DEF Text

LEMMA SendAuthKeeps ==
  ASSUME IInv, SendAuth
  PROVE  IInv'
<1>1. BytesOk /\ MemoryOk /\ VersionsOk /\ HandlerOk /\ ClientOk
  BY DEF IInv, SessionInv
<1>2. LearnsIt("CHALLENGE")
  BY Learning DEF SendAuth
<1>3. step' = "auth" /\ UNCHANGED <<token, kmac, base, askedSoFar>>
  BY DEF SendAuth
<1>4. /\ up /\ learnt' = told /\ told \in ServerMessages /\ told.nonce = ServerNonce /\ told.type = "CHALLENGE"
  <2>1. up /\ Awaited /\ step \in Waiting /\ told.type = "CHALLENGE" /\ learnt' = told
    BY <1>2 DEF LearnsIt
  <2>2. step = "challenge"
    BY <2>1 DEF Awaited, Answers, Waiting
  <2> QED
    BY <2>1, <2>2 DEF Awaited
<1>5. nonce \in Text(KeyLen) /\ ServerNonce \in Text(KeyLen)
  BY <1>1, <1>4, ServerSent DEF MemoryOk, FieldsOk
<1>6. Name \in {b \in Seq(Byte) : Len(b) \in 1..MaxName}
  BY SessionAssumption
<1>7. ASSUME token = None, NEW totp \in TotpCodes,
             Ask(Dummy, [type |-> "AUTH", name |-> Name, hmac |-> Proof(nonce, learnt'.nonce),
                         token |-> None, totp |-> totp])
      PROVE  IInv'
  <2> DEFINE m == [type |-> "AUTH", name |-> Name, hmac |-> Proof(nonce, ServerNonce),
                   token |-> None, totp |-> totp]
  <2>1. Proof(nonce, ServerNonce) \in Text(KeyLen) /\ totp \in Fits(4) \cup {None}
    BY <1>5, ProofIsText, SessionAssumption
  <2>2. m \in ClientMessages
    BY <1>6, <2>1 DEF ClientMessages
  <2>3. Ask(Dummy, m) /\ m.type = "AUTH" /\ m.token = None /\ m.hmac = Proof(nonce, ServerNonce)
    BY <1>4, <1>7
  <2> HIDE DEF m
  <2> QED
    BY <1>2, <1>3, <2>2, <2>3, AuthSent
<1>8. ASSUME token # None,
             Ask(Dummy, [type |-> "AUTH", name |-> Name, hmac |-> Repeated(0, KeyLen),
                         token |-> token, totp |-> None])
      PROVE  IInv'
  <2> DEFINE m == [type |-> "AUTH", name |-> Name, hmac |-> Repeated(0, KeyLen),
                   token |-> token, totp |-> None]
  <2>1. 0 \in Byte /\ KeyLen \in Nat
    BY BaseIsNat, WireAssumption DEF Byte
  <2>2. Repeated(0, KeyLen) \in Text(KeyLen) /\ token \in Text(KeyLen) /\ <<token, Me>> \in sessions
    BY <1>1, <1>8, <2>1, Repeats DEF MemoryOk, FieldsOk
  <2>3. m \in ClientMessages
    BY <1>6, <2>2 DEF ClientMessages
  <2>4. Ask(Dummy, m) /\ m.type = "AUTH" /\ m.token = token
    BY <1>8
  <2> HIDE DEF m
  <2> QED
    BY <1>2, <1>3, <1>8, <2>2, <2>3, <2>4, AuthSent
<1> QED
  BY <1>7, <1>8 DEF SendAuth

\* A request of a client at rest.
LEMMA RequestKeeps ==
  ASSUME IInv, step \in {"first", "idle"}, NEW m \in ClientMessages, Request(m),
         m.type \in {"VAULT_GET", "VAULT_PUT", "PING"}, step' \in {"first_data", "reply"},
         step' = "first_data" => m.type = "VAULT_GET"
  PROVE  IInv'
<1>1. BytesOk /\ MemoryOk /\ VersionsOk /\ HandlerOk /\ ClientOk
  BY DEF IInv, SessionInv
<1>2. /\ up /\ askedSoFar < MaxAsked /\ askedSoFar' = askedSoFar + 1 /\ Ask(kmac, m)
      /\ UNCHANGED <<up, process, nonce, token, kmac, base, parts, state, hnonce, hclient, hkey, buffer,
                     sessions, lapsed, stored, toClient, conns, told, learnt>>
  BY DEF Request, memory, handler, tables
<1>3. state = "ESTABLISHED" /\ hkey = kmac /\ toServer = <<>> /\ toClient = <<>> /\ parts = None
  BY <1>1, <1>2 DEF ClientOk, RestOk
<1>4. /\ asked' = m /\ toServer' # <<>> /\ Short(toServer')
      /\ UnderWay(toServer', kmac, m.type, ClientPayload(m), None)
  BY <1>2, <1>3, AskIs
<1>5. buffer = None /\ hnonce = nonce /\ hclient = Me
  BY <1>1, <1>3 DEF HandlerOk
<1>6. BytesOk'
  <2>1. Short(toClient') /\ askedSoFar' \in 0..MaxAsked /\ up' \in BOOLEAN
    BY <1>1, <1>2, CountersFit DEF BytesOk
  <2>2. step' \in Waiting \cup {"off", "first", "idle", "save"}
    BY DEF Waiting
  <2> QED
    BY <1>1, <1>2, <1>4, <2>1, <2>2, ClientTypesStay
<1>7. MemoryOk'
  <2>1. Me' = Me
    BY <1>2 DEF Me
  <2> QED
    BY <1>1, <1>2, <1>4, <2>1 DEF MemoryOk, FieldsOk
<1>8. VersionsOk'
  <2>1. Current' = Current /\ Pending' \in {0, 1}
    BY <1>2 DEF Current, Pending
  <2>2. Current' + Pending' <= Base - 1 + askedSoFar'
    BY <1>1, <1>2, <2>1, CurrentIs
  <2> QED
    BY <1>1, <1>2, <2>2 DEF VersionsOk
<1>9. HandlerOk'
  <2>1. Me' = Me
    BY <1>2 DEF Me
  <2>2. Asking'
    BY <1>2, <1>4, <1>5 DEF Asking, AskKey
  <2>3. asked' \in ClientMessages /\ asked'.type \in Requests'
    BY <1>2, <1>3, <1>4 DEF Requests
  <2> QED
    BY <1>2, <1>3, <1>4, <1>5, <2>1, <2>2, <2>3 DEF HandlerOk
<1>10. ClientOk'
  <2>1. RequestOk'
    BY <1>2, <1>3, <1>4 DEF RequestOk, OnlyAsked
  <2> QED
    BY <2>1 DEF ClientOk
<1> QED
  BY <1>6, <1>7, <1>8, <1>9, <1>10 DEF IInv, SessionInv

LEMMA RequestsKeep ==
  ASSUME IInv, AskGet \/ AskPut \/ AskPing
  PROVE  IInv'
<1>1. base \in Fits(8) /\ askedSoFar \in Nat /\ askedSoFar <= MaxAsked
  BY CountersFit DEF IInv, SessionInv, MemoryOk, FieldsOk, BytesOk
<1>2. Vault \in Text(IdLen)
  BY WireAssumption, Repeats DEF Vault, Byte
<1>3. CASE AskGet
  <2> DEFINE m == [type |-> "VAULT_GET", vault |-> Vault, known |-> base]
  <2>1. m \in ClientMessages /\ m.type = "VAULT_GET"
    BY <1>1, <1>2 DEF ClientMessages
  <2>2. step \in {"first", "idle"} /\ step' \in {"first_data", "reply"} /\ Request(m)
    BY <1>3 DEF AskGet
  <2> HIDE DEF m
  <2> QED
    BY <2>1, <2>2, RequestKeeps
<1>4. CASE AskPut
  <2>1. PICK blob \in Blobs :
          Request([type |-> "VAULT_PUT", vault |-> Vault, base |-> base, blob |-> blob])
    BY <1>4 DEF AskPut
  <2> DEFINE m == [type |-> "VAULT_PUT", vault |-> Vault, base |-> base, blob |-> blob]
  <2>2. blob \in Seq(Byte) /\ Len(blob) \in Fits(4)
    BY SessionAssumption
  <2>3. m \in ClientMessages /\ m.type = "VAULT_PUT"
    BY <1>1, <1>2, <2>2 DEF ClientMessages
  <2>4. step \in {"first", "idle"} /\ step' = "reply" /\ Request(m)
    BY <1>4, <2>1 DEF AskPut
  <2> HIDE DEF m
  <2> QED
    BY <2>3, <2>4, RequestKeeps
<1>5. CASE AskPing
  <2> DEFINE m == [type |-> "PING", time |-> askedSoFar]
  <2>1. askedSoFar \in Fits(8)
    BY <1>1, CountersFit
  <2>2. m \in ClientMessages /\ m.type = "PING"
    BY <2>1 DEF ClientMessages
  <2>3. step \in {"first", "idle"} /\ step' = "reply" /\ Request(m)
    BY <1>5 DEF AskPing
  <2> HIDE DEF m
  <2> QED
    BY <2>2, <2>3, RequestKeeps
<1> QED
  BY <1>3, <1>4, <1>5

LEMMA SayByeKeeps ==
  ASSUME IInv, Bye
  PROVE  IInv'
<1> DEFINE m == [type |-> "BYE"]
<1>1. BytesOk /\ MemoryOk /\ VersionsOk /\ HandlerOk /\ ClientOk
  BY DEF IInv, SessionInv
<1>2. /\ step = "idle" /\ up /\ Ask(kmac, m) /\ up' = FALSE /\ step' = "off"
      /\ UNCHANGED <<process, nonce, token, kmac, base, parts, state, hnonce, hclient, hkey, buffer,
                     sessions, lapsed, stored, toClient, conns, told, learnt, askedSoFar>>
  BY DEF Bye, memory, handler, tables
<1>3. m \in ClientMessages /\ m.type = "BYE"
  BY DEF ClientMessages
<1>4. state = "ESTABLISHED" /\ hkey = kmac /\ toServer = <<>>
  BY <1>1, <1>2 DEF ClientOk, RestOk
<1> HIDE DEF m
<1>5. /\ asked' = m /\ toServer' # <<>> /\ Short(toServer')
      /\ UnderWay(toServer', kmac, m.type, ClientPayload(m), None)
  BY <1>2, <1>3, <1>4, AskIs
<1>6. buffer = None /\ hnonce = nonce /\ hclient = Me
  BY <1>1, <1>4 DEF HandlerOk
<1>7. BytesOk'
  <2>1. Short(toClient') /\ askedSoFar' \in 0..MaxAsked
    BY <1>1, <1>2 DEF BytesOk
  <2>2. step' \in Waiting \cup {"off", "first", "idle", "save"} /\ up' \in BOOLEAN
    BY <1>2
  <2> QED
    BY <1>1, <1>2, <1>5, <2>1, <2>2, ClientTypesStay
<1>8. MemoryOk'
  <2>1. Me' = Me
    BY <1>2 DEF Me
  <2> QED
    BY <1>1, <1>2, <1>3, <1>5, <2>1 DEF MemoryOk, FieldsOk
<1>9. VersionsOk'
  <2>1. Pending' = 0
    BY <1>3, <1>5 DEF Pending
  <2> QED
    BY <1>1, <1>2, <2>1, SameVault
<1>10. HandlerOk'
  <2>1. Me' = Me
    BY <1>2 DEF Me
  <2>2. Asking'
    BY <1>2, <1>3, <1>5, <1>6 DEF Asking, AskKey
  <2>3. asked' \in ClientMessages /\ asked'.type \in Requests'
    BY <1>2, <1>3, <1>4, <1>5 DEF Requests
  <2> QED
    BY <1>2, <1>4, <1>5, <1>6, <2>1, <2>2, <2>3 DEF HandlerOk
<1>11. ClientOk'
  BY <1>2 DEF ClientOk
<1> QED
  BY <1>7, <1>8, <1>9, <1>10, <1>11 DEF IInv, SessionInv

\* A new connection, of a new process or of the one that was there.
LEMMA OpenKeeps ==
  ASSUME IInv, NEW by \in {process, process + 1}, Open(by), process' = by, base' \in Fits(8),
         token' = None \/ (token' = token /\ by = process)
  PROVE  IInv'
<1> DEFINE m == [type |-> "HELLO", nonce |-> nonce', client |-> Repeated(by, IdLen), time |-> conns]
           p == ClientPayload(m)
<1>1. BytesOk /\ MemoryOk /\ VersionsOk /\ HandlerOk /\ ClientOk
  BY DEF IInv, SessionInv
<1>2. /\ conns < MaxConns /\ conns' = conns + 1 /\ up' = TRUE /\ step' = "challenge"
      /\ nonce' = Repeated(conns + 1, KeyLen) /\ kmac' = None /\ parts' = None /\ toClient' = <<>>
      /\ state' = "GREETING" /\ buffer' = None
      /\ toServer' = Frames(Dummy, "HELLO", p) /\ asked' = m
      /\ UNCHANGED <<hnonce, hclient, hkey, sessions, lapsed, stored, told, learnt, askedSoFar>>
  BY DEF Open, tables
<1>3. /\ process \in Nat /\ process <= conns /\ conns \in Nat /\ conns + 1 <= MaxConns
      /\ MaxConns < Base /\ MaxConns \in Nat /\ Base \in Nat /\ MaxAsked \in Nat
  BY <1>1, <1>2, CountersFit DEF BytesOk
<1>4. /\ by \in Byte /\ conns + 1 \in Byte /\ conns \in Fits(8) /\ by \in 0..conns + 1
      /\ KeyLen \in Nat /\ IdLen \in Nat
  BY <1>3, CountersFit, WireAssumption DEF Byte
<1>5. /\ nonce' \in Text(KeyLen) /\ nonce' # None /\ Bits(nonce')
      /\ Repeated(by, IdLen) \in Text(IdLen) /\ Me' = Repeated(by, IdLen)
  <2>1. nonce' \in Text(KeyLen) /\ Repeated(by, IdLen) \in Text(IdLen)
    BY <1>2, <1>4, Repeats
  <2>2. nonce' # None /\ Bits(nonce')
    BY <2>1, NoneIsNoText DEF Text, Bits, Byte
  <2> QED
    BY <2>1, <2>2 DEF Me
<1>6. m \in ClientMessages
  BY <1>4, <1>5 DEF ClientMessages
<1>7. m.type = "HELLO" /\ m.nonce = nonce' /\ m.client = Me'
  BY <1>5
<1> HIDE DEF m
<1>8. /\ toServer' # <<>> /\ Short(toServer')
      /\ UnderWay(toServer', Dummy, "HELLO", p, None)
  <2>1. p \in Data
    BY <1>6, ClientSent
  <2> HIDE DEF p
  <2> QED
    BY <1>2, <2>1, JustSent
<1>9. BytesOk'
  <2>1. process' \in 0..conns' /\ conns' \in 0..MaxConns
    BY <1>2, <1>3, <1>4
  <2>2. \A b \in {nonce', token', parts', hnonce', hclient', buffer'} : b # None => Bits(b)
    BY <1>1, <1>2, <1>5 DEF BytesOk
  <2>3. Short(toClient')
    BY <1>2 DEF Short
  <2>4. step' \in Waiting /\ up' \in BOOLEAN
    BY <1>2 DEF Waiting
  <2> QED
    BY <1>1, <1>2, <1>8, <2>1, <2>2, <2>3, <2>4 DEF BytesOk, Bits
<1>10. MemoryOk'
  <2>1. conns' > 0
    BY <1>2, <1>3
  <2>2. token' # None => <<token', Me'>> \in sessions'
    BY <1>1, <1>2, <1>5 DEF MemoryOk, FieldsOk, Me
  <2>3. {nonce', token', hnonce'} \subseteq Text(KeyLen) \cup {None}
    BY <1>1, <1>2, <1>5 DEF MemoryOk, FieldsOk
  <2>4. asked' \in ClientMessages
    BY <1>2, <1>6
  <2> QED
    BY <1>1, <1>2, <1>5, <2>1, <2>2, <2>3, <2>4 DEF MemoryOk, FieldsOk
<1>11. VersionsOk'
  <2>1. Pending' = 0
    BY <1>2, <1>7 DEF Pending
  <2> QED
    BY <1>1, <1>2, <2>1, SameVault
<1>12. HandlerOk'
  <2>1. Asking'
    BY <1>2, <1>7, <1>8 DEF Asking, AskKey, p
  <2>2. asked' \in ClientMessages /\ asked'.type \in Requests'
    BY <1>2, <1>6, <1>7 DEF Requests
  <2> QED
    BY <1>2, <1>7, <1>8, <2>1, <2>2 DEF HandlerOk
<1>13. ClientOk'
  BY <1>2, <1>8 DEF ClientOk, GreetingOk, OnlyAsked
<1> QED
  BY <1>9, <1>10, <1>11, <1>12, <1>13 DEF IInv, SessionInv

LEMMA OpensKeep ==
  ASSUME IInv, Start \/ Reconnect
  PROVE  IInv'
<1>1. 0 \in Fits(8) /\ base \in Fits(8)
  BY CountersFit DEF IInv, SessionInv, MemoryOk, FieldsOk
<1>2. CASE Start
  <2>1. Open(process + 1) /\ process' = process + 1 /\ token' = None /\ base' = 0
    BY <1>2 DEF Start
  <2> QED
    BY <1>1, <2>1, OpenKeeps
<1>3. CASE Reconnect
  <2>1. Open(process) /\ process' = process /\ token' = token /\ base' = base
    BY <1>3 DEF Reconnect
  <2> QED
    BY <1>1, <2>1, OpenKeeps
<1> QED
  BY <1>2, <1>3

-----------------------------------------------------------------------------
\* The environment, and save_cache.

LEMMA SaveKeeps ==
  ASSUME IInv, SaveCache
  PROVE  IInv'
<1>1. BytesOk /\ MemoryOk /\ VersionsOk /\ HandlerOk /\ ClientOk
  BY DEF IInv, SessionInv
<1>2. /\ step = "save" /\ step' = "idle"
      /\ UNCHANGED <<up, process, nonce, token, kmac, base, parts, state, hnonce, hclient, hkey, buffer,
                     sessions, lapsed, stored, toServer, toClient, conns, asked, heard, told, learnt,
                     askedSoFar>>
  BY DEF SaveCache, memory, handler, tables, queues
<1>3. BytesOk'
  <2>1. Short(toClient') /\ Short(toServer') /\ askedSoFar' \in 0..MaxAsked /\ up' \in BOOLEAN
    BY <1>1, <1>2 DEF BytesOk
  <2>2. step' \in Waiting \cup {"off", "first", "idle", "save"}
    BY <1>2
  <2> QED
    BY <1>1, <1>2, <2>1, <2>2, ClientTypesStay
<1>4. MemoryOk'
  BY <1>1, <1>2 DEF MemoryOk, FieldsOk, Me
<1>5. VersionsOk'
  BY <1>1, <1>2, SameVault DEF Pending
<1>6. HandlerOk'
  BY <1>1, <1>2, HandlerUndisturbed
<1>7. ClientOk'
  <2>1. up => RestOk'
    BY <1>1, <1>2 DEF ClientOk, RestOk
  <2> QED
    BY <1>2, <2>1 DEF ClientOk
<1> QED
  BY <1>3, <1>4, <1>5, <1>6, <1>7 DEF IInv, SessionInv

LEMMA KillKeeps ==
  ASSUME IInv, Kill
  PROVE  IInv'
<1>1. BytesOk /\ MemoryOk /\ VersionsOk /\ HandlerOk /\ ClientOk
  BY DEF IInv, SessionInv
<1>2. /\ step' = "off" /\ up' = FALSE
      /\ UNCHANGED <<process, nonce, token, kmac, base, parts, state, hnonce, hclient, hkey, buffer,
                     sessions, lapsed, stored, toServer, toClient, conns, asked, heard, told, learnt,
                     askedSoFar>>
  BY DEF Kill, memory, handler, tables, queues
<1>3. BytesOk'
  <2>1. Short(toClient') /\ Short(toServer') /\ askedSoFar' \in 0..MaxAsked
    BY <1>1, <1>2 DEF BytesOk
  <2>2. step' \in Waiting \cup {"off", "first", "idle", "save"}
    BY <1>2
  <2> QED
    BY <1>1, <1>2, <2>1, <2>2, ClientTypesStay
<1>4. MemoryOk'
  BY <1>1, <1>2 DEF MemoryOk, FieldsOk, Me
<1>5. VersionsOk'
  BY <1>1, <1>2, SameVault DEF Pending
<1>6. HandlerOk'
  BY <1>1, <1>2, HandlerUndisturbed
<1>7. ClientOk'
  BY <1>2 DEF ClientOk
<1> QED
  BY <1>3, <1>4, <1>5, <1>6, <1>7 DEF IInv, SessionInv

LEMMA BreakKeeps ==
  ASSUME IInv, LinkBreaks
  PROVE  IInv'
<1>1. BytesOk /\ MemoryOk /\ VersionsOk /\ HandlerOk /\ ClientOk
  BY DEF IInv, SessionInv
<1>2. /\ up /\ up' = FALSE /\ parts' = None /\ toServer' = <<>> /\ toClient' = <<>> /\ state' = "closed"
      /\ step' \in {step, "off", "idle"} /\ (step' = step \/ step' # "save")
      /\ UNCHANGED <<process, nonce, token, kmac, base, hnonce, hclient, hkey, buffer,
                     sessions, lapsed, stored, conns, asked, heard, told, learnt, askedSoFar>>
  BY DEF LinkBreaks, memory, tables
<1>3. BytesOk'
  <2>1. Short(toClient') /\ Short(toServer')
    BY <1>2 DEF Short
  <2>2. \A b \in {nonce', token', parts', hnonce', hclient', buffer'} : b # None => Bits(b)
    BY <1>1, <1>2 DEF BytesOk
  <2> QED
    BY <1>1, <1>2, <2>1, <2>2 DEF BytesOk, Bits
<1>4. MemoryOk'
  BY <1>1, <1>2 DEF MemoryOk, FieldsOk, Me
<1>5. VersionsOk'
  BY <1>1, <1>2, SameVault DEF Pending
<1>6. HandlerOk'
  BY <1>2 DEF HandlerOk
<1>7. ClientOk'
  BY <1>1, <1>2 DEF ClientOk
<1> QED
  BY <1>3, <1>4, <1>5, <1>6, <1>7 DEF IInv, SessionInv

LEMMA LapseKeeps ==
  ASSUME IInv, Lapse \/ UNCHANGED vars
  PROVE  IInv'
<1>1. UNCHANGED <<step, up, process, nonce, token, kmac, base, parts, state, hnonce, hclient, hkey, buffer,
                  sessions, stored, toServer, toClient, conns, asked, told, learnt, askedSoFar>>
  BY DEF Lapse, vars, memory, handler, tables, queues
<1>2. BytesOk /\ MemoryOk /\ VersionsOk /\ HandlerOk /\ ClientOk
  BY DEF IInv, SessionInv
<1>3. BytesOk'
  BY <1>1, <1>2 DEF BytesOk
<1>4. MemoryOk'
  BY <1>1, <1>2 DEF MemoryOk, FieldsOk, Me
<1>5. VersionsOk'
  BY <1>1, <1>2, SameVault DEF Pending
<1>6. HandlerOk'
  BY <1>1, <1>2, HandlerUndisturbed
<1>7. ClientOk'
  <2>1. Telling' = Telling /\ Answers' = Answers /\ ServerNonce' = ServerNonce
    BY <1>1 DEF Telling, TellKey, Answers, ServerNonce
  <2>2. GreetingOk' = GreetingOk /\ LoginOk' = LoginOk /\ RequestOk' = RequestOk /\ RestOk' = RestOk
    BY <1>1, <2>1 DEF GreetingOk, LoginOk, RequestOk, RestOk, OnlyAsked, OnlyTold
  <2> QED
    BY <1>1, <1>2, <2>2 DEF ClientOk
<1> QED
  BY <1>3, <1>4, <1>5, <1>6, <1>7 DEF IInv, SessionInv

-----------------------------------------------------------------------------
\* The theorems.

LEMMA NextIInv == IInv /\ [Next]_vars => IInv'
<1> SUFFICES ASSUME IInv, [Next]_vars PROVE IInv'
  OBVIOUS
<1>1. CASE Start \/ Reconnect
  BY <1>1, OpensKeep
<1>2. CASE SendAuth
  BY <1>2, SendAuthKeeps
<1>3. CASE ReadAuthOk
  BY <1>3, AuthOkKeeps
<1>4. CASE ReadAuthFail
  BY <1>4, AuthFailKeeps
<1>5. CASE AskGet \/ AskPut \/ AskPing
  BY <1>5, RequestsKeep
<1>6. CASE Bye
  BY <1>6, SayByeKeeps
<1>7. CASE ReadFragment
  BY <1>7, ReadFragmentKeeps
<1>8. CASE ReadData \/ ReadAck \/ ReadOther
  BY <1>8, DataKeeps
<1>9. CASE SaveCache
  BY <1>9, SaveKeeps
<1>10. CASE HandlerRefuses
  BY <1>10, RefusesKeeps
<1>11. CASE HandlerKeeps
  BY <1>11, FragmentKeeps
<1>12. CASE HandleHello
  BY <1>12, HelloKeeps
<1>13. CASE HandleAuth
  BY <1>13, AuthKeeps
<1>14. CASE HandlePing
  BY <1>14, PingKeeps
<1>15. CASE HandleBye
  BY <1>15, ByeKeeps
<1>16. CASE HandleGet
  BY <1>16, GetKeeps
<1>17. CASE HandlePut
  BY <1>17, PutKeeps
<1>18. CASE LinkBreaks
  BY <1>18, BreakKeeps
<1>19. CASE Kill
  BY <1>19, KillKeeps
<1>20. CASE Lapse \/ UNCHANGED vars
  BY <1>20, LapseKeeps
<1> QED
  BY <1>1, <1>2, <1>3, <1>4, <1>5, <1>6, <1>7, <1>8, <1>9, <1>10, <1>11, <1>12, <1>13, <1>14, <1>15, <1>16,
     <1>17, <1>18, <1>19, <1>20 DEF Next

\* What the server hears is what the client meant: nothing else changes heard, but
\* Ask, which empties it.
LEMMA HeardIsAsked ==
  ASSUME IInv, [Next]_vars
  PROVE  heard' \in {None, heard} \/ heard' = asked
<1>1. \A type : Hears(type) => heard' = asked
  BY Hearing DEF HearsIt
<1> QED
  BY <1>1
     DEF Next, vars, memory, handler, tables, queues, Start, Reconnect, Open, SendAuth, Ask, ReadAuthOk,
         ReadAuthFail, AskGet, AskPut, AskPing, Request, Bye, ReadFragment, ReadData, ReadAck, ReadOther,
         SaveCache, HandlerRefuses, HandlerKeeps, HandleHello, HandleAuth, HandlePing, HandleBye,
         HandleGet, HandlePut, LinkBreaks, Kill, Lapse

\* The keys are of the types of the tokens and nonces they are derived from.
LEMMA ClientKeyTyped ==
  ASSUME IInv, KeysOk, [Next]_vars
  PROVE  kmac' # None => kmac' \in Text(KeyLen) \X Text(KeyLen)
<1>1. CASE kmac' \in {kmac, None}
  BY <1>1 DEF KeysOk
<1>2. CASE ReadAuthOk
  <2>1. LearnsIt("AUTH_OK") /\ kmac' = <<learnt'.token, nonce>>
    BY <1>2, Learning DEF ReadAuthOk, SessionKey
  <2>2. step = "auth" /\ up /\ learnt' = told /\ told.token \in Text(KeyLen)
    <3>1. told \in ServerMessages /\ told.type = "AUTH_OK" /\ learnt' = told /\ step \in Waiting /\ Awaited /\ up
      BY <2>1 DEF LearnsIt, Awaited
    <3>2. step = "auth"
      BY <3>1 DEF Awaited, Answers, Waiting
    <3> QED
      BY <3>1, <3>2 DEF Awaited
  <2>3. nonce \in Text(KeyLen)
    BY <2>2 DEF IInv, SessionInv, MemoryOk, FieldsOk
  <2> QED
    BY <2>1, <2>2, <2>3
<1>3. kmac' \in {kmac, None} \/ ReadAuthOk
  BY DEF Next, vars, memory, handler, tables, queues, Start, Reconnect, Open, SendAuth, Answered, Ask,
         ReadAuthFail, AskGet, AskPut, AskPing, Request, Bye, ReadFragment, ReadData, ReadAck, ReadOther,
         SaveCache, HandlerRefuses, HandlerKeeps, HandlerReads, Hears, HandleHello, HandleAuth, HandlePing,
         HandleBye, HandleGet, HandlePut, LinkBreaks, Kill, Lapse
<1> QED
  BY <1>1, <1>2, <1>3

LEMMA HandlerKeyTyped ==
  ASSUME IInv, KeysOk, [Next]_vars
  PROVE  hkey' # None => hkey' \in Text(KeyLen) \X Text(KeyLen)
<1>1. CASE hkey' = hkey
  BY <1>1 DEF KeysOk
<1>2. CASE HandleAuth /\ hkey' = <<Repeated(conns, KeyLen), hnonce>>
  <2>1. BytesOk /\ MemoryOk /\ HandlerOk
    BY DEF IInv, SessionInv
  <2>2. state # "closed" /\ "AUTH" \in Requests
    BY <1>2, Hearing DEF HandleAuth, HearsIt
  <2>3. state = "AUTHENTICATING"
    BY <2>1, <2>2 DEF Requests, BytesOk
  <2>4. hnonce \in Text(KeyLen)
    BY <2>1, <2>3 DEF HandlerOk, MemoryOk, FieldsOk
  <2>5. conns \in Byte /\ KeyLen \in Nat
    BY <2>1, MeIs, CountersFit, WireAssumption DEF Byte
  <2>6. Repeated(conns, KeyLen) \in Text(KeyLen)
    BY <2>5, Repeats
  <2> QED
    BY <1>2, <2>4, <2>6
<1>3. hkey' = hkey \/ (HandleAuth /\ hkey' = <<Repeated(conns, KeyLen), hnonce>>)
  BY DEF Next, vars, memory, handler, tables, queues, Start, Reconnect, Open, SendAuth, Answered, Ask, ReadAuthOk,
         ReadAuthFail, AskGet, AskPut, AskPing, Request, Bye, ReadFragment, ReadData, ReadAck, ReadOther,
         SaveCache, HandlerRefuses, HandlerKeeps, HandlerReads, Hears, HandleHello, HandleAuth, HandlePing,
         HandleBye, HandleGet, HandlePut, LinkBreaks, Kill, Lapse
<1> QED
  BY <1>1, <1>2, <1>3

LEMMA NextKeys == IInv /\ KeysOk /\ [Next]_vars => KeysOk'
<1> SUFFICES ASSUME IInv, KeysOk, [Next]_vars PROVE KeysOk'
  OBVIOUS
<1>1. FieldsOk
  BY DEF IInv, SessionInv, MemoryOk
<1>2. heard' \in ClientMessages \cup {None}
  BY <1>1, HeardIsAsked DEF FieldsOk, KeysOk
<1>3. lapsed' \subseteq Text(KeyLen)
  <2>1. lapsed' = lapsed \/ (token # None /\ lapsed' = lapsed \cup {token})
    BY DEF Next, vars, memory, handler, tables, queues, Start, Reconnect, Open, SendAuth, Answered, Ask, ReadAuthOk,
           ReadAuthFail, AskGet, AskPut, AskPing, Request, Bye, ReadFragment, ReadData, ReadAck, ReadOther,
           SaveCache, HandlerRefuses, HandlerKeeps, HandlerReads, Hears, HandleHello, HandleAuth, HandlePing,
           HandleBye, HandleGet, HandlePut, LinkBreaks, Kill, Lapse
  <2> QED
    BY <1>1, <2>1 DEF FieldsOk, KeysOk
<1> QED
  BY <1>2, <1>3, ClientKeyTyped, HandlerKeyTyped DEF KeysOk

\* What client and server remember, under way and in the database, keeps its type
\* through logins, refreshes and broken connections: session keys are whole tokens
\* with whole nonces, and the messages that were meant and understood have room in
\* their fields (class Client, handle_client, the _parse functions).
THEOREM SessionTyped == Spec => []TypeOk
<1>1. Init => KeysOk
  BY DEF Init, KeysOk
<1>2. IInv /\ KeysOk => TypeOk
  BY DEF IInv, SessionInv, MemoryOk, TypeOk
<1> QED
  BY <1>1, <1>2, InitIInv, NextIInv, NextKeys, PTL DEF Spec

\* Why the rest is so: one message is under way, whole or in part, and each side
\* knows the key it is signed with (class Client, handle_client).
THEOREM SessionInStep == Spec => []SessionInv
<1>1. Spec => []IInv
  BY InitIInv, NextIInv, PTL DEF Spec
<1>2. IInv => SessionInv
  BY DEF IInv
<1> QED
  BY <1>1, <1>2, PTL

\* Whatever the lengths of keys, ids, frames and vaults are, and however often the
\* connection breaks, the process dies or the token changes, neither side refuses a
\* frame the other sends, but a vault larger than MAX_VAULT_BLOB_BYTES, and a login
\* fails for a token that has expired only (_expect, decode, handle_client,
\* _derive_mac_key, _compute_kmac).
THEOREM OnlyOversizeRefused == Spec => []OnlyOversizeIsRefused
<1>1. Spec => []IInv
  BY InitIInv, NextIInv, PTL DEF Spec
<1> QED
  BY <1>1, NothingElseRefused, PTL

\* Never does a client wait for a handler that waits for it: put_vault and
\* _send_fragmented_payload mark a frame as the last that their reader takes for it,
\* whatever the length.
THEOREM NeverStill == Spec => []NoStandstill
<1>1. Spec => []IInv
  BY InitIInv, NextIInv, PTL DEF Spec
<1> QED
  BY <1>1, NeverBothWaiting, PTL

\* The cache a client writes is one it loads, and no part of it is (save_cache,
\* load_cache).
THEOREM CacheIsWhole == Spec => []OnlyWholeCacheLoads
<1>1. Spec => []IInv
  BY InitIInv, NextIInv, PTL DEF Spec
<1> QED
  BY <1>1, CacheLoadsAsSaved, PTL

\* Each side takes a message for what the other meant: a vault is put together from
\* its frames as it was cut (the _parse functions, fetch_vault, handle_client).
THEOREM SidesUnderstand == Spec => Understood
<1> DEFINE Same == /\ heard' \notin {None, heard} => heard' = asked
                   /\ step \in Waiting /\ step' # step /\ up' => learnt' = told
<1>1. ASSUME IInv, [Next]_vars PROVE [Same]_vars
  <2>1. heard' \in {None, heard} \/ heard' = asked
    BY <1>1, HeardIsAsked
  <2>2. step \in Waiting /\ step' # step /\ up' => learnt' = told
    <3>1. \A type : Answered(type) /\ type # "AUTH_FAIL" => learnt' = told
      BY <1>1, Learning DEF LearnsIt
    <3> QED
      BY <1>1, <3>1
         DEF Next, vars, Start, Reconnect, SendAuth, ReadAuthOk, ReadAuthFail, AskGet, AskPut, AskPing, Bye,
             ReadFragment, ReadData, ReadAck, ReadOther, SaveCache, HandlerRefuses, HandlerKeeps, HandlerReads,
             Hears, HandleHello, HandleAuth, HandlePing, HandleBye, HandleGet, HandlePut, LinkBreaks, Kill,
             Lapse, Waiting
  <2> QED
    BY <2>1, <2>2
<1>2. Spec => []IInv
  BY InitIInv, NextIInv, PTL DEF Spec
<1> QED
  BY <1>1, <1>2, PTL DEF Spec, Understood
=============================================================================
