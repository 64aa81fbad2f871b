----------------------------- MODULE FrameStream -----------------------------
(***************************************************************************)
(* The byte stream under one established connection: how handle_client and *)
(* _read_frame of server-py/server.py cut it into frames, reassemble       *)
(* fragmented VAULT_PUTs and time out, while a client uploads vaults over  *)
(* a link that may be slow or go silent for ever.                          *)
(*                                                                         *)
(* A frame travels as two units, its header and the rest (payload and      *)
(* HMAC), because readexactly is called for each and consumes nothing      *)
(* until all its bytes are there.  Time is counted in ticks from the       *)
(* events the code measures from.                                          *)
(***************************************************************************)
EXTENDS Naturals, Sequences

CONSTANTS
  Sizes,        \* the fragments of the vaults the client uploads, one after the other
  MaxFrags,     \* MAX_FRAGMENTED_VAULT_PUT_BYTES, in fragments
  FragTimeout,  \* FRAGMENT_TIMEOUT_SECONDS, in ticks
  IdleTimeout   \* IDLE_TIMEOUT_SECONDS, in ticks

ASSUME SizesAssumption == Sizes \in Seq(Nat \ {0})
ASSUME TimeoutsAssumption == {MaxFrags, FragTimeout, IdleTimeout} \subseteq Nat \ {0}

VARIABLES
  sending,  \* what the client sends next: [put, frag, kind]
  waiting,  \* the client waits for the VAULT_ACK
  gone,     \* the client has vanished without closing the connection
  wire,     \* units sent and not yet read
  part,     \* the header the running _read_frame has consumed, a frame as one unit
  buf,      \* fragmented_put_buffer; <<>> is None
  timeout,  \* read_timeout of the running wait_for(_read_frame)
  readAge,  \* ticks since it was called
  fragAge,  \* ticks since the first fragment in buf
  silent,   \* history: ticks since the last whole frame
  status,   \* "open", or why the server closed the connection
  got       \* history: the payloads handed to the vault check

clientVars == <<sending, waiting, gone>>
vars == <<sending, waiting, gone, wire, part, buf, timeout, readAge, fragAge, silent, status, got>>

Nothing == [put |-> 0, frag |-> 0, kind |-> "none"]
Garbage == [put |-> 0, frag |-> 0, kind |-> "garbage"]
Puts == 1..Len(Sizes)
Fragment == [put : Puts, frag : Nat]
Unit == [put : Puts, frag : Nat, kind : {"header", "rest"}]

TypeOk ==
  /\ sending \in [put : Nat, frag : Nat, kind : {"header", "rest"}]
  /\ waiting \in BOOLEAN /\ gone \in BOOLEAN
  /\ wire \in Seq(Unit)
  /\ part \in Unit \cup {Nothing, Garbage}
  /\ buf \in Seq(Fragment) /\ Len(buf) <= MaxFrags
  /\ timeout \in 0..IdleTimeout
  /\ readAge \in 0..IdleTimeout
  /\ fragAge \in 0..(FragTimeout + 1)
  /\ silent \in 0..(IdleTimeout + FragTimeout)
  /\ status \in {"open", "idle", "format", "hmac"}
  /\ got \in Seq(Seq(Fragment))

Init ==
  /\ sending = [put |-> 1, frag |-> 1, kind |-> "header"]
  /\ waiting = FALSE
  /\ gone = FALSE
  /\ wire = <<>>
  /\ part = Nothing
  /\ buf = <<>>
  /\ timeout = IdleTimeout
  /\ readAge = 0
  /\ fragAge = 0
  /\ silent = 0
  /\ status = "open"
  /\ got = <<>>

-----------------------------------------------------------------------------
\* The client: put_vault sends the fragments of a vault and waits for its ACK.

Fragmented(put) == Sizes[put] > 1

AfterUnit(u) ==
  IF u.kind = "header" THEN [u EXCEPT !.kind = "rest"]
  ELSE IF u.frag < Sizes[u.put] THEN [put |-> u.put, frag |-> u.frag + 1, kind |-> "header"]
  ELSE [put |-> u.put + 1, frag |-> 1, kind |-> "header"]

ClientSends ==
  /\ ~gone /\ ~waiting /\ status = "open"
  /\ sending.put \in Puts
  /\ wire' = Append(wire, sending)
  /\ sending' = AfterUnit(sending)
  /\ waiting' = (sending'.put # sending.put)
  /\ UNCHANGED <<gone, part, buf, timeout, readAge, fragAge, silent, status, got>>

ClientVanishes ==
  /\ ~gone /\ status = "open"
  /\ gone' = TRUE
  /\ UNCHANGED <<sending, waiting, wire, part, buf, timeout, readAge, fragAge, silent, status, got>>

-----------------------------------------------------------------------------
\* The read loop.

Close(why) ==
  /\ status' = why
  /\ buf' = <<>> /\ part' = Nothing /\ wire' = <<>>
  /\ timeout' = IdleTimeout /\ readAge' = 0 /\ fragAge' = 0

\* Mutants: the age of buffered fragments does not shorten the read; a read
\* without fragments waits for ever.
ReadTimeoutIdle(b, age) == IdleTimeout
DueWithFragments == buf # <<>> /\ readAge >= timeout

ReadTimeout(b, age) ==
  IF b = <<>> THEN IdleTimeout
  ELSE IF age >= FragTimeout THEN 0
  ELSE IF FragTimeout - age < IdleTimeout THEN FragTimeout - age
  ELSE IdleTimeout
Due == readAge >= timeout

\* The top of the loop: the next read begins.
NextRead(b, age) ==
  /\ buf' = b
  /\ fragAge' = age
  /\ timeout' = ReadTimeout(b, age)
  /\ readAge' = 0
  /\ part' = Nothing

\* The header of the next frame.  After a read that was cancelled between
\* header and rest, the rest is taken for a header: its length field is too
\* large, or the frame cut from it fails its HMAC once it is complete.
ReadHeader ==
  /\ status = "open" /\ part = Nothing /\ wire # <<>> /\ timeout > 0
  /\ \/ /\ Head(wire).kind = "header"
        /\ part' = Head(wire)
        /\ wire' = Tail(wire)
        /\ UNCHANGED <<buf, timeout, readAge, fragAge, status>>
     \/ /\ Head(wire).kind = "rest"
        /\ part' = Garbage
        /\ wire' = Tail(wire)
        /\ UNCHANGED <<buf, timeout, readAge, fragAge, status>>
     \/ /\ Head(wire).kind = "rest"
        /\ Close("format")
  /\ UNCHANGED <<clientVars, silent, got>>

ReadGarbage ==
  /\ status = "open" /\ part = Garbage /\ wire # <<>>
  /\ \/ Close("hmac")
     \/ /\ wire' = Tail(wire)
        /\ UNCHANGED <<part, buf, timeout, readAge, fragAge, status>>
  /\ UNCHANGED <<clientVars, silent, got>>

\* Mutants: blob_len is not compared with the length; the buffer is left full;
\* its size is checked before the fragment is added.
WholeAnything(payload) == TRUE
BufferAfterLastKept(payload) == payload
TooLargeBefore(payload) == Len(payload) - 1 > MaxFrags

\* _parse_vault_put_payload: only the fragments of one vault, all of them and
\* in order, have the length their first fragment announces.
Whole(payload) ==
  \E p \in Puts : payload = [f \in 1..Sizes[p] |-> [put |-> p, frag |-> f]]
BufferAfterLast(payload) == <<>>
TooLarge(payload) == Len(payload) > MaxFrags

Vault(payload) ==
  /\ Whole(payload)
  /\ got' = Append(got, payload)
  /\ waiting' = FALSE
  /\ UNCHANGED status

\* A whole frame: one VAULT_PUT, or a fragment of one.
ReadRest ==
  LET x == [put |-> part.put, frag |-> part.frag]
      all == Append(buf, x)
      last == part.frag = Sizes[part.put]
  IN
  /\ status = "open" /\ part \in Unit /\ wire # <<>>
  /\ silent' = 0
  /\ UNCHANGED <<sending, gone>>
  /\ \/ /\ ~Fragmented(part.put)
        /\ Vault(<<x>>)
        /\ NextRead(buf, fragAge)
        /\ wire' = Tail(wire)
     \/ /\ Fragmented(part.put) /\ ~TooLarge(all) /\ ~last
        /\ NextRead(all, IF buf = <<>> THEN 0 ELSE fragAge)
        /\ wire' = Tail(wire)
        /\ UNCHANGED <<waiting, status, got>>
     \/ /\ Fragmented(part.put) /\ ~TooLarge(all) /\ last
        /\ Vault(all)
        /\ NextRead(BufferAfterLast(all), 0)
        /\ wire' = Tail(wire)
     \/ /\ Fragmented(part.put)
        /\ TooLarge(all) \/ (last /\ ~Whole(all))
        /\ Close("format")
        /\ UNCHANGED <<waiting, got>>

\* A timeout with buffered fragments drops the incomplete VAULT_PUT, and with
\* the cancelled read the header it had consumed.
FragmentTimesOut ==
  /\ status = "open" /\ Due
  /\ buf # <<>> /\ fragAge >= FragTimeout
  /\ NextRead(<<>>, 0)
  /\ UNCHANGED <<clientVars, wire, silent, status, got>>

IdleTimesOut ==
  /\ status = "open" /\ Due
  /\ ~(buf # <<>> /\ fragAge >= FragTimeout)
  /\ Close("idle")
  /\ UNCHANGED <<clientVars, silent, got>>

\* Timers fire on time.
UpTo(n, bound) == IF n < bound THEN n + 1 ELSE n
Tick ==
  /\ status = "open" /\ ~Due
  /\ readAge' = UpTo(readAge, IdleTimeout)
  /\ fragAge' = IF buf = <<>> THEN 0 ELSE UpTo(fragAge, FragTimeout + 1)
  /\ silent' = UpTo(silent, IdleTimeout + FragTimeout)
  /\ UNCHANGED <<clientVars, wire, part, buf, timeout, status, got>>

Closed == status # "open" /\ UNCHANGED vars

ServerStep == ReadHeader \/ ReadGarbage \/ ReadRest \/ FragmentTimesOut \/ IdleTimesOut

Next == ClientSends \/ ClientVanishes \/ ServerStep \/ Tick \/ Closed

Spec == Init /\ [][Next]_vars

\* The server runs, its timers fire and time passes.
FairSpec == Spec /\ WF_vars(ServerStep) /\ WF_vars(Tick)

-----------------------------------------------------------------------------
\* Why the safety properties are invariant.

\* The upload under way, and the next unit the server will read.
Current == Len(got) + 1
Ahead == IF wire = <<>> THEN sending ELSE Head(wire)

\* The client is at most one upload ahead of the server.
UploadOrder ==
  /\ sending.put = Current =>
       ~waiting /\ sending.frag \in 1..(IF Current \in Puts THEN Sizes[Current] ELSE 1)
  /\ sending.put # Current =>
       waiting /\ sending = [put |-> Current + 1, frag |-> 1, kind |-> "header"]

\* On the wire are consecutive units of that upload, up to what is sent next.
WireOrder ==
  /\ \A i \in 1..Len(wire) : wire[i].put = Current /\ wire[i].frag \in 1..Sizes[Current]
  /\ \A i \in 1..(Len(wire) - 1) : wire[i + 1] = AfterUnit(wire[i])
  /\ wire # <<>> => sending = AfterUnit(wire[Len(wire)])

\* A header is followed by its rest: a read only starts elsewhere after a timeout.
PartOrder ==
  part \in Unit =>
    /\ part.kind = "header" /\ part.put = Current /\ part.frag \in 1..Sizes[Current]
    /\ Ahead = AfterUnit(part)

\* The buffered fragments lie directly before what is read next.
BufOrder ==
  buf # <<>> =>
    LET next == buf[1].frag + Len(buf)
    IN  /\ \A k \in DOMAIN buf : buf[k].put = Current /\ buf[k].frag = buf[1].frag + k - 1
        /\ buf[1].frag > 0 /\ next <= Sizes[Current]
        /\ part \in Unit => part.frag = next
        /\ part = Nothing => Ahead = [put |-> Current, frag |-> next, kind |-> "header"]
        /\ part # Garbage

\* The running read ends before the buffered fragments are overdue.
ClocksInv ==
  /\ readAge <= timeout
  /\ buf # <<>> => fragAge + timeout <= FragTimeout + readAge

StreamInv == UploadOrder /\ WireOrder /\ PartOrder /\ BufOrder /\ ClocksInv

-----------------------------------------------------------------------------
\* Properties.

\* Only whole vaults are stored, each at most once and in the order they were
\* sent, whatever was dropped, cut or misread (server.py:92-104, 330-366, 580-609).
OnlyWholePuts ==
  \A n \in DOMAIN got : got[n] = [f \in 1..Sizes[n] |-> [put |-> n, frag |-> f]]

\* The buffer only holds fragments of one vault in the order they were sent,
\* none missing between them.
BufferIsRun ==
  \A k \in DOMAIN buf :
    /\ buf[k].put = buf[1].put
    /\ buf[k].frag = buf[1].frag + k - 1

\* Incomplete fragments are held for FRAGMENT_TIMEOUT_SECONDS at most, however
\* their arrival, other reads and timeouts interleave (server.py:330-366).
BufferExpires == buf # <<>> => fragAge <= FragTimeout

\* The session of a client that vanished without a word is ended, wherever in
\* a frame or an upload it stopped.
VanishedIsClosed == gone ~> (status # "open")

\* SecVault_etap1.md:337: a session without a frame for 90 s is ended.
SilenceIsBounded == status = "open" => silent <= IdleTimeout

\* SecVault_etap1.md:343: the rest of a frame whose header was read is waited
\* for, so the bytes after it are never taken for another header.
FramesStayAligned == part # Garbage
=============================================================================
