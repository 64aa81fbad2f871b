-------------------------- MODULE FrameStream_proofs --------------------------
(***************************************************************************)
(* Proofs about the reassembly of fragmented uploads and its timeouts, for *)
(* any sequence of uploads, any buffer limit and any two time limits.      *)
(*                                                                         *)
(* StreamInv says where the stream stands: what is on the wire, the header *)
(* the running read has consumed, the buffered fragments and the client's  *)
(* place in its upload are consecutive, unless a timeout has thrown the    *)
(* buffer away, and then the rest of that upload can never become whole.   *)
(***************************************************************************)
EXTENDS FrameStream, SequenceTheorems, TLAPS

Inv == TypeOk /\ StreamInv

LEMMA EmptyLen ==
  ASSUME NEW S, NEW s \in Seq(S)
  PROVE  s = <<>> <=> Len(s) = 0
<1>1. s # <<>> => Len(s) # 0
  BY EmptySeq
<1>2. s = <<>> => Len(s) = 0
  BY EmptySeq, Zenon
<1> QED
  BY <1>1, <1>2

LEMMA EmptyDomain == \A s : s = <<>> => DOMAIN s = {}
  OBVIOUS

LEMMA HeadTail ==
  ASSUME NEW S, NEW s \in Seq(S), s # <<>>
  PROVE  /\ Len(s) \in Nat \ {0}
         /\ Head(s) = s[1] /\ s[1] \in S
         /\ Tail(s) \in Seq(S) /\ Len(Tail(s)) = Len(s) - 1
         /\ \A i \in 1..(Len(s) - 1) : Tail(s)[i] = s[i + 1]
         /\ Tail(s) = <<>> <=> Len(s) = 1
<1>1. Len(s) \in Nat \ {0}
  BY EmptySeq
<1>2. Head(s) = s[1] /\ s[1] \in S
  BY <1>1
<1> DEFINE t == Tail(s)
<1>3. t \in Seq(S) /\ Len(t) = Len(s) - 1
  BY HeadTailProperties
<1>4. \A i \in 1..(Len(s) - 1) : t[i] = s[i + 1]
  BY <1>3, HeadTailProperties
<1>5. t = <<>> <=> Len(s) = 1
  <2> HIDE DEF t
  <2>1. t = <<>> <=> Len(t) = 0
    BY <1>3, EmptyLen
  <2> QED
    BY <1>1, <1>3, <2>1
<1> QED
  BY <1>1, <1>2, <1>3, <1>4, <1>5

LEMMA AppendLast ==
  ASSUME NEW S, NEW s \in Seq(S), NEW e \in S
  PROVE  /\ Append(s, e) \in Seq(S) /\ Append(s, e) # <<>>
         /\ Len(s) \in Nat /\ Len(Append(s, e)) = Len(s) + 1
         /\ Append(s, e)[Len(s) + 1] = e
         /\ \A i \in 1..Len(s) : Append(s, e)[i] = s[i]
  OBVIOUS

LEMMA ConstantsTyped ==
  /\ Len(Sizes) \in Nat /\ \A p \in Puts : p \in Nat \ {0} /\ Sizes[p] \in Nat \ {0}
  /\ MaxFrags \in Nat \ {0} /\ FragTimeout \in Nat \ {0} /\ IdleTimeout \in Nat \ {0}
  BY SizesAssumption, TimeoutsAssumption DEF Puts

LEMMA AfterUnitIs ==
  ASSUME NEW u \in Unit
  PROVE  AfterUnit(u) =
           IF u.kind = "header" THEN [put |-> u.put, frag |-> u.frag, kind |-> "rest"]
           ELSE IF u.frag < Sizes[u.put] THEN [put |-> u.put, frag |-> u.frag + 1, kind |-> "header"]
           ELSE [put |-> u.put + 1, frag |-> 1, kind |-> "header"]
  BY DEF AfterUnit, Unit

LEMMA UnitShape ==
  ASSUME NEW u \in Unit
  PROVE  /\ u = [put |-> u.put, frag |-> u.frag, kind |-> u.kind]
         /\ u.put \in Puts /\ u.frag \in Nat /\ u.kind \in {"header", "rest"}
         /\ u # Nothing /\ u # Garbage
  BY DEF Unit, Nothing, Garbage

\* Reading a unit moves on to the one that follows it.
LEMMA ReadsAhead ==
  ASSUME TypeOk, WireOrder, wire # <<>>, wire' = Tail(wire), sending' = sending
  PROVE  /\ Ahead = Head(wire) /\ Head(wire) \in Unit
         /\ Head(wire).put = Current /\ Head(wire).frag \in 1..Sizes[Current]
         /\ Ahead' = AfterUnit(Head(wire))
         /\ wire' \in Seq(Unit)
         /\ wire' # <<>> => Ahead'.put = Current
         /\ got' = got => WireOrder'
<1>1. /\ Len(wire) \in Nat \ {0} /\ Head(wire) = wire[1] /\ wire[1] \in Unit
      /\ wire' \in Seq(Unit) /\ Len(wire') = Len(wire) - 1
      /\ \A i \in 1..(Len(wire) - 1) : wire'[i] = wire[i + 1]
      /\ wire' = <<>> <=> Len(wire) = 1
  BY HeadTail DEF TypeOk
<1>2. Ahead' = AfterUnit(wire[1]) /\ (wire' # <<>> => Ahead'.put = Current)
  <2>1. CASE wire' = <<>>
    BY <1>1, <2>1 DEF Ahead, WireOrder
  <2>2. CASE wire' # <<>>
    <3>1. Head(wire') = wire'[1]
      BY <1>1, <2>2, HeadTail
    <3> QED
      BY <1>1, <2>2, <3>1 DEF Ahead, WireOrder
  <2> QED
    BY <2>1, <2>2
<1>3. got' = got => WireOrder'
  <2> SUFFICES ASSUME got' = got
               PROVE  WireOrder'
    OBVIOUS
  <2>1. Current' = Current
    BY DEF Current
  <2>2. ASSUME NEW i \in 1..Len(wire')
        PROVE  wire'[i].put = Current /\ wire'[i].frag \in 1..Sizes[Current]
    BY <1>1 DEF WireOrder
  <2>3. ASSUME NEW i \in 1..(Len(wire') - 1)
        PROVE  wire'[i + 1] = AfterUnit(wire'[i])
    <3>1. i + 1 \in 1..(Len(wire) - 1)
      BY <1>1
    <3> QED
      BY <1>1, <3>1 DEF WireOrder
  <2>4. wire' # <<>> => sending = AfterUnit(wire'[Len(wire')])
    BY <1>1 DEF WireOrder
  <2> QED
    BY <2>1, <2>2, <2>3, <2>4 DEF WireOrder, AfterUnit
<1> QED
  BY <1>1, <1>2, <1>3 DEF Ahead, WireOrder

LEMMA InitInv == Init => Inv
<1> SUFFICES ASSUME Init PROVE Inv
  OBVIOUS
<1> USE ConstantsTyped DEF Init
<1>1. TypeOk
  <2>1. wire \in Seq(Unit) /\ buf \in Seq(Fragment) /\ Len(buf) = 0 /\ got \in Seq(Seq(Fragment))
    BY EmptySeq, Zenon
  <2>2. sending \in [put : Nat, frag : Nat, kind : {"header", "rest"}] /\ timeout \in 0..IdleTimeout
    OBVIOUS
  <2>3. /\ waiting \in BOOLEAN /\ gone \in BOOLEAN
        /\ part \in Unit \cup {Nothing, Garbage}
        /\ status \in {"open", "idle", "format", "hmac"}
    OBVIOUS
  <2>4. Len(buf) <= MaxFrags /\ readAge \in 0..IdleTimeout
    BY <2>1
  <2>5. fragAge \in 0..(FragTimeout + 1) /\ silent \in 0..(IdleTimeout + FragTimeout)
    OBVIOUS
  <2> QED
    BY <2>1, <2>2, <2>3, <2>4, <2>5, Zenon DEF TypeOk
<1>2. Len(got) = 0 /\ Len(wire) = 0
  OBVIOUS
<1>3. UploadOrder
  BY <1>2 DEF UploadOrder, Current
<1>4. WireOrder /\ PartOrder /\ BufOrder /\ ClocksInv
  BY <1>2, UnitShape DEF WireOrder, PartOrder, BufOrder, ClocksInv
<1> QED
  BY <1>1, <1>3, <1>4 DEF Inv, StreamInv

\* A closed connection holds nothing.
LEMMA CloseInv ==
  ASSUME Inv, NEW why \in {"idle", "format", "hmac"}, Close(why), UNCHANGED <<clientVars, got>>,
         silent' \in 0..(IdleTimeout + FragTimeout)
  PROVE  Inv'
<1> USE ConstantsTyped DEF Close, clientVars
<1>1. TypeOk'
  BY DEF Inv, TypeOk
<1>2. UploadOrder'
  BY DEF Inv, StreamInv, UploadOrder, Current
<1>3. WireOrder' /\ PartOrder' /\ BufOrder' /\ ClocksInv'
  <2>1. wire' = <<>> /\ Len(wire') = 0 /\ part' = Nothing /\ buf' = <<>>
    OBVIOUS
  <2> QED
    BY <2>1, UnitShape DEF WireOrder, PartOrder, BufOrder, ClocksInv
<1> QED
  BY <1>1, <1>2, <1>3 DEF Inv, StreamInv

\* What is sent goes to the end of the wire.
LEMMA ClientSendsInv ==
  ASSUME Inv, ClientSends
  PROVE  Inv'
<1>1. sending \in Unit /\ sending.put = Current /\ Current \in Puts /\ sending.frag \in 1..Sizes[Current]
  BY DEF Inv, TypeOk, StreamInv, UploadOrder, ClientSends, Unit
<1>2. /\ Len(wire) \in Nat /\ wire' \in Seq(Unit) /\ wire' # <<>> /\ Len(wire') = Len(wire) + 1
      /\ wire'[Len(wire) + 1] = sending
      /\ \A i \in 1..Len(wire) : wire'[i] = wire[i]
  BY <1>1, AppendLast DEF Inv, TypeOk, ClientSends
<1>3. Current' = Current /\ Current \in Nat /\ Sizes[Current] \in Nat
  BY <1>1, ConstantsTyped DEF Current, ClientSends
<1>4. sending' = IF sending.kind = "header" THEN [put |-> Current, frag |-> sending.frag, kind |-> "rest"]
                 ELSE IF sending.frag < Sizes[Current]
                 THEN [put |-> Current, frag |-> sending.frag + 1, kind |-> "header"]
                 ELSE [put |-> Current + 1, frag |-> 1, kind |-> "header"]
  BY <1>1, AfterUnitIs DEF ClientSends
<1>5. sending' \in [put : Nat, frag : Nat, kind : {"header", "rest"}]
  BY <1>1, <1>3, <1>4
<1>6. TypeOk'
  BY <1>2, <1>5 DEF Inv, TypeOk, ClientSends
<1>7. UploadOrder'
  <2>1. CASE sending.kind = "header"
    <3>1. sending'.put = Current /\ sending'.frag = sending.frag
      BY <1>4, <2>1
    <3> QED
      BY <1>1, <1>3, <3>1 DEF UploadOrder, ClientSends
  <2>2. CASE sending.kind # "header" /\ sending.frag < Sizes[Current]
    <3>1. sending'.put = Current /\ sending'.frag = sending.frag + 1
      BY <1>4, <2>2
    <3>2. sending'.frag \in 1..Sizes[Current]
      BY <1>1, <1>3, <2>2, <3>1
    <3> QED
      BY <1>1, <1>3, <3>1, <3>2 DEF UploadOrder, ClientSends
  <2>3. CASE sending.kind # "header" /\ ~(sending.frag < Sizes[Current])
    <3>1. sending' = [put |-> Current + 1, frag |-> 1, kind |-> "header"]
      BY <1>4, <2>3
    <3>2. sending'.put = Current + 1
      BY <3>1
    <3>3. sending'.put # sending.put /\ sending'.put # Current
      BY <1>1, <1>3, <3>2
    <3>4. waiting'
      BY <3>3 DEF ClientSends
    <3> QED
      BY <1>3, <3>1, <3>3, <3>4 DEF UploadOrder
  <2> QED
    BY <2>1, <2>2, <2>3
<1>8. WireOrder'
  <2>1. ASSUME NEW i \in 1..Len(wire')
        PROVE  wire'[i].put = Current /\ wire'[i].frag \in 1..Sizes[Current]
    <3>1. CASE i = Len(wire) + 1
      BY <1>1, <1>2, <3>1
    <3>2. CASE i # Len(wire) + 1
      <4>1. i \in 1..Len(wire)
        BY <1>2, <3>2
      <4> QED
        BY <1>2, <4>1 DEF Inv, StreamInv, WireOrder
    <3> QED
      BY <3>1, <3>2
  <2>2. ASSUME NEW i \in 1..(Len(wire') - 1)
        PROVE  wire'[i + 1] = AfterUnit(wire'[i])
    <3>1. CASE i = Len(wire)
      <4>1. wire # <<>>
        BY <3>1, EmptyLen DEF Inv, TypeOk
      <4> QED
        BY <1>2, <3>1, <4>1 DEF Inv, StreamInv, WireOrder
    <3>2. CASE i # Len(wire)
      <4>1. i \in 1..(Len(wire) - 1) /\ i \in 1..Len(wire) /\ i + 1 \in 1..Len(wire)
        BY <1>2, <3>2
      <4> QED
        BY <1>2, <4>1 DEF Inv, StreamInv, WireOrder
    <3> QED
      BY <3>1, <3>2
  <2>3. sending' = AfterUnit(wire'[Len(wire')])
    BY <1>2 DEF ClientSends
  <2> QED
    BY <1>3, <2>1, <2>2, <2>3 DEF WireOrder, AfterUnit
<1>9. Ahead' = Ahead
  <2>1. Head(wire') = wire'[1]
    BY <1>2, HeadTail
  <2>2. CASE wire = <<>>
    <3>1. Len(wire) = 0
      BY <2>2, EmptyLen DEF Inv, TypeOk
    <3> QED
      BY <1>2, <2>1, <2>2, <3>1 DEF Ahead
  <2>3. CASE wire # <<>>
    <3>1. Len(wire) \in Nat \ {0} /\ Head(wire) = wire[1]
      BY <2>3, HeadTail DEF Inv, TypeOk
    <3> QED
      BY <1>2, <2>1, <2>3, <3>1 DEF Ahead
  <2> QED
    BY <2>2, <2>3
<1>10. PartOrder' /\ BufOrder' /\ ClocksInv'
  BY <1>3, <1>9 DEF Inv, StreamInv, PartOrder, BufOrder, ClocksInv, ClientSends, AfterUnit
<1> QED
  BY <1>6, <1>7, <1>8, <1>10 DEF Inv, StreamInv

\* Steps that leave the stream alone.
LEMMA QuietInv ==
  ASSUME Inv, UNCHANGED <<sending, waiting, wire, part, buf, timeout, got>>, TypeOk', ClocksInv'
  PROVE  Inv'
<1>1. Current' = Current /\ Ahead' = Ahead
  BY DEF Current, Ahead
<1>2. UploadOrder' /\ WireOrder' /\ PartOrder' /\ BufOrder'
  BY <1>1 DEF Inv, StreamInv, UploadOrder, WireOrder, PartOrder, BufOrder, AfterUnit
<1> QED
  BY <1>2 DEF Inv, StreamInv

LEMMA TickInv ==
  ASSUME Inv, Tick
  PROVE  Inv'
<1> USE ConstantsTyped
<1>1. /\ readAge \in 0..IdleTimeout /\ fragAge \in 0..(FragTimeout + 1)
      /\ silent \in 0..(IdleTimeout + FragTimeout) /\ timeout \in 0..IdleTimeout /\ readAge < timeout
  BY DEF Inv, TypeOk, Tick, Due
<1>2. /\ readAge' = readAge + 1 /\ readAge' \in 0..IdleTimeout
      /\ fragAge' \in 0..(FragTimeout + 1) /\ silent' \in 0..(IdleTimeout + FragTimeout)
      /\ buf # <<>> => fragAge' <= fragAge + 1
  BY <1>1 DEF Tick, UpTo
<1>3. TypeOk'
  BY <1>2 DEF Inv, TypeOk, Tick, clientVars
<1>4. ClocksInv'
  BY <1>1, <1>2 DEF Inv, StreamInv, ClocksInv, Tick
<1> QED
  BY <1>3, <1>4, QuietInv DEF Tick, clientVars

LEMMA NextReadClocks ==
  ASSUME NEW b, NEW age \in 0..(FragTimeout + 1), b # <<>> => age <= FragTimeout, NextRead(b, age)
  PROVE  /\ timeout' \in 0..IdleTimeout /\ readAge' \in 0..IdleTimeout /\ fragAge' \in 0..(FragTimeout + 1)
         /\ buf' = b /\ part' = Nothing /\ ClocksInv'
  BY ConstantsTyped DEF NextRead, ReadTimeout, ClocksInv

\* The header that is read begins where the stream stands; if it is no header
\* a timeout has emptied the buffer.
LEMMA ReadHeaderInv ==
  ASSUME Inv, ReadHeader
  PROVE  Inv'
<1>1. CASE Close("format")
  <2>1. UNCHANGED <<clientVars, got>> /\ silent' \in 0..(IdleTimeout + FragTimeout)
    BY DEF ReadHeader, Inv, TypeOk
  <2> QED
    BY <1>1, <2>1, CloseInv
<1>2. ASSUME wire' = Tail(wire), UNCHANGED <<buf, timeout, readAge, fragAge, status>>,
             \/ Head(wire).kind = "header" /\ part' = Head(wire)
             \/ Head(wire).kind = "rest" /\ part' = Garbage
      PROVE  Inv'
  <2>1. part = Nothing /\ wire # <<>> /\ UNCHANGED <<sending, waiting, gone, silent, got>>
    BY DEF ReadHeader, clientVars
  <2>2. /\ Ahead = Head(wire) /\ Head(wire) \in Unit
        /\ Head(wire).put = Current /\ Head(wire).frag \in 1..Sizes[Current]
        /\ Ahead' = AfterUnit(Head(wire)) /\ wire' \in Seq(Unit) /\ WireOrder'
    BY <1>2, <2>1, ReadsAhead DEF Inv, StreamInv
  <2>3. Current' = Current
    BY <2>1 DEF Current
  <2>4. TypeOk'
    BY <1>2, <2>1, <2>2 DEF Inv, TypeOk
  <2>5. UploadOrder' /\ ClocksInv'
    BY <1>2, <2>1, <2>3 DEF Inv, StreamInv, UploadOrder, ClocksInv
  <2>6. Garbage \notin Unit /\ (part' \in Unit => part' = Head(wire) /\ Head(wire).kind = "header")
    BY <1>2, UnitShape
  <2>7. PartOrder'
    BY <2>2, <2>3, <2>6 DEF PartOrder, AfterUnit
  <2>8. buf # <<>> => Head(wire) = [put |-> Current, frag |-> buf[1].frag + Len(buf), kind |-> "header"]
    BY <2>1, <2>2 DEF Inv, StreamInv, BufOrder
  <2>9. buf # <<>> => /\ part' = Head(wire) /\ part' \in Unit /\ part' # Garbage /\ part' # Nothing
                      /\ part'.frag = buf[1].frag + Len(buf)
    BY <1>2, <2>2, <2>8, UnitShape
  <2>10. BufOrder'
    BY <1>2, <2>3, <2>9 DEF Inv, StreamInv, BufOrder
  <2> QED
    BY <2>2, <2>4, <2>5, <2>7, <2>10 DEF Inv, StreamInv
<1> QED
  BY <1>1, <1>2 DEF ReadHeader

LEMMA ReadGarbageInv ==
  ASSUME Inv, ReadGarbage
  PROVE  Inv'
<1>1. CASE Close("hmac")
  <2>1. UNCHANGED <<clientVars, got>> /\ silent' \in 0..(IdleTimeout + FragTimeout)
    BY DEF ReadGarbage, Inv, TypeOk
  <2> QED
    BY <1>1, <2>1, CloseInv
<1>2. CASE wire' = Tail(wire) /\ UNCHANGED <<part, buf, timeout, readAge, fragAge, status>>
  <2>1. part = Garbage /\ wire # <<>> /\ UNCHANGED <<sending, waiting, gone, silent, got>>
    BY DEF ReadGarbage, clientVars
  <2>2. wire' \in Seq(Unit) /\ WireOrder'
    BY <1>2, <2>1, ReadsAhead DEF Inv, StreamInv
  <2>3. Current' = Current /\ part \notin Unit /\ buf = <<>>
    BY <2>1, UnitShape DEF Current, Inv, StreamInv, BufOrder
  <2>4. TypeOk'
    BY <1>2, <2>1, <2>2 DEF Inv, TypeOk
  <2>5. UploadOrder' /\ PartOrder' /\ BufOrder' /\ ClocksInv'
    BY <1>2, <2>1, <2>3 DEF Inv, StreamInv, UploadOrder, PartOrder, BufOrder, ClocksInv
  <2> QED
    BY <2>2, <2>4, <2>5 DEF Inv, StreamInv
<1> QED
  BY <1>1, <1>2 DEF ReadGarbage

LEMMA FragmentTimesOutInv ==
  ASSUME Inv, FragmentTimesOut
  PROVE  Inv'
<1>1. /\ timeout' \in 0..IdleTimeout /\ readAge' \in 0..IdleTimeout /\ fragAge' \in 0..(FragTimeout + 1)
      /\ buf' = <<>> /\ part' = Nothing /\ ClocksInv'
  <2>1. 0 \in 0..(FragTimeout + 1)
    BY ConstantsTyped
  <2> QED
    BY <2>1, NextReadClocks DEF FragmentTimesOut
<1>2. UNCHANGED <<sending, waiting, gone, wire, silent, status, got>>
  BY DEF FragmentTimesOut, clientVars
<1>3. Current' = Current /\ part' \notin Unit
  BY <1>1, <1>2, UnitShape DEF Current
<1>4. Len(buf') = 0 /\ buf' \in Seq(Fragment)
  BY <1>1, EmptySeq, Zenon
<1>5. TypeOk'
  BY <1>1, <1>2, <1>4, ConstantsTyped DEF Inv, TypeOk
<1>6. UploadOrder' /\ WireOrder' /\ PartOrder' /\ BufOrder'
  BY <1>1, <1>2, <1>3 DEF Inv, StreamInv, UploadOrder, WireOrder, PartOrder, BufOrder, AfterUnit
<1> QED
  BY <1>1, <1>5, <1>6 DEF Inv, StreamInv

-----------------------------------------------------------------------------
\* A whole frame.

\* The fragment a whole frame brings, and the buffer with it.
Brought == [put |-> part.put, frag |-> part.frag]
Together == Append(buf, Brought)

\* The frame is the next fragment of the upload under way and continues the buffer.
LEMMA FrameFits ==
  ASSUME Inv, part \in Unit, wire # <<>>, wire' = Tail(wire), sending' = sending
  PROVE  /\ part.put = Current /\ Current \in Puts /\ part.frag \in 1..Sizes[Current] /\ Brought \in Fragment
         /\ Ahead' = IF part.frag < Sizes[Current]
                     THEN [put |-> Current, frag |-> part.frag + 1, kind |-> "header"]
                     ELSE [put |-> Current + 1, frag |-> 1, kind |-> "header"]
         /\ wire' \in Seq(Unit) /\ (wire' # <<>> => Ahead'.put = Current)
<1>1. /\ part.kind = "header" /\ part.put = Current /\ part.frag \in 1..Sizes[Current]
      /\ Ahead = AfterUnit(part)
  BY DEF Inv, StreamInv, PartOrder
<1>2. Current \in Puts /\ Brought \in Fragment
  BY <1>1, UnitShape DEF Brought, Fragment
<1>3. /\ Ahead = Head(wire) /\ Ahead' = AfterUnit(Head(wire)) /\ Head(wire) \in Unit
      /\ wire' \in Seq(Unit) /\ (wire' # <<>> => Ahead'.put = Current)
  BY ReadsAhead DEF Inv, StreamInv
<1>4. Head(wire) = [put |-> Current, frag |-> part.frag, kind |-> "rest"]
  BY <1>1, <1>3, AfterUnitIs
<1>5. /\ Head(wire).put = Current /\ Head(wire).frag = part.frag /\ Head(wire).kind = "rest"
  BY <1>4
<1> QED
  BY <1>1, <1>2, <1>3, <1>5, AfterUnitIs

LEMMA TogetherIsRun ==
  ASSUME Inv, part \in Unit, Brought \in Fragment
  PROVE  /\ Together \in Seq(Fragment) /\ Together # <<>> /\ Len(Together) = Len(buf) + 1 /\ Len(buf) \in Nat
         /\ \A k \in 1..Len(Together) : Together[k].put = Current /\ Together[k].frag = Together[1].frag + k - 1
         /\ Together[1].frag > 0 /\ Together[1].frag + Len(Together) = part.frag + 1
<1>1. part.put = Current /\ part.frag \in Nat /\ part.frag > 0
  BY UnitShape, ConstantsTyped DEF Inv, StreamInv, PartOrder
<1>2. /\ Together \in Seq(Fragment) /\ Together # <<>>
      /\ Len(buf) \in Nat /\ Len(Together) = Len(buf) + 1
      /\ Together[Len(buf) + 1] = Brought
      /\ \A k \in 1..Len(buf) : Together[k] = buf[k]
  BY AppendLast DEF Inv, TypeOk, Together
<1>3. Brought.put = Current /\ Brought.frag = part.frag
  BY <1>1 DEF Brought
<1>4. CASE Len(buf) = 0
  BY <1>1, <1>2, <1>3, <1>4
<1>5. CASE Len(buf) # 0
  <2>1. buf # <<>> /\ DOMAIN buf = 1..Len(buf) /\ buf[1] \in Fragment
    BY <1>2, <1>5, EmptyLen DEF Inv, TypeOk
  <2>2. /\ \A k \in 1..Len(buf) : buf[k].put = Current /\ buf[k].frag = buf[1].frag + k - 1
        /\ buf[1].frag > 0 /\ part.frag = buf[1].frag + Len(buf)
    BY <2>1 DEF Inv, StreamInv, BufOrder
  <2>3. buf[1].frag \in Nat /\ Together[1] = buf[1]
    BY <1>2, <1>5, <2>1 DEF Fragment
  <2>4. ASSUME NEW k \in 1..Len(Together)
        PROVE  Together[k].put = Current /\ Together[k].frag = Together[1].frag + k - 1
    <3>1. CASE k = Len(buf) + 1
      <4>1. Together[k].put = Current /\ Together[k].frag = part.frag
        BY <1>2, <1>3, <3>1
      <4> QED
        BY <1>1, <1>2, <2>2, <2>3, <3>1, <4>1
    <3>2. CASE k # Len(buf) + 1
      <4>1. k \in 1..Len(buf) /\ Together[k] = buf[k]
        BY <1>2, <3>2
      <4> QED
        BY <2>2, <2>3, <4>1
    <3> QED
      BY <3>1, <3>2
  <2>5. Together[1].frag > 0 /\ Together[1].frag + Len(Together) = part.frag + 1
    BY <1>1, <1>2, <2>2, <2>3
  <2> QED
    BY <1>2, <2>4, <2>5
<1> QED
  BY <1>4, <1>5

\* A vault that is accepted is the upload under way; with it the next one begins.
LEMMA AcceptedInv ==
  ASSUME Inv, part \in Unit, wire # <<>>, wire' = Tail(wire), UNCHANGED <<sending, gone, status>>,
         part.frag = Sizes[part.put], NEW payload \in Seq(Fragment), got' = Append(got, payload),
         waiting' = FALSE, silent' = 0, NEW age \in 0..(FragTimeout + 1), NextRead(<<>>, age)
  PROVE  Inv'
<1>1. /\ part.put = Current /\ Current \in Puts /\ Sizes[Current] \in Nat
      /\ Ahead' = IF part.frag < Sizes[Current]
                  THEN [put |-> Current, frag |-> part.frag + 1, kind |-> "header"]
                  ELSE [put |-> Current + 1, frag |-> 1, kind |-> "header"]
      /\ wire' \in Seq(Unit) /\ (wire' # <<>> => Ahead'.put = Current)
  BY FrameFits, ConstantsTyped
<1>2. Ahead' = [put |-> Current + 1, frag |-> 1, kind |-> "header"] /\ Current \in Nat
  BY <1>1, ConstantsTyped
<1>3. wire' = <<>> /\ Len(wire') = 0
  <2>1. Ahead'.put = Current + 1
    BY <1>2
  <2>2. wire' = <<>>
    BY <1>1, <1>2, <2>1
  <2> QED
    BY <1>1, <2>2, EmptyLen
<1>4. sending = [put |-> Current + 1, frag |-> 1, kind |-> "header"]
  BY <1>2, <1>3 DEF Ahead
<1>5. got' \in Seq(Seq(Fragment)) /\ Current' = Current + 1
  <2>1. got \in Seq(Seq(Fragment))
    BY DEF Inv, TypeOk
  <2> QED
    BY <2>1, AppendLast DEF Current
<1>6. /\ timeout' \in 0..IdleTimeout /\ readAge' \in 0..IdleTimeout /\ fragAge' \in 0..(FragTimeout + 1)
      /\ buf' = <<>> /\ part' = Nothing /\ ClocksInv'
  BY NextReadClocks
<1>7. Len(buf') = 0 /\ buf' \in Seq(Fragment) /\ part' \notin Unit
  <2>1. buf' \in Seq(Fragment) /\ Len(buf') = 0
    BY <1>6, EmptySeq, Zenon
  <2> QED
    BY <1>6, <2>1, UnitShape
<1>8. TypeOk'
  <2>1. wire' \in Seq(Unit) /\ got' \in Seq(Seq(Fragment)) /\ Len(buf') <= MaxFrags
    BY <1>1, <1>5, <1>7, ConstantsTyped
  <2>2. silent' \in 0..(IdleTimeout + FragTimeout)
    BY ConstantsTyped
  <2> QED
    BY <1>6, <1>7, <2>1, <2>2, Zenon DEF Inv, TypeOk
<1>9. UploadOrder'
  <2>1. sending'.put = Current' /\ sending'.frag = 1
    BY <1>4, <1>5
  <2>2. \A p \in Puts : 1 \in 1..Sizes[p]
    BY ConstantsTyped
  <2> QED
    BY <2>1, <2>2 DEF UploadOrder
<1>10. WireOrder' /\ PartOrder' /\ BufOrder'
  BY <1>3, <1>6, <1>7 DEF WireOrder, PartOrder, BufOrder
<1> QED
  BY <1>6, <1>8, <1>9, <1>10 DEF Inv, StreamInv

LEMMA ReadRestInv ==
  ASSUME Inv, ReadRest
  PROVE  Inv'
<1>1. /\ part \in Unit /\ wire # <<>> /\ silent' = 0 /\ UNCHANGED <<sending, gone>>
      /\ status = "open"
  BY DEF ReadRest
<1>2. /\ part.put = Current /\ Current \in Puts /\ part.frag \in 1..Sizes[Current] /\ Brought \in Fragment
      /\ Sizes[Current] \in Nat \ {0}
  <2>1. part.put = Current /\ part.frag \in 1..Sizes[Current]
    BY <1>1 DEF Inv, StreamInv, PartOrder
  <2> QED
    BY <1>1, <2>1, UnitShape, ConstantsTyped DEF Brought, Fragment
<1>3. CASE ~Fragmented(part.put) /\ Vault(<<Brought>>) /\ NextRead(buf, fragAge) /\ wire' = Tail(wire)
  <2>1. part.frag = Sizes[part.put]
    BY <1>2, <1>3 DEF Fragmented
  <2>2. buf = <<>>
    <3> SUFFICES ASSUME buf # <<>> PROVE FALSE
      OBVIOUS
    <3>1. Len(buf) \in Nat \ {0} /\ buf[1] \in Fragment
      BY HeadTail DEF Inv, TypeOk
    <3>2. buf[1].frag > 0 /\ buf[1].frag + Len(buf) <= Sizes[Current] /\ buf[1].frag \in Nat
      BY <3>1 DEF Inv, StreamInv, BufOrder, Fragment
    <3> QED
      BY <1>2, <1>3, <3>1, <3>2 DEF Fragmented
  <2>3. <<Brought>> \in Seq(Fragment)
    BY <1>2
  <2>4. fragAge \in 0..(FragTimeout + 1)
    BY DEF Inv, TypeOk
  <2> QED
    BY <1>1, <1>3, <2>1, <2>2, <2>3, <2>4, AcceptedInv DEF Vault
<1>4. CASE /\ ~TooLarge(Together) /\ part.frag # Sizes[part.put]
           /\ NextRead(Together, IF buf = <<>> THEN 0 ELSE fragAge)
           /\ wire' = Tail(wire) /\ UNCHANGED <<waiting, status, got>>
  <2> DEFINE age == IF buf = <<>> THEN 0 ELSE fragAge
  <2>1. age \in 0..(FragTimeout + 1) /\ age <= FragTimeout
    BY ConstantsTyped DEF Inv, TypeOk, StreamInv, ClocksInv
  <2>2. /\ timeout' \in 0..IdleTimeout /\ readAge' \in 0..IdleTimeout /\ fragAge' \in 0..(FragTimeout + 1)
        /\ buf' = Together /\ part' = Nothing /\ ClocksInv'
    BY <1>4, <2>1, NextReadClocks
  <2>3. /\ Together \in Seq(Fragment) /\ Together # <<>> /\ Len(Together) = Len(buf) + 1 /\ Len(buf) \in Nat
        /\ \A k \in 1..Len(Together) : Together[k].put = Current /\ Together[k].frag = Together[1].frag + k - 1
        /\ Together[1].frag > 0 /\ Together[1].frag + Len(Together) = part.frag + 1
    BY <1>1, <1>2, TogetherIsRun
  <2>4. wire' \in Seq(Unit) /\ WireOrder'
    BY <1>1, <1>4, ReadsAhead DEF Inv, StreamInv
  <2>5. Ahead' = [put |-> Current, frag |-> part.frag + 1, kind |-> "header"]
    BY <1>1, <1>2, <1>4, FrameFits
  <2>6. TypeOk'
    <3>1. Len(buf') <= MaxFrags
      BY <1>4, <2>2, <2>3, ConstantsTyped DEF TooLarge
    <3> QED
      BY <1>1, <1>4, <2>2, <2>3, <2>4, <3>1, ConstantsTyped DEF Inv, TypeOk
  <2>7. UploadOrder' /\ Current' = Current
    BY <1>1, <1>4 DEF Inv, StreamInv, UploadOrder, Current
  <2>8. PartOrder'
    BY <2>2, UnitShape DEF PartOrder
  <2>9. BufOrder'
    <3>1. Together[1].frag + Len(Together) <= Sizes[Current] /\ Nothing \notin Unit /\ Nothing # Garbage
      BY <1>2, <1>4, <2>3, UnitShape DEF Nothing, Garbage
    <3>2. DOMAIN Together = 1..Len(Together)
      BY <2>3
    <3> HIDE DEF Together
    <3> QED
      BY <2>2, <2>3, <2>5, <2>7, <3>1, <3>2 DEF BufOrder
  <2> QED
    BY <2>2, <2>4, <2>6, <2>7, <2>8, <2>9 DEF Inv, StreamInv
<1>5. CASE /\ part.frag = Sizes[part.put] /\ Vault(Together)
           /\ NextRead(BufferAfterLast(Together), 0) /\ wire' = Tail(wire)
  <2>1. Together \in Seq(Fragment)
    BY <1>1, <1>2, TogetherIsRun
  <2>2. 0 \in 0..(FragTimeout + 1)
    BY ConstantsTyped
  <2> QED
    BY <1>1, <1>5, <2>1, <2>2, AcceptedInv DEF Vault, BufferAfterLast
<1>6. CASE Close("format") /\ UNCHANGED <<waiting, got>>
  <2>1. silent' \in 0..(IdleTimeout + FragTimeout)
    BY <1>1, ConstantsTyped
  <2> QED
    BY <1>1, <1>6, <2>1, CloseInv DEF clientVars
<1> QED
  BY <1>3, <1>4, <1>5, <1>6 DEF ReadRest, Brought, Together

-----------------------------------------------------------------------------
\* Theorems.

LEMMA NextInv ==
  ASSUME Inv, [Next]_vars
  PROVE  Inv'
<1>1. CASE ClientSends
  BY <1>1, ClientSendsInv
<1>2. CASE ClientVanishes
  <2>1. TypeOk' /\ ClocksInv'
    BY <1>2 DEF Inv, TypeOk, StreamInv, ClocksInv, ClientVanishes
  <2> QED
    BY <1>2, <2>1, QuietInv DEF ClientVanishes
<1>3. CASE ReadHeader \/ ReadGarbage \/ ReadRest \/ FragmentTimesOut
  BY <1>3, ReadHeaderInv, ReadGarbageInv, ReadRestInv, FragmentTimesOutInv
<1>4. CASE IdleTimesOut
  <2>1. silent' \in 0..(IdleTimeout + FragTimeout)
    BY <1>4 DEF Inv, TypeOk, IdleTimesOut
  <2> QED
    BY <1>4, <2>1, CloseInv DEF IdleTimesOut
<1>5. CASE Tick
  BY <1>5, TickInv
<1>6. CASE UNCHANGED vars
  <2>1. TypeOk' /\ ClocksInv'
    BY <1>6 DEF Inv, TypeOk, StreamInv, ClocksInv, vars
  <2> QED
    BY <1>6, <2>1, QuietInv DEF vars
<1> QED
  BY <1>1, <1>2, <1>3, <1>4, <1>5, <1>6 DEF Next, ServerStep, Closed

LEMMA AlwaysInv == Spec => []Inv
<1>1. Inv /\ [Next]_vars => Inv'
  BY NextInv
<1> QED
  BY <1>1, InitInv, PTL DEF Spec

\* Every variable of the stream keeps its type; in particular the fragment
\* buffer never exceeds its limit (server.py:593-600).
THEOREM StreamTyped == Spec => []TypeOk
<1>1. Inv => TypeOk
  BY DEF Inv
<1> QED
  BY <1>1, AlwaysInv, PTL

\* The stream stays where its reader believes it to be (server.py:330-366, 580-609).
THEOREM StreamInStep == Spec => []StreamInv
<1>1. Inv => StreamInv
  BY DEF Inv
<1> QED
  BY <1>1, AlwaysInv, PTL

\* The buffer holds consecutive fragments of one upload (server.py:580-600).
THEOREM BufferInOrder == Spec => []BufferIsRun
<1>1. Inv => BufferIsRun
  <2> SUFFICES ASSUME Inv, NEW k \in DOMAIN buf
               PROVE  buf[k].put = buf[1].put /\ buf[k].frag = buf[1].frag + k - 1
    BY DEF BufferIsRun
  <2>1. buf # <<>>
    BY EmptyLen DEF Inv, TypeOk
  <2>2. 1 \in DOMAIN buf
    BY <2>1, HeadTail DEF Inv, TypeOk
  <2> QED
    BY <2>1, <2>2 DEF Inv, StreamInv, BufOrder
<1> QED
  BY <1>1, AlwaysInv, PTL

\* Buffered fragments are dropped in time: each read is given no longer than
\* what is left of it (server.py:330-348).
THEOREM FragmentsExpire == Spec => []BufferExpires
<1>1. Inv => BufferExpires
  BY ConstantsTyped DEF Inv, TypeOk, StreamInv, ClocksInv, BufferExpires
<1> QED
  BY <1>1, AlwaysInv, PTL

-----------------------------------------------------------------------------
\* Only whole uploads are stored.

WholePut(n) == [f \in 1..Sizes[n] |-> [put |-> n, frag |-> f]]

\* A payload that is whole and begins with a fragment of the upload under way
\* is that upload.
LEMMA WholeIsCurrent ==
  ASSUME Inv, NEW payload, Whole(payload), payload[1].put = Current
  PROVE  payload = WholePut(Current)
<1>1. PICK p \in Puts : payload = [f \in 1..Sizes[p] |-> [put |-> p, frag |-> f]]
  BY DEF Whole
<1>2. 1 \in 1..Sizes[p]
  BY ConstantsTyped
<1>3. payload[1] = [put |-> p, frag |-> 1]
  BY <1>1, <1>2
<1>4. p = Current
  BY <1>3
<1> QED
  BY <1>1, <1>4 DEF WholePut

LEMMA VaultIsCurrent ==
  ASSUME Inv, OnlyWholePuts, NEW payload \in Seq(Fragment), Vault(payload), payload[1].put = Current
  PROVE  OnlyWholePuts'
<1>1. payload = WholePut(Current)
  BY WholeIsCurrent DEF Vault
<1>2. /\ got \in Seq(Seq(Fragment)) /\ Len(got) \in Nat
      /\ DOMAIN got = 1..Len(got) /\ DOMAIN got' = 1..(Len(got) + 1)
      /\ got'[Len(got) + 1] = payload
      /\ \A n \in 1..Len(got) : got'[n] = got[n]
  <2>1. got \in Seq(Seq(Fragment))
    BY DEF Inv, TypeOk
  <2> QED
    BY <2>1, AppendLast, LenProperties DEF Vault
<1>3. \A n \in 1..Len(got) : got[n] = WholePut(n)
  BY <1>2 DEF OnlyWholePuts, WholePut
<1>4. got'[Len(got) + 1] = WholePut(Len(got) + 1)
  BY <1>1, <1>2 DEF Current
<1>5. ASSUME NEW n \in DOMAIN got'
      PROVE  got'[n] = WholePut(n)
  <2>1. n = Len(got) + 1 \/ n \in 1..Len(got)
    BY <1>2
  <2> QED
    BY <1>2, <1>3, <1>4, <2>1
<1> QED
  BY <1>5 DEF OnlyWholePuts, WholePut

LEMMA NextWhole ==
  ASSUME Inv, OnlyWholePuts, [Next]_vars
  PROVE  OnlyWholePuts'
<1>1. CASE UNCHANGED got
  BY <1>1 DEF OnlyWholePuts
<1>2. CASE ReadRest
  <2>1. part \in Unit /\ part.put = Current /\ Brought \in Fragment
    BY <1>2, UnitShape DEF ReadRest, Inv, StreamInv, PartOrder, Brought, Fragment
  <2>2. CASE Vault(<<Brought>>)
    <3>1. <<Brought>> \in Seq(Fragment) /\ <<Brought>>[1].put = Current
      BY <2>1 DEF Brought
    <3> QED
      BY <2>2, <3>1, VaultIsCurrent
  <2>3. CASE Vault(Together)
    <3>1. Together \in Seq(Fragment) /\ Together[1].put = Current
      BY <2>1, TogetherIsRun
    <3> QED
      BY <2>3, <3>1, VaultIsCurrent
  <2> QED
    BY <1>1, <1>2, <2>2, <2>3 DEF ReadRest, Brought, Together
<1> QED
  BY <1>1, <1>2 DEF Next, ServerStep, vars, ClientSends, ClientVanishes, ReadHeader, ReadGarbage,
     FragmentTimesOut, IdleTimesOut, Tick, Closed

\* Whatever was dropped, cut or misread, what is stored are the uploads as they
\* were sent, in order and each once (server.py:92-104, 330-366, 580-609).
THEOREM WholePutsOnly == Spec => []OnlyWholePuts
<1>1. Init => OnlyWholePuts
  <2> SUFFICES ASSUME Init PROVE OnlyWholePuts
    OBVIOUS
  <2>1. DOMAIN got = {}
    BY EmptyDomain DEF Init
  <2> QED
    BY <2>1 DEF OnlyWholePuts
<1>2. Inv /\ OnlyWholePuts /\ [Next]_vars => OnlyWholePuts'
  BY NextWhole
<1> QED
  BY <1>1, <1>2, AlwaysInv, PTL DEF Spec
=============================================================================
