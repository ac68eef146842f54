-------------------------- MODULE PacketPathProofs --------------------------
(***************************************************************************)
(* Proofs about PacketPath, for any modems, addresses, payloads and number *)
(* of packets: what the operators of the chunk do to header and data, and  *)
(* from that what reaches a user.                                          *)
(***************************************************************************)
EXTENDS PacketPath, SequenceTheorems, TLAPS

-----------------------------------------------------------------------------
(* The chunk                                                                 *)

\* Data copied into a chunk that is large enough are the chunk's data, and its
\* header is empty.
Holds(chunk, bytes) ==
    /\ DOMAIN chunk = {"data_chunk", "chunk_size", "chunk_hdr", "hdr_rev_offset"}
    /\ chunk.chunk_hdr \in [1..1 -> Nat]
    /\ C!Data(chunk) = bytes

LEMMA CopiedData ==
    ASSUME NEW bytes \in Seq(Nat), NEW n \in Nat, Len(bytes) <= n,
           NEW chunk, chunk = C!SetSize(C!WriteData(C!NewChunk(n), bytes), Len(bytes))
    PROVE  Holds(chunk, bytes) /\ chunk.hdr_rev_offset = 1
<1> DEFINE zeros == [i \in 1..n |-> 0]
           data == [i \in 1..n |-> IF i \in DOMAIN bytes THEN bytes[i] ELSE zeros[i]]
<1>1. /\ Len(bytes) \in Nat /\ DOMAIN bytes = 1..Len(bytes)
      /\ bytes = [i \in 1..Len(bytes) |-> bytes[i]]
  BY LenProperties
<1>2. data \in Seq(Nat) /\ Len(data) = n
  BY <1>1
<1> DEFINE new == C!NewChunk(n)
           written == C!WriteData(new, bytes)
<1>3. /\ DOMAIN new = {"data_chunk", "chunk_size", "chunk_hdr", "hdr_rev_offset"}
      /\ new.data_chunk = zeros /\ new.hdr_rev_offset = 1
      /\ new.chunk_hdr = [i \in 1..1 |-> 0]
  BY DEF C!NewChunk, MacSize
<1>4. [i \in DOMAIN zeros |-> IF i \in DOMAIN bytes THEN bytes[i] ELSE zeros[i]] = data
  OBVIOUS
<1> HIDE DEF zeros, new
<1>5. /\ DOMAIN written = DOMAIN new
      /\ written.data_chunk = data /\ written.hdr_rev_offset = 1
      /\ written.chunk_hdr = [i \in 1..1 |-> 0]
  <2> HIDE DEF data
  <2>1. written = [new EXCEPT !.data_chunk = data]
    BY <1>3, <1>4 DEF C!WriteData
  <2>2. QED
    BY <1>3, <2>1
<1>6. SubSeq(data, 1, Len(bytes)) = bytes
  <2>1. SubSeq(data, 1, Len(bytes)) = [i \in 1..Len(bytes) |-> data[i]]
    BY <1>1, <1>2
  <2>2. \A i \in 1..Len(bytes) : data[i] = bytes[i]
    BY <1>1
  <2>3. QED
    BY <1>1, <2>1, <2>2
<1> HIDE DEF data, written
<1>7. /\ DOMAIN chunk = DOMAIN new
      /\ chunk.data_chunk = data /\ chunk.chunk_size = Len(bytes)
      /\ chunk.hdr_rev_offset = 1 /\ chunk.chunk_hdr = [i \in 1..1 |-> 0]
  <2>1. chunk = [written EXCEPT !.chunk_size = Len(bytes)]
    <3>1. chunk = C!SetSize(written, Len(bytes))
      BY DEF written, new
    <3>2. ~(Len(bytes) > Len(written.data_chunk))
      BY <1>1, <1>2, <1>5
    <3>3. QED
      BY <3>1, <3>2 DEF C!SetSize
  <2>2. QED
    BY <1>3, <1>5, <2>1
<1>8. QED
  BY <1>3, <1>6, <1>7 DEF Holds, C!Data

\* A header of one byte fits in front of the data, and is read back.
LEMMA AddedHeader ==
    ASSUME NEW bytes \in Seq(Nat), NEW hdr \in Nat,
           NEW chunk, Holds(chunk, bytes), chunk.hdr_rev_offset = 1,
           NEW more, more = C!AddHeader(chunk, <<hdr>>)
    PROVE  /\ Holds(more, bytes) /\ more.hdr_rev_offset = 0 /\ C!Header(more) = <<hdr>>
           /\ C!DeserializeOk(more, MacSize) /\ C!Deserialized(more, MacSize)[1] = hdr
           /\ C!Data(C!AfterDeserialize(more, MacSize)) = bytes
<1>1. (256 + 1 - 1) % 256 = 0
  OBVIOUS
<1>2. more = [chunk EXCEPT !.chunk_hdr = [i \in 1..1 |-> hdr], !.hdr_rev_offset = 0]
  <2> DEFINE offset == (256 + chunk.hdr_rev_offset - Len(<<hdr>>)) % 256
  <2>1. offset = 0
    BY <1>1
  <2>2. \A i \in 1..1 : i - 0 \in DOMAIN <<hdr>> /\ <<hdr>>[i - 0] = hdr
    OBVIOUS
  <2>3. more = [chunk EXCEPT !.chunk_hdr = [i \in DOMAIN @ |->
                  IF i - offset \in DOMAIN <<hdr>> THEN <<hdr>>[i - offset] ELSE @[i]],
                             !.hdr_rev_offset = offset]
    BY DEF C!AddHeader
  <2>4. DOMAIN chunk.chunk_hdr = 1..1
    BY DEF Holds
  <2>5. QED
    <3> HIDE DEF offset
    <3>1. QED
      BY <2>1, <2>2, <2>3, <2>4
<1>3. Holds(more, bytes) /\ more.hdr_rev_offset = 0 /\ more.chunk_hdr = [i \in 1..1 |-> hdr]
  BY <1>2 DEF Holds, C!Data
<1>4. C!DeserializeOk(more, MacSize)
  BY <1>3 DEF C!DeserializeOk, MacSize
<1>5. SubSeq(more.chunk_hdr, 1, 1) = <<hdr>>
  <2>1. <<hdr>> = [i \in 1..1 |-> hdr] /\ <<hdr>> \in Seq(Nat) /\ Len(<<hdr>>) = 1
    OBVIOUS
  <2>2. SubSeq(<<hdr>>, 1, Len(<<hdr>>)) = <<hdr>>
    BY <2>1, SubSeqFull
  <2>3. QED
    BY <1>3, <2>1, <2>2
<1>6. C!Header(more) = <<hdr>> /\ C!Deserialized(more, MacSize)[1] = hdr
  BY <1>3, <1>5 DEF C!Header, C!Deserialized, MacSize
<1>7. C!Data(C!AfterDeserialize(more, MacSize)) = C!Data(more)
  BY <1>3, <1>4 DEF C!AfterDeserialize, C!Data, Holds
<1>8. QED
  BY <1>3, <1>4, <1>6, <1>7 DEF Holds

-----------------------------------------------------------------------------
(* From chunk to cargo and back                                              *)

\* A byte put in front of a sequence is its first part; the tail is the rest.
LEMMA Prefixed ==
    ASSUME NEW s \in Seq(Nat), NEW h \in Nat
    PROVE  /\ <<h>> \o s \in Seq(Nat) /\ Len(<<h>> \o s) = Len(s) + 1
           /\ Tail(<<h>> \o s) = s /\ SubSeq(<<h>> \o s, 1, 1) = <<h>>
<1> DEFINE whole == <<h>> \o s
<1>1. <<h>> \in Seq(Nat) /\ Len(<<h>>) = 1 /\ Len(s) \in Nat
  BY LenProperties
<1>2. /\ whole \in Seq(Nat) /\ Len(whole) = Len(s) + 1
      /\ \A i \in 1..Len(s) + 1 : whole[i] = IF i <= 1 THEN h ELSE s[i - 1]
  BY <1>1, ConcatProperties
<1>3. SubSeq(whole, 1, 1) = <<h>>
  <2>1. SubSeq(<<h>>, 1, 1) = <<h>>
    BY <1>1, SubSeqFull
  <2>2. 1 \in 1..Len(<<h>>)
    BY <1>1
  <2>3. SubSeq(whole, 1, 1) = SubSeq(<<h>>, 1, 1)
    BY <1>1, <2>2, SubSeqOfConcat1
  <2>4. QED
    BY <2>1, <2>3
<1> HIDE DEF whole
<1>4. Tail(whole) = s
  <2>1. whole # <<>>
    BY <1>1, <1>2, EmptySeq
  <2>2. /\ Tail(whole) \in Seq(Nat) /\ Len(Tail(whole)) = Len(whole) - 1
        /\ \A i \in 1..Len(Tail(whole)) : Tail(whole)[i] = whole[i + 1]
    BY <1>2, <2>1, HeadTailProperties
  <2>3. \A i \in 1..Len(Tail(whole)) : Tail(whole)[i] = s[i]
    BY <1>1, <1>2, <2>2
  <2>4. QED
    BY <1>1, <1>2, <2>2, <2>3, SeqEqual
<1>5. QED
  BY <1>2, <1>3, <1>4 DEF whole

\* The header is a byte; its fields are the low 4 bits of each address.
LEMMA HdrFields ==
    ASSUME NEW m \in Modem
    PROVE  /\ MyHdr(m) \in Nat
           /\ SrcAddr(MyHdr(m)) = SrcArg[m] % AddrMod
           /\ DestAddr(MyHdr(m)) = DestArg[m] % AddrMod
<1>1. SrcArg[m] \in Int /\ DestArg[m] \in Int
  BY ConstantAssumption
<1>2. \A a, b \in 0..15 : (a + 16 * b) % 16 = a /\ (a + 16 * b) \div 16 = b
  OBVIOUS
<1>3. SrcArg[m] % 16 \in 0..15 /\ DestArg[m] % 16 \in 0..15
  BY <1>1
<1>4. QED
  BY <1>2, <1>3 DEF MyHdr, MacHdr, SrcAddr, DestAddr, AddrMod

\* The cargo is the header, if enabled, and the user's bytes.
LEMMA CargoOf ==
    ASSUME NEW m \in Modem, NEW payload \in Seq(Nat)
    PROVE  Cargo(TxChunk(m, payload))
             = IF MacEnabled[m] THEN <<MyHdr(m)>> \o payload ELSE payload
<1> DEFINE chunk == C!SetSize(C!WriteData(C!NewChunk(Len(payload)), payload), Len(payload))
<1>1. Holds(chunk, payload) /\ chunk.hdr_rev_offset = 1
  BY CopiedData, LenProperties
<1>2. TxChunk(m, payload) = IF MacEnabled[m] THEN C!AddHeader(chunk, <<MyHdr(m)>>) ELSE chunk
  BY DEF TxChunk
<1> HIDE DEF chunk
<1>3. CASE MacEnabled[m]
  <2>1. Holds(C!AddHeader(chunk, <<MyHdr(m)>>), payload)
        /\ C!Header(C!AddHeader(chunk, <<MyHdr(m)>>)) = <<MyHdr(m)>>
    BY <1>1, AddedHeader, HdrFields
  <2>2. QED
    BY <1>2, <1>3, <2>1 DEF Cargo, Holds
<1>4. CASE ~MacEnabled[m]
  <2>1. C!Header(chunk) = <<>>
    BY <1>1, SubSeqEmpty DEF C!Header, MacSize
  <2>2. <<>> \o payload = payload
    BY ConcatEmptySeq
  <2>3. QED
    BY <1>1, <1>2, <1>4, <2>1, <2>2 DEF Cargo, Holds
<1>5. QED
  BY <1>3, <1>4

\* What main() makes of a chunk it pops: the header it reads and the data.
Read(m, chunk) == IF MacEnabled[m] THEN C!AfterDeserialize(chunk, MacSize) ELSE chunk

\* Without the header at both ends the receiver's data are the sender's; with it,
\* so are the data and the header.
LEMMA Received ==
    ASSUME NEW m \in Modem, NEW from \in Modem, NEW payload \in Seq(Nat),
           MacEnabled[m] = MacEnabled[from],
           NEW chunk, chunk = RxChunk(MacEnabled[m], Cargo(TxChunk(from, payload)))
    PROVE  /\ C!Data(Read(m, chunk)) = payload
           /\ MacEnabled[m] => NextHdr(m, chunk) = MyHdr(from)
<1>1. CASE ~MacEnabled[m]
  <2>1. chunk = C!SetSize(C!WriteData(C!NewChunk(Len(payload)), payload), Len(payload))
    BY <1>1, CargoOf DEF RxChunk
  <2>2. Holds(chunk, payload)
    BY <2>1, CopiedData, LenProperties
  <2>3. QED
    BY <1>1, <2>2 DEF Read, Holds
<1>2. CASE MacEnabled[m]
  <2> DEFINE cargo == <<MyHdr(from)>> \o payload
             whole == C!SetSize(C!WriteData(C!NewChunk(Len(cargo)), payload), Len(payload))
  <2>1. MyHdr(from) \in Nat
    BY HdrFields
  <2>2. /\ Tail(cargo) = payload /\ SubSeq(cargo, 1, 1) = <<MyHdr(from)>>
        /\ Len(cargo) = Len(payload) + 1
    BY <2>1, Prefixed
  <2>3. Cargo(TxChunk(from, payload)) = cargo
    BY <1>2, CargoOf
  <2> HIDE DEF cargo
  <2>4. Holds(whole, payload) /\ whole.hdr_rev_offset = 1
    BY <2>2, CopiedData, LenProperties
  <2>5. chunk = C!AddHeader(whole, <<MyHdr(from)>>)
    BY <1>2, <2>2, <2>3 DEF RxChunk, MacSize
  <2> HIDE DEF whole
  <2>6. /\ C!DeserializeOk(chunk, MacSize) /\ C!Deserialized(chunk, MacSize)[1] = MyHdr(from)
        /\ C!Data(C!AfterDeserialize(chunk, MacSize)) = payload
    BY <2>1, <2>4, <2>5, AddedHeader
  <2>7. QED
    BY <1>2, <2>6 DEF Read, NextHdr
<1>3. QED
  BY <1>1, <1>2

-----------------------------------------------------------------------------
(* The inductive invariant: what is in the water is the cargo of what was    *)
(* sent, and what waits in rx_buffer is a chunk made of such a cargo.        *)

OnAir == {[from |-> m, payload |-> payload, cargo |-> Cargo(TxChunk(m, payload))] :
              m \in Modem, payload \in Payload}
Decoded(m) == {[chunk |-> RxChunk(MacEnabled[m], air[p].cargo), packet |-> p] :
                   p \in DOMAIN air}

\* Both m and the sender of p use the header.
BothMac(m, p) == MacEnabled[m] /\ MacEnabled[air[p].from]

Buffers ==
    /\ air \in Seq(OnAir)
    /\ DOMAIN rx_buffer = Modem /\ \A m \in Modem : rx_buffer[m] \in Seq(Decoded(m))

Delivered ==
    /\ DOMAIN delivered = Modem
    /\ \A m \in Modem : \A d \in delivered[m] :
         /\ d.packet \in DOMAIN air
         /\ BothMac(m, d.packet) => ForMe(m, MyHdr(air[d.packet].from))
         /\ MacEnabled[m] = MacEnabled[air[d.packet].from]
              => d.data = air[d.packet].payload
Dropped ==
    /\ DOMAIN dropped = Modem
    /\ \A m \in Modem : \A p \in dropped[m] :
         /\ p \in DOMAIN air
         /\ MacEnabled[m] /\ (MacEnabled[air[p].from] => ~ForMe(m, MyHdr(air[p].from)))

Inv == Buffers /\ Delivered /\ Dropped

\* A packet on the air is some modem's, with the cargo of its payload.
LEMMA AirPacket ==
    ASSUME Buffers, NEW p \in DOMAIN air
    PROVE  /\ air[p].from \in Modem /\ air[p].payload \in Seq(Nat)
           /\ air[p].cargo = Cargo(TxChunk(air[p].from, air[p].payload))
<1>1. air[p] \in OnAir
  BY DEF Buffers
<1>2. PICK m \in Modem, payload \in Payload :
        air[p] = [from |-> m, payload |-> payload, cargo |-> Cargo(TxChunk(m, payload))]
  BY <1>1 DEF OnAir
<1>3. payload \in Seq(Nat)
  <2>1. payload \in Seq(0..255) /\ 0..255 \subseteq Nat
    BY ConstantAssumption
  <2>2. QED
    BY <2>1, SeqMonotonic
<1>4. QED
  BY <1>2, <1>3

\* The air keeps what was sent, so that all that refers to it stays true.
LEMMA TransmitKeeps ==
    ASSUME Inv, NEW m \in Modem, NEW payload \in Payload, Transmit(m, payload)
    PROVE  Inv'
<1> DEFINE sent == [from |-> m, payload |-> payload, cargo |-> Cargo(TxChunk(m, payload))]
<1>1. sent \in OnAir
  BY DEF OnAir
<1>2. air \in Seq(OnAir) /\ air' = Append(air, sent)
  BY DEF Transmit, Inv, Buffers
<1> HIDE DEF sent
<1>3. /\ air' \in Seq(OnAir) /\ Len(air) \in Nat /\ Len(air') = Len(air) + 1
      /\ \A p \in 1..Len(air) : air'[p] = air[p]
  BY <1>1, <1>2, AppendProperties
<1>4. DOMAIN air \subseteq DOMAIN air' /\ \A p \in DOMAIN air : air'[p] = air[p]
  BY <1>2, <1>3
<1>5. \A n \in Modem : Decoded(n) \subseteq Decoded(n)'
  BY <1>4 DEF Decoded
<1>6. UNCHANGED <<rx_buffer, delivered, dropped>>
  BY DEF Transmit
<1>7. \A n \in Modem : rx_buffer[n] \in Seq(Decoded(n)')
  BY <1>5, SeqMonotonic DEF Inv, Buffers
<1>8. Buffers'
  BY <1>3, <1>6, <1>7 DEF Inv, Buffers, OnAir, Cargo, TxChunk, MyHdr
<1>9. Delivered' /\ Dropped'
  BY <1>4, <1>6 DEF Inv, Delivered, Dropped, BothMac
<1>10. QED
  BY <1>8, <1>9 DEF Inv

\* A decoded packet joins the buffer as the chunk of its cargo.
LEMMA DecodeKeeps ==
    ASSUME Inv, NEW m \in Modem, NEW p \in DOMAIN air, Decode(m, p)
    PROVE  Inv'
<1> DEFINE new == [chunk |-> RxChunk(MacEnabled[m], air[p].cargo), packet |-> p]
<1>1. new \in Decoded(m)
  BY DEF Decoded
<1>2. UNCHANGED <<air, delivered, dropped>>
      /\ rx_buffer' = [rx_buffer EXCEPT ![m] = Append(rx_buffer[m], new)]
  BY DEF Decode
<1> HIDE DEF new
<1>3. Append(rx_buffer[m], new) \in Seq(Decoded(m))
  BY <1>1, AppendProperties DEF Inv, Buffers
<1>4. \A n \in Modem : Decoded(n)' = Decoded(n)
  BY <1>2 DEF Decoded
<1>5. Buffers'
  BY <1>2, <1>3, <1>4 DEF Inv, Buffers
<1>6. QED
  BY <1>2, <1>5 DEF Inv, Delivered, Dropped, BothMac

\* What main() hands over has the sender's bytes, and its header has decided.
LEMMA HandleKeeps ==
    ASSUME Inv, NEW m \in Modem, Handle(m)
    PROVE  Inv'
<1> DEFINE head == Head(rx_buffer[m])
           hdr == NextHdr(m, head.chunk)
<1>1. head \in Decoded(m) /\ Tail(rx_buffer[m]) \in Seq(Decoded(m))
  BY HeadTailProperties DEF Handle, Inv, Buffers
<1>2. PICK p \in DOMAIN air :
        head = [chunk |-> RxChunk(MacEnabled[m], air[p].cargo), packet |-> p]
  BY <1>1 DEF Decoded
<1>3. head.packet = p /\ head.chunk = RxChunk(MacEnabled[m], air[p].cargo)
  BY <1>2
<1>4. /\ air[p].from \in Modem /\ air[p].payload \in Seq(Nat)
      /\ air[p].cargo = Cargo(TxChunk(air[p].from, air[p].payload))
  BY AirPacket DEF Inv
<1>5. MacEnabled[m] = MacEnabled[air[p].from] =>
        /\ C!Data(Read(m, head.chunk)) = air[p].payload
        /\ MacEnabled[m] => hdr = MyHdr(air[p].from)
  BY <1>3, <1>4, Received
<1>6. /\ air' = air /\ rx_buffer' = [rx_buffer EXCEPT ![m] = Tail(rx_buffer[m])]
      /\ \/ /\ MacEnabled[m] => ForMe(m, hdr)
            /\ delivered' = [delivered EXCEPT ![m] = delivered[m] \cup
                               {[data |-> C!Data(Read(m, head.chunk)), packet |-> p]}]
            /\ dropped' = dropped
         \/ /\ MacEnabled[m] /\ ~ForMe(m, hdr)
            /\ dropped' = [dropped EXCEPT ![m] = dropped[m] \cup {p}]
            /\ delivered' = delivered
  BY <1>3 DEF Handle, Read
<1> HIDE DEF head, hdr
<1>7. \A n \in Modem : Decoded(n)' = Decoded(n)
  BY <1>6 DEF Decoded
<1>8. Buffers'
  BY <1>1, <1>6, <1>7 DEF Inv, Buffers
<1>9. MacEnabled[m] \in BOOLEAN /\ MacEnabled[air[p].from] \in BOOLEAN
  BY <1>4, ConstantAssumption
<1>10. CASE /\ MacEnabled[m] => ForMe(m, hdr)
            /\ delivered' = [delivered EXCEPT ![m] = delivered[m] \cup
                               {[data |-> C!Data(Read(m, head.chunk)), packet |-> p]}]
            /\ dropped' = dropped
  <2>1. Dropped'
    BY <1>6, <1>10 DEF Inv, Dropped
  <2>2. Delivered'
    <3> SUFFICES ASSUME NEW n \in Modem, NEW d \in delivered'[n]
                 PROVE  /\ d.packet \in DOMAIN air
                        /\ BothMac(n, d.packet) => ForMe(n, MyHdr(air[d.packet].from))
                        /\ MacEnabled[n] = MacEnabled[air[d.packet].from]
                             => d.data = air[d.packet].payload
      BY <1>6, <1>10 DEF Delivered, BothMac, Inv
    <3>1. CASE d \in delivered[n]
      BY <3>1 DEF Inv, Delivered
    <3>2. CASE n = m /\ d = [data |-> C!Data(Read(m, head.chunk)), packet |-> p]
      BY <1>5, <1>9, <1>10, <3>2 DEF BothMac
    <3>3. QED
      BY <1>10, <3>1, <3>2 DEF Inv, Delivered
  <2>3. QED
    BY <1>8, <2>1, <2>2 DEF Inv
<1>11. CASE /\ MacEnabled[m] /\ ~ForMe(m, hdr)
            /\ dropped' = [dropped EXCEPT ![m] = dropped[m] \cup {p}]
            /\ delivered' = delivered
  <2>1. Delivered'
    BY <1>6, <1>11 DEF Inv, Delivered, BothMac
  <2>2. Dropped'
    <3>1. MacEnabled[air[p].from] => ~ForMe(m, MyHdr(air[p].from))
      BY <1>5, <1>9, <1>11
    <3>2. QED
      BY <1>6, <1>11, <3>1 DEF Inv, Dropped
  <2>3. QED
    BY <1>8, <2>1, <2>2 DEF Inv
<1>12. QED
  BY <1>6, <1>10, <1>11

\* The inductive invariant of the way of a packet.
THEOREM Invariance == Spec => []Inv
<1>1. Init => Inv
  <2> SUFFICES ASSUME Init PROVE Inv
    OBVIOUS
  <2>1. air \in Seq(OnAir) /\ \A m \in Modem : rx_buffer[m] \in Seq(Decoded(m))
    BY EmptySeq DEF Init
  <2>2. QED
    BY <2>1 DEF Init, Inv, Buffers, Delivered, Dropped
<1>2. Inv /\ [Next]_vars => Inv'
  <2>1. CASE UNCHANGED vars
    BY <2>1 DEF vars, Inv, Buffers, Delivered, Dropped, BothMac, Decoded
  <2>2. QED
    BY <2>1, TransmitKeeps, DecodeKeeps, HandleKeeps DEF Next
<1>3. QED
  BY <1>1, <1>2, PTL DEF Spec

-----------------------------------------------------------------------------
(* What reaches a user                                                       *)

\* A user gets the bytes that the other user sent, if the two modems agree on
\* the use of the MAC header, whatever was sent, overheard and dropped besides.
THEOREM PayloadIntactCorrect == Spec => []PayloadIntact
<1>1. Inv => PayloadIntact
  BY DEF Inv, Delivered, PayloadIntact
<1>2. QED
  BY <1>1, Invariance, PTL

\* SentTo in terms of the 4 bits that a header keeps of an address.
FieldsSentTo(p, m) ==
    LET sender == air[p].from IN
    /\ SrcArg[sender] % AddrMod # SrcArg[m] % AddrMod
    /\ DestArg[sender] % AddrMod \in {BROADCAST_ADDRESS, SrcArg[m] % AddrMod}

\* The test of main() is made on those fields.
LEMMA ForMeByFields ==
    ASSUME Buffers, NEW m \in Modem, NEW p \in DOMAIN air
    PROVE  ForMe(m, MyHdr(air[p].from)) <=> FieldsSentTo(p, m)
  BY AirPacket, HdrFields DEF ForMe, FieldsSentTo

\* With the MAC header at both ends, whatever numbers were given as addresses: a
\* packet that a user gets was addressed to that node by its 4 bits, and one that
\* is dropped was not.
THEOREM AddressedByFields ==
    Spec => []\A m \in Modem :
        /\ \A d \in delivered[m] : BothMac(m, d.packet) => FieldsSentTo(d.packet, m)
        /\ \A p \in dropped[m] : MacEnabled[air[p].from] => ~FieldsSentTo(p, m)
<1>1. Inv => \A m \in Modem :
        /\ \A d \in delivered[m] : BothMac(m, d.packet) => FieldsSentTo(d.packet, m)
        /\ \A p \in dropped[m] : MacEnabled[air[p].from] => ~FieldsSentTo(p, m)
  BY ForMeByFields DEF Inv, Delivered, Dropped
<1>2. QED
  BY <1>1, Invariance, PTL

\* The addresses that the program's help allows: 1 to 15, and 0 to all.
AddressesInRange == \A m \in Modem : SrcArg[m] \in 0..15 /\ DestArg[m] \in 0..15

\* Of such addresses the 4 bits are the whole.
LEMMA FieldsAreAddresses ==
    ASSUME AddressesInRange, Buffers, NEW m \in Modem, NEW p \in DOMAIN air
    PROVE  FieldsSentTo(p, m) <=> SentTo(p, m)
<1>1. air[p].from \in Modem
  BY AirPacket
<1>2. \A a \in 0..15 : a % 16 = a
  OBVIOUS
<1>3. QED
  BY <1>1, <1>2 DEF AddressesInRange, FieldsSentTo, SentTo, AddrMod

\* With the MAC header at both ends and addresses in range, a user gets packets
\* for this node only, and never the modem's own.
THEOREM AddressedOnlyCorrect ==
    ASSUME AddressesInRange
    PROVE  Spec => []AddressedOnly
<1>1. Inv => AddressedOnly
  BY ForMeByFields, FieldsAreAddresses DEF Inv, Delivered, BothMac, AddressedOnly
<1>2. QED
  BY <1>1, Invariance, PTL

\* With the MAC header at both ends and addresses in range, a decoded packet is
\* dropped only if it was sent to another node or by this one.
THEOREM DroppedRightlyCorrect ==
    ASSUME AddressesInRange
    PROVE  Spec => []DroppedRightly
<1>1. Inv => DroppedRightly
  BY ForMeByFields, FieldsAreAddresses DEF Inv, Dropped, DroppedRightly
<1>2. QED
  BY <1>1, Invariance, PTL
=============================================================================
