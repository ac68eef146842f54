----------------------------- MODULE PacketPath -----------------------------
(***************************************************************************)
(* The way of a packet from one modem's user to another's: txLoop() puts   *)
(* the user's bytes and the MAC header in a chunk, modulate() makes the    *)
(* JANUS cargo of it, performDemodulation() makes a chunk of a cargo it    *)
(* hears and pushes it, main() pops it, reads the header and hands the     *)
(* data to the user or drops them.                                         *)
(*                                                                         *)
(* The water is outside: every modem may hear what any modem has sent,     *)
(* itself included (reflections, loopback), never, once or several times.  *)
(***************************************************************************)
EXTENDS Integers, Sequences, FiniteSets

CONSTANTS Modem,
          MacEnabled,  \* [Modem -> BOOLEAN]: parameter 7 of the program
          SrcArg,      \* [Modem -> Int]: parameter 8, the source address
          DestArg,     \* [Modem -> Int]: parameter 9, the destination address
          Payload,     \* sequences of bytes that users send
          MaxSent,     \* bound on the packets sent
          MaxBuffered  \* bound on the packets waiting in rx_buffer

ASSUME ConstantAssumption ==
    /\ MacEnabled \in [Modem -> BOOLEAN]
    /\ SrcArg \in [Modem -> Int] /\ DestArg \in [Modem -> Int]
    /\ Payload \subseteq Seq(0..255)
    /\ MaxSent \in Nat /\ MaxBuffered \in Nat

BROADCAST_ADDRESS == 0
AddrMod == 16                 \* the fields of MacHdr have 4 bits
MacSize == 1                  \* sizeof(MacHdr)

C == INSTANCE Chunk WITH MAX_HEADER_SIZE <- MacSize, SizeMod <- 256

VARIABLES air,        \* history: packets sent, [from, payload, cargo]
          rx_buffer,  \* rx_buffer[m]: decoded chunks, each with its packet
          tx_hdr,     \* tx_hdr[m]: the header main() read last, as a byte
          delivered,  \* history: delivered[m]: [data, packet] handed to the user
          dropped     \* history: dropped[m]: packets that main() dropped

vars == <<air, rx_buffer, tx_hdr, delivered, dropped>>

\* MacHdr as the one byte it occupies, and its fields.
MacHdr(src, dest) == (src % AddrMod) + AddrMod * (dest % AddrMod)
SrcAddr(hdr)  == hdr % AddrMod
DestAddr(hdr) == hdr \div AddrMod
MyHdr(m) == MacHdr(SrcArg[m], DestArg[m])

Init ==
    /\ air = <<>>
    /\ rx_buffer = [m \in Modem |-> <<>>]
    /\ tx_hdr = [m \in Modem |-> 0]
    /\ delivered = [m \in Modem |-> {}]
    /\ dropped = [m \in Modem |-> {}]

\* txLoop(): the chunk that server.rx() filled, with the header if enabled.
TxChunk(m, payload) ==
    LET chunk == C!SetSize(C!WriteData(C!NewChunk(Len(payload)), payload), Len(payload))
    IN IF MacEnabled[m] THEN C!AddHeader(chunk, <<MyHdr(m)>>) ELSE chunk

\* modulate(): header and data, one after the other.
Cargo(chunk) == C!Header(chunk) \o C!Data(chunk)

Transmit(m, payload) ==
    /\ Len(air) < MaxSent
    /\ air' = Append(air, [from |-> m, payload |-> payload,
                           cargo |-> Cargo(TxChunk(m, payload))])
    /\ UNCHANGED <<rx_buffer, tx_hdr, delivered, dropped>>

\* Mutant: the header is copied with the data.
RxChunkWithHeader(mac_mode, cargo) ==
    LET chunk == C!NewChunk(Len(cargo))
        data  == IF mac_mode THEN Tail(cargo) ELSE cargo
        whole == C!SetSize(C!WriteData(chunk, cargo), Len(data))
    IN IF mac_mode THEN C!AddHeader(whole, SubSeq(cargo, 1, MacSize)) ELSE whole

\* performDemodulation(): with MAC mode the first byte becomes the header.
RxChunk(mac_mode, cargo) ==
    LET chunk == C!NewChunk(Len(cargo))
        data  == IF mac_mode THEN Tail(cargo) ELSE cargo
        whole == C!SetSize(C!WriteData(chunk, data), Len(data))
    IN IF mac_mode THEN C!AddHeader(whole, SubSeq(cargo, 1, MacSize)) ELSE whole

\* Modem m decodes packet p; in MAC mode a cargo without data is dropped here.
Decode(m, p) ==
    /\ Len(rx_buffer[m]) < MaxBuffered
    /\ MacEnabled[m] => Len(air[p].cargo) > MacSize
    /\ rx_buffer' = [rx_buffer EXCEPT ![m] =
                        Append(@, [chunk |-> RxChunk(MacEnabled[m], air[p].cargo), packet |-> p])]
    /\ UNCHANGED <<air, tx_hdr, delivered, dropped>>

\* The header main() has after deserializeHeader(): the old one if that fails.
NextHdr(m, chunk) ==
    IF MacEnabled[m] /\ C!DeserializeOk(chunk, MacSize)
    THEN C!Deserialized(chunk, MacSize)[1] ELSE tx_hdr[m]

\* Mutant: the destination is compared with the node's own destination.
ForMeByDest(m, hdr) ==
    /\ SrcAddr(hdr) # SrcAddr(MyHdr(m))
    /\ DestAddr(hdr) \in {BROADCAST_ADDRESS, DestAddr(MyHdr(m))}

\* Mutant: own packets are not told apart.
ForMeOrMine(m, hdr) == DestAddr(hdr) \in {BROADCAST_ADDRESS, SrcAddr(MyHdr(m))}

\* Not self interference, and sent to everybody or to this node.
ForMe(m, hdr) ==
    /\ SrcAddr(hdr) # SrcAddr(MyHdr(m))
    /\ DestAddr(hdr) \in {BROADCAST_ADDRESS, SrcAddr(MyHdr(m))}

\* main(): one packet popped from rx_buffer.
Handle(m) ==
    /\ rx_buffer[m] # <<>>
    /\ LET popped == Head(rx_buffer[m]).chunk
           p      == Head(rx_buffer[m]).packet
           hdr    == NextHdr(m, popped)
           chunk  == IF MacEnabled[m] THEN C!AfterDeserialize(popped, MacSize) ELSE popped
       IN /\ tx_hdr' = [tx_hdr EXCEPT ![m] = hdr]
          /\ \/ /\ MacEnabled[m] => ForMe(m, hdr)
                /\ delivered' = [delivered EXCEPT ![m] =
                                    @ \cup {[data |-> C!Data(chunk), packet |-> p]}]
                /\ UNCHANGED dropped
             \/ /\ MacEnabled[m] /\ ~ForMe(m, hdr)
                /\ dropped' = [dropped EXCEPT ![m] = @ \cup {p}]
                /\ UNCHANGED delivered
    /\ rx_buffer' = [rx_buffer EXCEPT ![m] = Tail(@)]
    /\ UNCHANGED air

Next ==
    \E m \in Modem :
        \/ \E payload \in Payload : Transmit(m, payload)
        \/ \E p \in DOMAIN air : Decode(m, p)
        \/ Handle(m)

Spec == Init /\ [][Next]_vars

-----------------------------------------------------------------------------
\* Packet p was sent to modem m: by another modem, to all or to m's address.
SentTo(p, m) ==
    LET sender == air[p].from IN
    /\ SrcArg[sender] # SrcArg[m]
    /\ DestArg[sender] \in {BROADCAST_ADDRESS, SrcArg[m]}

\* With the MAC header at both ends a user gets packets for this node only,
\* and never the modem's own.
AddressedOnly ==
    \A m \in Modem : \A d \in delivered[m] :
        MacEnabled[m] /\ MacEnabled[air[d.packet].from] => SentTo(d.packet, m)

\* With the MAC header at both ends a decoded packet is dropped only if it was
\* sent to another node or by this one.
DroppedRightly ==
    \A m \in Modem : \A p \in dropped[m] :
        MacEnabled[air[p].from] => ~SentTo(p, m)

\* A user gets the bytes that the other user sent, if the two modems agree on
\* the use of the MAC header.
PayloadIntact ==
    \A m \in Modem : \A d \in delivered[m] :
        MacEnabled[m] = MacEnabled[air[d.packet].from] => d.data = air[d.packet].payload
=============================================================================
