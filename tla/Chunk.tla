------------------------------- MODULE Chunk -------------------------------
(***************************************************************************)
(* The container modem_utils/chunk.{h,cpp}: bytes of data in a vector of   *)
(* fixed capacity, and headers that grow from the end of a header buffer   *)
(* to its front.  The samples a chunk may carry are left out.              *)
(***************************************************************************)
EXTENDS Naturals, Sequences

CONSTANTS MAX_HEADER_SIZE,  \* bytes in the header buffer
          SizeMod           \* size_t counts modulo this (2^64 in the program)

NewChunk(max_bytes) ==
    [data_chunk     |-> [i \in 1..max_bytes |-> 0],
     chunk_size     |-> 0,
     chunk_hdr      |-> [i \in 1..MAX_HEADER_SIZE |-> 0],
     hdr_rev_offset |-> MAX_HEADER_SIZE]

\* memcpy of bytes to data(), which the callers keep within the capacity.
WriteData(c, bytes) ==
    [c EXCEPT !.data_chunk = [i \in DOMAIN @ |->
                                 IF i \in DOMAIN bytes THEN bytes[i] ELSE @[i]]]

SetSize(c, sz) ==
    [c EXCEPT !.chunk_size = IF sz > Len(c.data_chunk) THEN Len(c.data_chunk) ELSE sz]

Data(c) == SubSeq(c.data_chunk, 1, c.chunk_size)

Header(c) == SubSeq(c.chunk_hdr, c.hdr_rev_offset + 1, MAX_HEADER_SIZE)

\* addHeader() rejects an empty header only: a difference of two size_t is never
\* below zero.  What the memcpy would write outside the buffer is lost here.
AddHeader(c, hdr) ==
    LET offset == (SizeMod + c.hdr_rev_offset - Len(hdr)) % SizeMod
    IN [c EXCEPT
          !.chunk_hdr = [i \in DOMAIN @ |->
              IF i - offset \in DOMAIN hdr THEN hdr[i - offset] ELSE @[i]],
          !.hdr_rev_offset = offset]

DeserializeOk(c, size) ==
    size > 0 /\ (c.hdr_rev_offset + size) % SizeMod <= MAX_HEADER_SIZE

\* What deserializeHeader() copies out, and what it leaves.
Deserialized(c, size) == SubSeq(c.chunk_hdr, c.hdr_rev_offset + 1, c.hdr_rev_offset + size)

AfterDeserialize(c, size) ==
    IF DeserializeOk(c, size) THEN [c EXCEPT !.hdr_rev_offset = @ + size] ELSE c
=============================================================================
