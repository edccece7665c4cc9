---------------------------- MODULE SparseImage ----------------------------
(***************************************************************************)
(* tools/imagectl.py, class SparseImage: the Android sparse image that     *)
(* carries super.img, parsed chunk by chunk into a chunk map, and the      *)
(* range reads every partition is later extracted with.                    *)
(*                                                                         *)
(* The file is revealed as it is parsed: each step of the loop of _parse   *)
(* reads one chunk header chosen freely, so every well-formed and every    *)
(* malformed file within the bounds is parsed.  Bytes are abstract: the    *)
(* byte at offset p of the file is Input(p), no two alike; the bytes of a  *)
(* fill pattern are 1..4; a byte no chunk cares about is Zero.             *)
(***************************************************************************)
EXTENDS Integers, Sequences, FiniteSetsExt, SequencesExt

CONSTANTS
    BlockSize,      \* block_size, a multiple of four
    HeaderSize,     \* chunk_header_size; file offsets start at the first chunk
    Buffer,         \* BUFFER_SIZE of a copy
    MaxChunks,      \* bound: total_chunks in the file header
    MaxBlocks       \* bound: total_blocks in the file header, and a chunk's blocks

SparseAssumption ==
    /\ BlockSize \in Nat \ {0} /\ BlockSize % 4 = 0
    /\ HeaderSize \in Nat \ {0} /\ Buffer \in Nat \ {0}
    /\ MaxChunks \in Nat \ {0} /\ MaxBlocks \in Nat \ {0}

VARIABLES
    header,         \* total_blocks, total_chunks, and the size of the file
    pc,             \* "parsing", "open" or "refused"
    read,           \* the chunk headers accepted so far, as the file has them
    tell,           \* the file offset of the next chunk header
    output_cursor,  \* expanded bytes described so far
    chunks          \* the chunk map: self.chunks, self._starts being its starts

vars == <<header, pc, read, tell, output_cursor, chunks>>

Zero == 0
Input(p) == 5 + p
ZeroFill == <<0, 0, 0, 0>>
Pattern == <<1, 2, 3, 4>>
Zeros(n) == [i \in 1..n |-> Zero]

\* A chunk header with what its payload says: the size, and a fill's four bytes.
ChunkHeaders ==
    {c \in [kind : {"raw", "fill", "dont_care", "crc32"}, blocks : 0..MaxBlocks,
            payload : {0, 4} \cup {n * BlockSize : n \in 1..MaxBlocks},
            fill : {ZeroFill, Pattern}] :
        c.kind # "fill" => c.fill = ZeroFill}

\* The payload each kind of chunk must have, and whether it covers output.
Describes(c) ==
    LET size == c.blocks * BlockSize
    IN  CASE c.kind = "raw"       -> size # 0 /\ c.payload = size
          [] c.kind = "fill"      -> size # 0 /\ c.payload = 4
          [] c.kind = "dont_care" -> size # 0 /\ c.payload = 0
          [] c.kind = "crc32"     -> c.blocks = 0 /\ c.payload = 4

----------------------------------------------------------------------------

Init ==
    /\ header \in [blocks : 1..MaxBlocks, chunks : 1..MaxChunks,
                   size : 1..(MaxChunks * (HeaderSize + MaxBlocks * BlockSize))]
    /\ header.chunks <= header.size \div HeaderSize
    /\ pc = "parsing"
    /\ read = <<>> /\ chunks = <<>>
    /\ tell = 0 /\ output_cursor = 0

Refuse == pc' = "refused" /\ UNCHANGED <<header, read, tell, output_cursor, chunks>>

\* The mapped chunk: where its output starts, how long it is, where its bytes are.
Mapped(c) ==
    [kind |-> c.kind, output_start |-> output_cursor,
     output_size |-> c.blocks * BlockSize,
     input_offset |-> tell + HeaderSize, fill |-> c.fill]

\* A chunk that covers output joins the map; a checksum is skipped.
MapChunk(c) ==
    IF c.kind = "crc32"
    THEN UNCHANGED <<chunks, output_cursor>>
    ELSE /\ chunks' = Append(chunks, Mapped(c))
         /\ output_cursor' = output_cursor + c.blocks * BlockSize

\* One iteration of the loop over total_chunks.
ParseChunk(c) ==
    /\ pc = "parsing" /\ Len(read) < header.chunks
    /\ IF tell + HeaderSize + c.payload <= header.size /\ Describes(c)
       THEN /\ read' = Append(read, c)
            /\ MapChunk(c)
            /\ tell' = tell + HeaderSize + c.payload
            /\ UNCHANGED <<header, pc>>
       ELSE Refuse

\* Plausible bug: the described size is not compared with the header's.
EndParse_AnySize ==
    /\ pc = "parsing" /\ Len(read) = header.chunks
    /\ pc' = IF tell = header.size THEN "open" ELSE "refused"
    /\ UNCHANGED <<header, read, tell, output_cursor, chunks>>

\* After the loop: every block described, no byte of the file left over.
EndParse ==
    /\ pc = "parsing" /\ Len(read) = header.chunks
    /\ pc' = IF output_cursor = header.blocks * BlockSize /\ tell = header.size
             THEN "open" ELSE "refused"
    /\ UNCHANGED <<header, read, tell, output_cursor, chunks>>

Next == EndParse \/ \E c \in ChunkHeaders : ParseChunk(c)

Spec == Init /\ [][Next]_vars

----------------------------------------------------------------------------
(* Reading the open image: _segments, _fill_bytes, read_at, copy_range.    *)

Least(a, b) == IF a < b THEN a ELSE b
ImageSize == header.blocks * BlockSize

\* bisect_right(self._starts, offset) - 1, counted from one.
StartIndex(offset) ==
    Cardinality({i \in DOMAIN chunks : chunks[i].output_start <= offset})

\* What _segments yields for a range, up to where it raises: one segment after
\* the other, each from the chunk that follows.
Segments(offset, size) ==
    LET taken[n \in 0..Len(chunks)] ==
          IF n = 0 THEN [cursor |-> offset, segments |-> <<>>]
          ELSE LET sofar == taken[n - 1]
                   cursor == sofar.cursor
                   index == StartIndex(offset) + Len(sofar.segments)
                   chunk == chunks[index]
                   end == chunk.output_start + chunk.output_size
                   take == Least(offset + size, end) - cursor
               IN  IF cursor < offset + size /\ index \in DOMAIN chunks
                      /\ cursor \in chunk.output_start..(end - 1)
                   THEN [cursor |-> cursor + take,
                         segments |-> Append(sofar.segments,
                            [chunk |-> chunk, relative |-> cursor - chunk.output_start,
                             take |-> take])]
                   ELSE sofar
    IN  taken[Len(chunks)].segments

\* Plausible bug: the pattern starts over in every piece.
FillBytes_Unrotated(pattern, offset, size) ==
    [i \in 1..size |-> pattern[((i - 1) % 4) + 1]]

\* size bytes of the repeated pattern, starting at an offset into it.
FillBytes(pattern, offset, size) ==
    LET start == offset % 4
        rotated == SubSeq(pattern, start + 1, 4) \o SubSeq(pattern, 1, start)
    IN  [i \in 1..size |-> rotated[((i - 1) % 4) + 1]]

\* size bytes of a chunk from an offset into it.
Data(chunk, relative, size) ==
    CASE chunk.kind = "raw"  -> [i \in 1..size |-> Input(chunk.input_offset + relative + i - 1)]
      [] chunk.kind = "fill" -> FillBytes(chunk.fill, relative, size)
      [] OTHER               -> Zeros(size)

ReadAt(offset, size) ==
    FlattenSeq([k \in DOMAIN Segments(offset, size) |->
        LET s == Segments(offset, size)[k] IN Data(s.chunk, s.relative, s.take)])

\* The writes of one segment, at most Buffer bytes each.
Pieces(s) ==
    FlattenSeq([k \in 1..((s.take + Buffer - 1) \div Buffer) |->
        LET copied == (k - 1) * Buffer
        IN  Data(s.chunk, s.relative + copied, Least(Buffer, s.take - copied))])

\* The destination is a fresh file: what is seeked over reads as zeros.
IsHole(chunk) ==
    chunk.kind = "dont_care" \/ (chunk.kind = "fill" /\ chunk.fill = ZeroFill)

CopyRange(offset, size) ==
    FlattenSeq([k \in DOMAIN Segments(offset, size) |->
        LET s == Segments(offset, size)[k]
        IN  IF IsHole(s.chunk) THEN Zeros(s.take) ELSE Pieces(s)])

----------------------------------------------------------------------------
(* What the format says, from the file alone.                              *)

Payloads == [i \in DOMAIN read |-> read[i].payload]
PayloadAt(i) == i * HeaderSize + SumFunctionOnSet(Payloads, 1..(i - 1))

ChunkBytes(i) ==
    LET c == read[i]
        size == c.blocks * BlockSize
    IN  CASE c.kind = "raw"  -> [j \in 1..size |-> Input(PayloadAt(i) + j - 1)]
          [] c.kind = "fill" -> [j \in 1..size |-> c.fill[((j - 1) % 4) + 1]]
          [] OTHER           -> Zeros(size)

Expanded == FlattenSeq([i \in DOMAIN read |-> ChunkBytes(i)])

\* The variables have the types the parser gives them.
TypeOK ==
    /\ pc \in {"parsing", "open", "refused"}
    /\ Len(read) \in 0..header.chunks /\ Len(chunks) <= Len(read)
    /\ tell \in 0..header.size
    /\ output_cursor \in 0..(MaxChunks * MaxBlocks * BlockSize)

\* An image is opened only when it describes exactly the blocks its header
\* promises and every byte of the file has been accounted for: then, and only
\* then, does the size reported for it mean anything (_parse).
OpenIsWhole ==
    pc = "open" => /\ Len(Expanded) = ImageSize
                   /\ header.size = Len(read) * HeaderSize + SumFunction(Payloads)

\* Whatever range is read, wherever it starts and ends - inside a chunk, at
\* its edge, across several, around a checksum chunk, out of phase with a fill
\* pattern - read_at returns that slice of the expanded image.
\* And a partition extracted with copy_range, in pieces and with holes, has
\* the bytes that reading the same range gives: the two ways the code reads a
\* sparse image agree.
RangeIsSlice ==
    pc = "open" =>
        \A offset \in 0..ImageSize : \A size \in 0..(ImageSize - offset) :
            LET slice == SubSeq(Expanded, offset + 1, offset + size)
            IN  ReadAt(offset, size) = slice /\ CopyRange(offset, size) = slice

=============================================================================
