----------------------------- MODULE SdatImage -----------------------------
(***************************************************************************)
(* tools/imagectl.py, parse_transfer_list and convert_sdat: the OTA form   *)
(* of the base partitions.  A transfer list names block ranges, new.dat    *)
(* holds the blocks of the "new" ones one after another in list order.     *)
(*                                                                         *)
(* The list is revealed line by line, so every well-formed and malformed   *)
(* list within the bounds is parsed; the d-th block of new.dat is d, a     *)
(* block nothing was written to is Zero.                                   *)
(***************************************************************************)
EXTENDS Integers, Sequences, FiniteSets, SequencesExt

CONSTANTS
    MaxBlock,       \* bound: block numbers in the list
    MaxLines,       \* bound: command lines of the list
    MaxRanges       \* bound: ranges of a line

SdatAssumption ==
    MaxBlock \in Nat \ {0} /\ MaxLines \in Nat \ {0} /\ MaxRanges \in Nat \ {0}

VARIABLES
    pc,             \* "parsing", "parsed", "copying", "done", "refused" or "short"
    declared,       \* declared_blocks, the second line of the list
    commands,       \* the commands read so far: operation and ranges
    image_blocks,   \* the largest end of any range, of "erase" too
    data,           \* blocks in new.dat
    position,       \* blocks of new.dat read so far
    output          \* the temporary image, block by block

plan == <<declared, commands, image_blocks>>
vars == <<pc, plan, data, position, output>>

Zero == 0
Ranges == (0..MaxBlock) \X (0..MaxBlock)
RangeSets == UNION {[1..n -> Ranges] : n \in 1..MaxRanges}
Operations == {"new", "zero", "erase"}

\* _parse_ranges: each range nonempty, none starting before the one before it ends.
Ordered(ranges) ==
    \A i \in DOMAIN ranges :
        /\ ranges[i][1] < ranges[i][2]
        /\ i > 1 => ranges[i][1] >= ranges[i - 1][2]

\* The ranges of every line of one operation, in list order.
RangesOf(operation) ==
    FlattenSeq([i \in DOMAIN commands |->
        IF commands[i].operation = operation THEN commands[i].ranges ELSE <<>>])

Sizes(ranges) == [i \in DOMAIN ranges |-> ranges[i][2] - ranges[i][1]]
Blocks(ranges) == SumFunction(Sizes(ranges))

FinalRanges == RangesOf("new") \o RangesOf("zero")

\* Plausible bug: only ranges of the same line are compared, as _parse_ranges does.
Disjoint_PerLine(ranges) == TRUE

\* The sorted final ranges do not overlap.
Disjoint(ranges) ==
    \A i, j \in DOMAIN ranges :
        i # j => ranges[i][2] <= ranges[j][1] \/ ranges[j][2] <= ranges[i][1]

----------------------------------------------------------------------------

Init ==
    /\ pc = "parsing" /\ declared \in 1..MaxBlock
    /\ commands = <<>> /\ image_blocks = 0
    /\ data = 0 /\ position = 0 /\ output = <<>>

\* Plausible bug: the end of a range is taken for its last block.
ParseLine_InclusiveEnd(operation, ranges) ==
    /\ pc = "parsing" /\ Len(commands) < MaxLines
    /\ IF Ordered(ranges)
       THEN /\ commands' = Append(commands, [operation |-> operation, ranges |-> ranges])
            /\ LET end == ranges[Len(ranges)][2] + 1
               IN  image_blocks' = IF end > image_blocks THEN end ELSE image_blocks
            /\ UNCHANGED pc
       ELSE pc' = "refused" /\ UNCHANGED <<commands, image_blocks>>
    /\ UNCHANGED <<declared, data, position, output>>

\* One command line.
ParseLine(operation, ranges) ==
    /\ pc = "parsing" /\ Len(commands) < MaxLines
    /\ IF Ordered(ranges)
       THEN /\ commands' = Append(commands, [operation |-> operation, ranges |-> ranges])
            /\ LET end == ranges[Len(ranges)][2]
               IN  image_blocks' = IF end > image_blocks THEN end ELSE image_blocks
            /\ UNCHANGED pc
       ELSE pc' = "refused" /\ UNCHANGED <<commands, image_blocks>>
    /\ UNCHANGED <<declared, data, position, output>>

\* The end of the list, and the checks after the loop.
EndParse ==
    /\ pc = "parsing"
    /\ pc' = IF /\ Blocks(RangesOf("new")) > 0
                /\ Blocks(FinalRanges) = declared
                /\ Disjoint(FinalRanges)
             THEN "parsed" ELSE "refused"
    /\ UNCHANGED <<plan, data, position, output>>

\* convert_sdat: new.dat has the size the list describes, and the temporary
\* output is truncated to the image's size, all zeros.
OpenData(size) ==
    /\ pc = "parsed"
    /\ IF size = Blocks(RangesOf("new"))
       THEN /\ pc' = "copying"
            /\ data' = size
            /\ output' = [b \in 0..(image_blocks - 1) |-> Zero]
       ELSE pc' = "refused" /\ UNCHANGED <<data, output>>
    /\ UNCHANGED <<plan, position>>

\* The block the k-th block of new.dat goes to: the loop over the ranges of
\* the new commands, each seeked to its start.
Place(ranges, k) ==
    LET before(i) == SumFunctionOnSet(Sizes(ranges), 1..(i - 1))
        i == CHOOSE j \in DOMAIN ranges :
                before(j) < k /\ k <= before(j) + Sizes(ranges)[j]
    IN  ranges[i][1] + (k - before(i)) - 1

Wanted == Blocks(RangesOf("new"))

\* Read the next block of new.dat and write it in its place.
CopyBlock ==
    /\ pc = "copying" /\ position < Wanted
    /\ IF position < data
       THEN /\ output' = [output EXCEPT ![Place(RangesOf("new"), position + 1)] = position + 1]
            /\ position' = position + 1 /\ UNCHANGED pc
       ELSE pc' = "short" /\ UNCHANGED <<position, output>>
    /\ UNCHANGED <<plan, data>>

\* The last range is filled: nothing may be left in new.dat; the image is committed.
Commit ==
    /\ pc = "copying" /\ position = Wanted
    /\ pc' = IF position = data THEN "done" ELSE "short"
    /\ UNCHANGED <<plan, data, position, output>>

Next ==
    \/ \E operation \in Operations, ranges \in RangeSets : ParseLine(operation, ranges)
    \/ EndParse
    \/ \E size \in 0..(MaxBlock + 1) : OpenData(size)
    \/ CopyBlock \/ Commit

Spec == Init /\ [][Next]_vars

----------------------------------------------------------------------------

\* The variables have the types the parser and the copy give them.
TypeOK ==
    /\ pc \in {"parsing", "parsed", "copying", "done", "refused", "short"}
    /\ image_blocks \in 0..MaxBlock
    /\ position \in 0..data
    /\ \A i \in DOMAIN commands : commands[i].operation \in Operations
    /\ pc \in {"copying", "done"} => DOMAIN output = 0..(image_blocks - 1)

Covered(operation) ==
    UNION {RangesOf(operation)[i][1]..(RangesOf(operation)[i][2] - 1) :
             i \in DOMAIN RangesOf(operation)}

\* A committed image holds data in exactly the blocks of the new ranges and
\* zeros in those of the zero ranges, and within a range the data is in
\* new.dat's order.  On the way no block is written twice, so that none of
\* new.dat is lost (convert_sdat, resting on the overlap check that
\* parse_transfer_list makes over all lines), and a copy that was begun never
\* ends for want of data or with data left over: the counts the parser keeps
\* and the ranges the copy walks agree.
ImageIsTransferred ==
    /\ pc # "short"
    /\ pc = "copying" => Cardinality({b \in DOMAIN output : output[b] # Zero}) = position
    /\ pc = "done" =>
        /\ \A b \in DOMAIN output : output[b] # Zero <=> b \in Covered("new")
        /\ \A b \in Covered("zero") : output[b] = Zero
        /\ \A i \in DOMAIN RangesOf("new") :
             LET r == RangesOf("new")[i]
             IN  \A b \in r[1]..(r[2] - 2) : output[b + 1] = output[b] + 1

=============================================================================
