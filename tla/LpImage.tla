------------------------------- MODULE LpImage -------------------------------
(***************************************************************************)
(* tools/imagectl.py, read_lp_geometry, read_lp_metadata and               *)
(* extract_lp_partitions: the logical partitions inside super.img.         *)
(* Geometry and metadata exist twice; what is damaged in the primary copy  *)
(* is read from the backup.  The partitions asked for are then copied      *)
(* extent by extent, each to a temporary file that is renamed when whole;  *)
(* how the reader copies the range of an extent is in SparseImage.         *)
(*                                                                         *)
(* The image is revealed as it is read.  Sizes are in sectors and in table *)
(* entries, all entries being of one size; sector s of the image holds     *)
(* s + 1, a sector of zeros 0.  A bad magic, version, checksum, flag or    *)
(* name is Damaged.                                                        *)
(***************************************************************************)
EXTENDS Integers, Sequences, SequencesExt

CONSTANTS
    ImageSectors,   \* image.size
    Reserved,       \* sectors before the metadata slots
    MaxSlots,       \* bound: metadata_slot_count
    MaxTables,      \* bound: tables_size
    MaxEntries,     \* bound: entries of partitions, extents, groups, devices
    FirstSectors,   \* bound: first_logical_sector of a device
    DeviceSizes,    \* bound: size of a device
    MaxSectors,     \* bound: num_sectors and target_data of an extent
    MaxCount,       \* bound: num_extents of a partition
    MaxIndex,       \* bound: the index of an extent, group or device
    Names,          \* partition names
    Requests,       \* lists of names that may be asked for
    NoFile          \* no output of a name

LpAssumption ==
    /\ ImageSectors \in Nat /\ Reserved \in Nat
    /\ MaxSlots \in Nat \ {0} /\ MaxTables \in Nat
    /\ MaxEntries \in [1..4 -> Nat]
    /\ FirstSectors \cup DeviceSizes \subseteq Nat
    /\ {MaxSectors, MaxCount, MaxIndex} \subseteq Nat
    /\ Requests \subseteq Seq(Names)

VARIABLES
    request, slot,  \* names and slot asked for
    pc,
    copy,           \* the copy being read: "primary" or "backup"
    slots,          \* metadata_slot_count of the geometry accepted
    tables_size,
    layout,         \* the descriptors read: offset and entries of each table
    devices, extents, partitions,   \* the entries accepted so far
    at, extent,     \* place in request and in its partition's extents
    output,         \* the temporary file, sector by sector
    position,       \* output.tell()
    files           \* the published outputs

tables == <<tables_size, layout, devices, extents, partitions>>
writing == <<at, extent, output, position, files>>
vars == <<request, slot, pc, copy, slots, tables, writing>>

Devices == [first : FirstSectors, size : DeviceSizes]
Extents == [sectors : 0..MaxSectors, type : {"linear", "zero"}, data : 0..MaxSectors,
            source : 0..MaxIndex]
Partitions == [name : Names, first : 0..MaxIndex, count : 0..MaxCount,
               group : 0..MaxIndex, disabled : BOOLEAN]

NoTables ==
    /\ tables_size' = 0 /\ layout' = <<>>
    /\ devices' = <<>> /\ extents' = <<>> /\ partitions' = <<>>

Init ==
    /\ request \in Requests /\ slot \in 0..MaxSlots
    /\ pc = "geometry" /\ copy = "primary" /\ slots = 0
    /\ tables_size = 0 /\ layout = <<>>
    /\ devices = <<>> /\ extents = <<>> /\ partitions = <<>>
    /\ at = 1 /\ extent = 1 /\ output = <<>> /\ position = 0
    /\ files = [n \in Names |-> NoFile]

----------------------------------------------------------------------------
(* read_lp_geometry, read_lp_metadata *)

ReadGeometry ==
    /\ pc = "geometry"
    /\ \/ \E n \in 1..MaxSlots :
            /\ slots' = n /\ copy' = "primary"
            /\ pc' = IF slot < n THEN "header" ELSE "refused"
       \/ /\ IF copy = "primary" THEN copy' = "backup" /\ UNCHANGED pc
                                 ELSE pc' = "refused" /\ UNCHANGED copy
          /\ UNCHANGED slots
    /\ UNCHANGED <<request, slot, tables, writing>>

\* An ImageError in the primary copy starts the backup from its beginning.
Reject ==
    /\ NoTables
    /\ IF copy = "primary" THEN copy' = "backup" /\ pc' = "header"
                           ELSE pc' = "refused" /\ UNCHANGED copy
    /\ UNCHANGED <<request, slot, slots, writing>>

Damaged ==
    pc \in {"header", "tables", "devices", "extents", "partitions"} /\ Reject

\* What reading more of one copy leaves alone.
Reading == UNCHANGED <<request, slot, copy, slots, writing>>

ReadHeader ==
    /\ pc = "header" /\ pc' = "tables"
    /\ tables_size' \in 0..MaxTables
    /\ UNCHANGED <<layout, devices, extents, partitions>> /\ Reading

\* One table descriptor, within tables_size.
ReadDescriptor ==
    /\ pc = "tables" /\ Len(layout) < 4
    /\ \E offset \in 0..tables_size, n \in 0..MaxEntries[Len(layout) + 1] :
          /\ offset + n <= tables_size
          /\ layout' = Append(layout, <<offset, n>>)
    /\ UNCHANGED <<pc, tables_size, devices, extents, partitions>> /\ Reading

\* The tables of nonempty_ranges.
Nonempty == {t \in 1..4 : layout[t][2] > 0}

\* The cursor over the sorted ranges comes from 0 to tables_size: taken in some
\* order each begins where the one before it ends, and it is the sorted one as
\* none is empty.  No overlap, no gap, nothing left.
TablesTile ==
    \E order \in Bijection(1..Cardinality(Nonempty), Nonempty) :
        LET end(i) == IF i = 0 THEN 0 ELSE layout[order[i]][1] + layout[order[i]][2]
        IN  /\ \A i \in DOMAIN order : layout[order[i]][1] = end(i - 1)
            /\ end(Cardinality(Nonempty)) = tables_size

Count(table) == layout[table][2]

\* The tables tile tables_size and there is a group.
CheckTables ==
    /\ pc = "tables" /\ Len(layout) = 4
    /\ IF TablesTile /\ Count(3) > 0
       THEN pc' = "devices" /\ UNCHANGED tables /\ Reading
       ELSE Reject

ReadDevice(d) ==
    /\ pc = "devices" /\ Len(devices) < Count(4)
    /\ IF d.size # 0
       THEN /\ devices' = Append(devices, d)
            /\ UNCHANGED <<pc, tables_size, layout, extents, partitions>> /\ Reading
       ELSE Reject

\* The super device fits the image and begins after all metadata slots.
DevicesFit ==
    /\ devices # <<>>
    /\ devices[1].size <= ImageSectors
    /\ Reserved + 2 * slots <= devices[1].first

EndDevices ==
    /\ pc = "devices" /\ Len(devices) = Count(4)
    /\ IF DevicesFit THEN pc' = "extents" /\ UNCHANGED tables /\ Reading ELSE Reject

ExtentFits(e) ==
    /\ e.sectors # 0
    /\ IF e.type = "linear"
       THEN e.source < Len(devices) /\ e.data + e.sectors <= devices[e.source + 1].size
       ELSE e.data = 0 /\ e.source = 0

ReadExtent(e) ==
    /\ pc = "extents" /\ Len(extents) < Count(2)
    /\ IF ExtentFits(e)
       THEN /\ extents' = Append(extents, e)
            /\ UNCHANGED <<pc, tables_size, layout, devices, partitions>> /\ Reading
       ELSE Reject

EndExtents ==
    /\ pc = "extents" /\ Len(extents) = Count(2)
    /\ pc' = "partitions"
    /\ UNCHANGED tables /\ Reading

PartitionFits(p) ==
    /\ p.first + p.count <= Len(extents)
    /\ p.group < Count(3)
    /\ \A i \in DOMAIN partitions : partitions[i].name # p.name

ReadPartition(p) ==
    /\ pc = "partitions" /\ Len(partitions) < Count(1)
    /\ IF PartitionFits(p)
       THEN /\ partitions' = Append(partitions, p)
            /\ UNCHANGED <<pc, tables_size, layout, devices, extents>> /\ Reading
       ELSE Reject

\* The metadata is accepted; the request is compared with it.
EndPartitions ==
    /\ pc = "partitions" /\ Len(partitions) = Count(1)
    /\ pc' = IF /\ IsInjective(request)
                /\ \A n \in ToSet(request) : \E q \in ToSet(partitions) : q.name = n
             THEN "extract" ELSE "refused"
    /\ UNCHANGED tables /\ Reading

----------------------------------------------------------------------------
(* extract_lp_partitions *)

Named(n) == CHOOSE p \in ToSet(partitions) : p.name = n
Selected(p) == SubSeq(extents, p.first + 1, p.first + p.count)
PartitionSize(p) == FoldLeft(LAMBDA n, e : n + e.sectors, 0, Selected(p))

Writing == UNCHANGED <<request, slot, copy, slots, tables>>
Stop == pc' = "refused" /\ UNCHANGED writing

\* A disabled partition is refused, and so is an output that somebody else has
\* made before (_prepare_output).
Prepare ==
    /\ pc = "extract" /\ at <= Len(request)
    /\ \/ Stop
       \/ /\ ~Named(request[at]).disabled
          /\ pc' = "copy" /\ extent' = 1 /\ output' = <<>> /\ position' = 0
          /\ UNCHANGED <<at, files>>
    /\ Writing

\* Writing at a position beyond the end leaves a hole of zeros.
Padded(bytes, size) ==
    [i \in 1..size |-> IF i <= Len(bytes) THEN bytes[i] ELSE 0]

\* The next extent: zeros are seeked over, sectors of the super device copied.
CopyExtent ==
    LET p == Named(request[at])
        e == Selected(p)[extent]
    IN  /\ pc = "copy" /\ extent <= p.count
        /\ IF e.type = "linear" /\ e.source # 0
           THEN Stop
           ELSE /\ output' = IF e.type = "zero" THEN output
                             ELSE Padded(output, position)
                                  \o [i \in 1..e.sectors |-> e.data + i]
                /\ position' = position + e.sectors
                /\ extent' = extent + 1
                /\ UNCHANGED <<pc, at, files>>
        /\ Writing

\* Plausible bug: the output is not truncated to the partition's size.
Commit_Untruncated ==
    LET p == Named(request[at])
    IN  /\ pc = "copy" /\ extent > p.count
        /\ position = PartitionSize(p)
        /\ pc' = "extract" /\ at' = at + 1
        /\ files' = [files EXCEPT ![p.name] = output]
        /\ UNCHANGED <<extent, output, position>> /\ Writing

\* truncate, the length check, and _commit_output.
Commit ==
    LET p == Named(request[at])
    IN  /\ pc = "copy" /\ extent > p.count
        /\ IF position = PartitionSize(p)
           THEN /\ pc' = "extract" /\ at' = at + 1
                /\ files' = [files EXCEPT ![p.name] = Padded(output, position)]
                /\ UNCHANGED <<extent, output, position>>
           ELSE Stop
        /\ Writing

\* A write fails, and _discard_output unlinks the temporary file.
WriteFails == pc = "copy" /\ Stop /\ Writing

End ==
    /\ pc = "extract" /\ at > Len(request)
    /\ pc' = "done" /\ UNCHANGED writing /\ Writing

Next ==
    \/ ReadGeometry \/ Damaged \/ ReadHeader \/ ReadDescriptor \/ CheckTables
    \/ \E d \in Devices : ReadDevice(d)
    \/ EndDevices
    \/ \E e \in Extents : ReadExtent(e)
    \/ EndExtents
    \/ \E p \in Partitions : ReadPartition(p)
    \/ EndPartitions
    \/ Prepare \/ CopyExtent \/ Commit \/ WriteFails \/ End

Spec == Init /\ [][Next]_vars

----------------------------------------------------------------------------
(* Properties *)

\* The variables have the types the parser and the copy give them.
TypeOK ==
    /\ slots \in 0..MaxSlots /\ copy \in {"primary", "backup"}
    /\ Len(layout) <= 4
    /\ devices \in Seq(Devices) /\ extents \in Seq(Extents)
    /\ partitions \in Seq(Partitions)
    /\ position >= Len(output)

Accepted == pc \in {"extract", "copy", "done"}

\* Metadata that was accepted, of whichever copy, can be acted on: each byte of
\* the tables belongs to one entry of one table (the sorted cursor loop of
\* _parse_lp_metadata_at), a partition's extents exist, and what is read for
\* them lies inside the image.
MetadataIsSound ==
    Accepted =>
        /\ \A b \in 0..(tables_size - 1) :
             \E t \in 1..4 : \A u \in 1..4 :
                layout[u][1] <= b /\ b < layout[u][1] + layout[u][2] <=> u = t
        /\ \A p \in ToSet(partitions) :
             /\ Len(Selected(p)) = p.count
             /\ \A e \in ToSet(Selected(p)) :
                  e.type = "linear" /\ e.source = 0 => e.data + e.sectors <= ImageSectors

Mapped(e) ==
    [i \in 1..e.sectors |-> IF e.type = "linear" THEN e.data + i ELSE 0]

\* A published output is the partition from its first extent to its last, zeros
\* at its end included, whatever failed before or after it
\* (extract_lp_partitions: hole, truncate, length check, rename).
PartitionIsMapped ==
    \A n \in Names :
        files[n] # NoFile =>
            files[n] = FlattenSeq([i \in 1..Named(n).count |->
                                     Mapped(Selected(Named(n))[i])])
=============================================================================
