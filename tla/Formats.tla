------------------------------- MODULE Formats -------------------------------
(***************************************************************************)
(* The readers and writers of the file formats: SparseImage, LpImage and   *)
(* SdatImage (tools/imagectl.py), ApkSigning (tools/apksign.py) and        *)
(* DexResolution (tools/compatctl.py).  A run of a tool works with one of  *)
(* them, so a behavior is one of one of the five; the variables of the     *)
(* others are Unused.                                                      *)
(***************************************************************************)
EXTENDS Integers, Sequences

CONSTANTS
    BlockSize, HeaderSize, Buffer, MaxChunks, MaxBlocks,            \* SparseImage
    ImageSectors, Reserved, MaxSlots, MaxTables, MaxEntries, FirstSectors,
    DeviceSizes, MaxSectors, MaxCount, MaxIndex, Names, Requests,
    NoFile,                                                         \* LpImage
    MaxBlock, MaxLines, MaxRanges,                                  \* SdatImage
    Chunk, MaxPayload, MaxEntriesOfApk, MaxDamage, EntryNames, V1Names,
    project, foreign, Refused,                                      \* ApkSigning
    Providers, Packages, Classes, int, MaxMembers,                  \* DexResolution
    Unused

VARIABLES
    format,                                                 \* the one that is read
    header, read, tell, output_cursor, chunks,              \* SparseImage
    request, slot, copy, slots, tables_size, layout, devices, extents,
    partitions, at, extent, files,                          \* LpImage
    declared, commands, image_blocks, data,                 \* SdatImage
    apk, source, signed, damage,                            \* ApkSigning
    reading, members, contents, defined, referenced, class_providers,
    unresolved, held,                                       \* DexResolution
    pc, output, position                                    \* of the format

sparseOnly == <<header, read, tell, output_cursor, chunks>>
lpOnly == <<request, slot, copy, slots, tables_size, layout, devices, extents,
            partitions, at, extent, files>>
sdatOnly == <<declared, commands, image_blocks, data>>
apkOnly == <<apk, source, signed, damage>>
dexOnly == <<reading, members, contents, defined, referenced, class_providers,
             unresolved, held>>
vars == <<format, sparseOnly, lpOnly, sdatOnly, apkOnly, dexOnly, pc, output, position>>

Sparse == INSTANCE SparseImage
Lp     == INSTANCE LpImage
Sdat   == INSTANCE SdatImage
Apk    == INSTANCE ApkSigning WITH MaxEntries <- MaxEntriesOfApk, donor <- foreign
Dex    == INSTANCE DexResolution WITH Custom <- Classes, primitive <- int, dpc <- pc

ASSUME Assumption ==
    /\ Sparse!SparseAssumption /\ Lp!LpAssumption /\ Sdat!SdatAssumption
    /\ Apk!SigningAssumption /\ Dex!DexAssumption

NoSparse ==
    header = Unused /\ read = Unused /\ tell = Unused /\ output_cursor = Unused
    /\ chunks = Unused
NoLp ==
    request = Unused /\ slot = Unused /\ copy = Unused /\ slots = Unused
    /\ tables_size = Unused /\ layout = Unused /\ devices = Unused /\ extents = Unused
    /\ partitions = Unused /\ at = Unused /\ extent = Unused /\ files = Unused
NoSdat ==
    declared = Unused /\ commands = Unused /\ image_blocks = Unused /\ data = Unused

NoApk == apk = Unused /\ source = Unused /\ signed = Unused /\ damage = Unused
NoDex ==
    reading = Unused /\ members = Unused /\ contents = Unused /\ defined = Unused
    /\ referenced = Unused /\ class_providers = Unused /\ unresolved = Unused
    /\ held = Unused
NoCopy == output = Unused /\ position = Unused

Init ==
    \/ format = "sparse" /\ Sparse!Init /\ NoLp /\ NoSdat /\ NoApk /\ NoDex /\ NoCopy
    \/ format = "lp" /\ Lp!Init /\ NoSparse /\ NoSdat /\ NoApk /\ NoDex
    \/ format = "sdat" /\ Sdat!Init /\ NoSparse /\ NoLp /\ NoApk /\ NoDex
    \/ /\ format = "apk" /\ Apk!Init
       /\ NoSparse /\ NoLp /\ NoSdat /\ NoDex /\ NoCopy /\ pc = Unused
    \/ format = "dex" /\ Dex!Init /\ NoSparse /\ NoLp /\ NoSdat /\ NoApk /\ NoCopy

Next ==
    /\ UNCHANGED format
    /\ \/ /\ format = "sparse" /\ Sparse!Next
          /\ UNCHANGED <<lpOnly, sdatOnly, apkOnly, dexOnly, output, position>>
       \/ /\ format = "lp" /\ Lp!Next
          /\ UNCHANGED <<sparseOnly, sdatOnly, apkOnly, dexOnly>>
       \/ /\ format = "sdat" /\ Sdat!Next
          /\ UNCHANGED <<sparseOnly, lpOnly, apkOnly, dexOnly>>
       \/ /\ format = "apk" /\ Apk!Next
          /\ UNCHANGED <<sparseOnly, lpOnly, sdatOnly, dexOnly, pc, output, position>>
       \/ /\ format = "dex" /\ Dex!Next
          /\ UNCHANGED <<sparseOnly, lpOnly, sdatOnly, apkOnly, output, position>>

Spec == Init /\ [][Next]_vars

\* The variables of the format that is read have the types its code gives them.
TypeOK ==
    /\ format = "sparse" => Sparse!TypeOK
    /\ format = "lp"     => Lp!TypeOK
    /\ format = "sdat"   => Sdat!TypeOK
    /\ format = "apk"    => Apk!TypeOK
    /\ format = "dex"    => Dex!TypeOK

\* Sparse!OpenIsWhole of the class SparseImage and Lp!MetadataIsSound of
\* read_lp_metadata: what a reader accepts has no gap, no overlap and nothing
\* outside its bounds.
AcceptedIsSound ==
    /\ format = "sparse" => Sparse!OpenIsWhole
    /\ format = "lp" => Lp!MetadataIsSound

\* Sparse!RangeIsSlice of the class SparseImage.
RangeIsSlice == format = "sparse" => Sparse!RangeIsSlice

\* Lp!PartitionIsMapped of extract_lp_partitions.
PartitionIsMapped == format = "lp" => Lp!PartitionIsMapped

\* Sdat!ImageIsTransferred of parse_transfer_list and convert_sdat.
ImageIsTransferred == format = "sdat" => Sdat!ImageIsTransferred

\* Apk!SigningIsStable of sign_apk.
SigningIsStable == format = "apk" => Apk!SigningIsStable

\* Apk!AcceptedIsSigned of verify_apk.
AcceptedIsSigned == format = "apk" => Apk!AcceptedIsSigned

\* Dex!ResolutionIsExact of dex_resolution_report.
ResolutionIsExact == format = "dex" => Dex!ResolutionIsExact
==============================================================================
