---------------------------- MODULE Images_proofs ----------------------------
(***************************************************************************)
(* What TLAPS proves of the image formats of tools/imagectl.py, LpImage,   *)
(* SdatImage and SparseImage as Formats instantiates them, for any bounds  *)
(* and names.  For each format X: XInv is inductive, by XInitial and       *)
(* XStep, and XProperties says what it implies; SparseRanges what is read  *)
(* of an open sparse image.                                                *)
(***************************************************************************)
EXTENDS Formats, DataLemmas

-----------------------------------------------------------------------------
(* The logical partitions *)

Layouts == Nat \X Nat

LpTypes ==
  /\ request \in Seq(Names) /\ slot \in 0 .. MaxSlots
  /\ slots \in 0 .. MaxSlots /\ copy \in {"primary", "backup"}
  /\ tables_size \in Nat /\ layout \in Seq(Layouts) /\ Len(layout) <= 4
  /\ devices \in Seq(Lp!Devices) /\ extents \in Seq(Lp!Extents)
  /\ partitions \in Seq(Lp!Partitions)
  /\ at \in Nat \ {0} /\ extent \in Nat \ {0}
  /\ output \in Seq(Nat) /\ position \in Nat /\ Len(output) <= position

\* What is known of the metadata after the check of each table.
TablesRead == pc \in {"devices", "extents", "partitions"} \/ Lp!Accepted
DevicesRead == pc \in {"extents", "partitions"} \/ Lp!Accepted

\* A reader that has not accepted the metadata has published nothing.
LpReading == {"geometry", "header", "tables", "devices", "extents", "partitions"}

\* The first n extents of a partition.
Image(p, n) == FlattenSeq([i \in 1 .. n |-> Lp!Mapped(Lp!Selected(p)[i])])

Expected(n) == Image(Lp!Named(n), Lp!Named(n).count)

\* The partition it is about.
Current == Lp!Named(request[at])

\* What has been copied of it: the extents before this one.
Copied ==
  \E p \in Lp!Partitions :
     /\ p = Current /\ at \in 1 .. Len(request) /\ extent \in 1 .. p.count + 1
     /\ Lp!Padded(output, position) = Image(p, extent - 1)

LpInv ==
  /\ LpTypes
  /\ TablesRead => Len(layout) = 4 /\ Lp!TablesTile
  /\ DevicesRead => Lp!DevicesFit
  /\ pc \in {"geometry", "header", "tables", "devices"} => extents = <<>>
  /\ \A i \in 1 .. Len(extents) : Lp!ExtentFits(extents[i])
  /\ \A i \in 1 .. Len(partitions) : partitions[i].first + partitions[i].count <= Len(extents)
  /\ Lp!Accepted =>
       \A i \in 1 .. Len(request) : \E q \in Lp!ToSet(partitions) : q.name = request[i]
  /\ pc \in LpReading => \A n \in Names : files[n] = NoFile
  /\ \A n \in Names : files[n] # NoFile => files[n] = Expected(n)
  /\ pc = "copy" => Copied
  /\ pc \in LpReading \cup {"extract", "copy", "done", "refused"}
  /\ files \in [Names -> {NoFile} \cup Seq(Nat)]

LEMMA LpInitial == ASSUME Lp!LpAssumption, Lp!Init PROVE LpInv
<1>. USE DEF Lp!Init, Lp!LpAssumption
<1>1. LpTypes
  BY DEF LpTypes
<1>. QED  BY <1>1 DEF LpInv, TablesRead, DevicesRead, Lp!Accepted, LpReading

\* The partition of a name that is asked for.
LEMMA LpNamed ==
  ASSUME LpInv, NEW n, \E q \in Lp!ToSet(partitions) : q.name = n
  PROVE  /\ Lp!Named(n) \in Lp!Partitions /\ Lp!Named(n).name = n
         /\ \E i \in 1 .. Len(partitions) : partitions[i] = Lp!Named(n)
         /\ Lp!Named(n).count \in Nat /\ Lp!Named(n).first \in Nat
         /\ Lp!Named(n).first + Lp!Named(n).count <= Len(extents)
<1>1. Lp!Named(n) \in Lp!ToSet(partitions) /\ Lp!Named(n).name = n
  BY DEF Lp!Named
<1>2. PICK i \in 1 .. Len(partitions) : partitions[i] = Lp!Named(n)
  BY <1>1 DEF Lp!ToSet, LpInv, LpTypes
<1>3. Lp!Named(n) \in Lp!Partitions
  BY <1>2 DEF LpInv, LpTypes
<1>4. Lp!Named(n).count \in Nat /\ Lp!Named(n).first \in Nat
  BY <1>3 DEF Lp!Partitions
<1>. QED  BY <1>1, <1>2, <1>3, <1>4 DEF LpInv

\* The extents of an accepted partition are there, and inside their device.
LEMMA LpSelected ==
  ASSUME LpInv, NEW p \in Lp!Partitions, p.first + p.count <= Len(extents)
  PROVE  /\ Lp!Selected(p) \in Seq(Lp!Extents) /\ Len(Lp!Selected(p)) = p.count
         /\ \A i \in 1 .. p.count : /\ Lp!Selected(p)[i] \in Lp!Extents
                                    /\ Lp!ExtentFits(Lp!Selected(p)[i])
                                    /\ Lp!Mapped(Lp!Selected(p)[i]) \in Seq(Nat)
                                    /\ Len(Lp!Mapped(Lp!Selected(p)[i])) = Lp!Selected(p)[i].sectors
<1>1. p.first \in Nat /\ p.count \in Nat
  BY DEF Lp!Partitions
<1>2. extents \in Seq(Lp!Extents) /\ \A i \in 1 .. Len(extents) : extents[i] \in Lp!Extents
  BY DEF LpInv, LpTypes
<1>3. /\ Lp!Selected(p) \in Seq(Lp!Extents) /\ Len(Lp!Selected(p)) = p.count
      /\ \A i \in 1 .. p.count : Lp!Selected(p)[i] = extents[p.first + i] /\ p.first + i \in 1 .. Len(extents)
  <2>1. \A i \in p.first + 1 .. p.first + p.count : extents[i] \in Lp!Extents
    BY <1>1, <1>2
  <2>. DEFINE m == p.first + 1
              n == p.first + p.count
  <2>2. m \in Int /\ n \in Int /\ n - m + 1 = p.count
    BY <1>1
  <2>3. Lp!Selected(p) = SubSeq(extents, m, n)
    BY DEF Lp!Selected
  <2>. HIDE DEF m, n
  <2>4. /\ SubSeq(extents, m, n) \in Seq(Lp!Extents)
        /\ Len(SubSeq(extents, m, n)) = IF m <= n THEN n - m + 1 ELSE 0
        /\ \A i \in 1 .. n - m + 1 : SubSeq(extents, m, n)[i] = extents[m + i - 1]
    <3>1. \A i \in m .. n : extents[i] \in Lp!Extents
      BY <2>1 DEF m, n
    <3>. QED  BY <2>2, <3>1, SubSeqProperties
  <2>5. \A i \in 1 .. p.count : m + i - 1 = p.first + i /\ p.first + i \in 1 .. Len(extents)
    BY <1>1, <1>2 DEF m
  <2>6. Len(SubSeq(extents, m, n)) = p.count
    BY <1>1, <2>2, <2>4
  <2>. QED  BY <2>2, <2>3, <2>4, <2>5, <2>6
<1>4. \A e \in Lp!Extents : /\ Lp!Mapped(e) \in Seq(Nat) /\ Len(Lp!Mapped(e)) = e.sectors
  <2>. SUFFICES ASSUME NEW e \in Lp!Extents
                PROVE  Lp!Mapped(e) \in Seq(Nat) /\ Len(Lp!Mapped(e)) = e.sectors
    OBVIOUS
  <2>1. e.sectors \in Nat /\ e.data \in Nat
    BY DEF Lp!Extents
  <2>2. \A i \in 1 .. e.sectors : (IF e.type = "linear" THEN e.data + i ELSE 0) \in Nat
    BY <2>1
  <2>. QED  BY <2>1, <2>2 DEF Lp!Mapped
<1>. QED  BY <1>2, <1>3, <1>4 DEF LpInv
\* Of the module, and of the library the lemmas are about.
LEMMA LpLibrary ==
  ASSUME NEW S
  PROVE  Lp!Cardinality(S) = Cardinality(S)
BY DEF Lp!Cardinality, Cardinality

\* Tables that tile tables_size: each byte belongs to one of them.
LEMMA LpTiling ==
  ASSUME layout \in Seq(Layouts), Len(layout) = 4, tables_size \in Nat, Lp!TablesTile,
         NEW b \in 0 .. tables_size - 1
  PROVE  \E t \in 1 .. 4 : \A u \in 1 .. 4 :
            layout[u][1] <= b /\ b < layout[u][1] + layout[u][2] <=> u = t
<1>. DEFINE first(t) == layout[t][1]
            end(t) == layout[t][1] + layout[t][2]
            n == Cardinality(Lp!Nonempty)
<1>1. \A t \in 1 .. 4 : first(t) \in Nat /\ end(t) \in Nat /\ first(t) <= end(t)
                        /\ (first(t) < end(t) <=> t \in Lp!Nonempty)
  <2>. SUFFICES ASSUME NEW t \in 1 .. 4
                PROVE  first(t) \in Nat /\ end(t) \in Nat /\ first(t) <= end(t)
                       /\ (first(t) < end(t) <=> t \in Lp!Nonempty)
    OBVIOUS
  <2>1. layout[t] \in Layouts
    BY ElementOfSeq
  <2>2. layout[t][1] \in Nat /\ layout[t][2] \in Nat
    BY <2>1 DEF Layouts
  <2>3. t \in Lp!Nonempty <=> layout[t][2] > 0
    BY DEF Lp!Nonempty
  <2>. QED  BY <2>2, <2>3
<1>2. Lp!Nonempty \subseteq 1 .. 4 /\ n \in Nat
  <2>1. Lp!Nonempty \subseteq 1 .. 4
    BY DEF Lp!Nonempty
  <2>2. IsFiniteSet(1 .. 4)
    BY FS_Interval
  <2>. QED  BY <2>1, <2>2, FS_Subset, FS_CardinalityType
<1>3. PICK order \in Lp!Bijection(1 .. n, Lp!Nonempty) :
         /\ \A i \in DOMAIN order :
              layout[order[i]][1] = IF i - 1 = 0 THEN 0
                                    ELSE layout[order[i - 1]][1] + layout[order[i - 1]][2]
         /\ (IF n = 0 THEN 0 ELSE layout[order[n]][1] + layout[order[n]][2]) = tables_size
  BY LpLibrary DEF Lp!TablesTile
<1>4. /\ order \in [1 .. n -> Lp!Nonempty]
      /\ \A t \in Lp!Nonempty : \E i \in 1 .. n : order[i] = t
  BY DEF Lp!Bijection, Lp!Injection, Lp!Surjection
<1>. DEFINE s == [i \in 1 .. n |-> first(order[i])]
            e == [i \in 1 .. n |-> end(order[i])]
<1>. HIDE DEF first, end, n
<1>5. \A i \in 1 .. n : order[i] \in Lp!Nonempty /\ order[i] \in 1 .. 4
  BY <1>2, <1>4
<1>6. /\ s \in [1 .. n -> Nat] /\ e \in [1 .. n -> Nat]
      /\ \A i \in 1 .. n : s[i] = first(order[i]) /\ e[i] = end(order[i]) /\ s[i] < e[i]
  BY <1>1, <1>5
<1>7. \A i \in 1 .. n : s[i] = IF i = 1 THEN 0 ELSE e[i - 1]
  <2>. SUFFICES ASSUME NEW i \in 1 .. n PROVE s[i] = IF i = 1 THEN 0 ELSE e[i - 1]
    OBVIOUS
  <2>1. s[i] = IF i - 1 = 0 THEN 0 ELSE end(order[i - 1])
    BY <1>3, <1>4, <1>6 DEF first, end
  <2>2. i # 1 => i - 1 \in 1 .. n /\ i - 1 # 0
    BY <1>2
  <2>. QED  BY <1>6, <2>1, <2>2
<1>. HIDE DEF s, e
<1>8. /\ \A i, j \in 1 .. n : i < j => e[i] <= s[j]
      /\ \A i \in 1 .. n : \A c \in 0 .. e[i] - 1 : \E j \in 1 .. i : s[j] <= c /\ c < e[j]
  <2>1. \A i \in 1 .. n : s[i] <= e[i] /\ s[i] = IF i = 1 THEN 0 ELSE e[i - 1]
    BY <1>6, <1>7
  <2>. QED  BY <1>2, <1>6, <2>1, Tiles
<1>9. n \in 1 .. n /\ e[n] = tables_size
  <2>1. IF n = 0 THEN 0 = tables_size ELSE end(order[n]) = tables_size
    BY <1>3 DEF end
  <2>. QED  BY <1>2, <1>6, <2>1
<1>10. PICK j \in 1 .. n : s[j] <= b /\ b < e[j]
  BY <1>8, <1>9
<1>11. ASSUME NEW u \in 1 .. 4, first(u) <= b, b < end(u) PROVE u = order[j]
  <2>1. u \in Lp!Nonempty
    BY <1>1, <1>11
  <2>2. PICK i \in 1 .. n : order[i] = u
    BY <1>4, <2>1
  <2>3. s[i] <= b /\ b < e[i]
    BY <1>6, <1>11, <2>2
  <2>4. ~(i < j) /\ ~(j < i)
    <3>1. s[i] \in Nat /\ e[i] \in Nat /\ s[j] \in Nat /\ e[j] \in Nat /\ b \in Int
      BY <1>6
    <3>2. i < j => e[i] <= s[j]
      BY <1>8
    <3>3. j < i => e[j] <= s[i]
      BY <1>8
    <3>. QED  BY <1>10, <2>3, <3>1, <3>2, <3>3
  <2>. QED  BY <2>2, <2>4
<1>12. \A u \in 1 .. 4 : first(u) <= b /\ b < end(u) <=> u = order[j]
  BY <1>5, <1>6, <1>10, <1>11
<1>. QED  BY <1>5, <1>12 DEF first, end

LEMMA LpProperties ==
  ASSUME Lp!LpAssumption, LpInv PROVE Lp!TypeOK /\ Lp!MetadataIsSound /\ Lp!PartitionIsMapped
<1>1. Lp!TypeOK
  BY DEF LpInv, LpTypes, Lp!TypeOK
<1>2. Lp!PartitionIsMapped
  BY DEF LpInv, Lp!PartitionIsMapped, Expected, Image, Lp!FlattenSeq, FlattenSeq
<1>3. ASSUME Lp!Accepted
      PROVE  \A b \in 0 .. tables_size - 1 :
               \E t \in 1 .. 4 : \A u \in 1 .. 4 :
                  layout[u][1] <= b /\ b < layout[u][1] + layout[u][2] <=> u = t
  BY <1>3, LpTiling DEF LpInv, LpTypes, TablesRead
<1>4. ASSUME Lp!Accepted, NEW p \in Lp!ToSet(partitions)
      PROVE  /\ Len(Lp!Selected(p)) = p.count
             /\ \A e \in Lp!ToSet(Lp!Selected(p)) :
                  e.type = "linear" /\ e.source = 0 => e.data + e.sectors <= ImageSectors
  <2>1. p \in Lp!Partitions /\ p.first + p.count <= Len(extents)
    <3>1. PICK i \in DOMAIN partitions : p = partitions[i]
      BY DEF Lp!ToSet
    <3>2. i \in 1 .. Len(partitions) /\ partitions \in Seq(Lp!Partitions)
      BY DEF LpInv, LpTypes
    <3>. QED  BY <3>1, <3>2 DEF LpInv
  <2>2. /\ Lp!Selected(p) \in Seq(Lp!Extents) /\ Len(Lp!Selected(p)) = p.count
        /\ \A i \in 1 .. p.count : Lp!ExtentFits(Lp!Selected(p)[i])
    BY <2>1, LpSelected
  <2>3. \A e \in Lp!ToSet(Lp!Selected(p)) : e \in Lp!Extents /\ Lp!ExtentFits(e)
    BY <2>2 DEF Lp!ToSet
  <2>4. devices[1].size <= ImageSectors
    BY <1>4 DEF LpInv, DevicesRead, Lp!DevicesFit
  <2>5. ASSUME NEW e \in Lp!Extents, Lp!ExtentFits(e), e.type = "linear", e.source = 0
        PROVE  e.data + e.sectors <= ImageSectors
    <3>1. e.data \in Nat /\ e.sectors \in Nat
      BY DEF Lp!Extents
    <3>2. e.data + e.sectors <= devices[1].size /\ devices # <<>>
      BY <2>5, <1>4 DEF Lp!ExtentFits, LpInv, DevicesRead, Lp!DevicesFit
    <3>3. devices[1].size \in Int /\ ImageSectors \in Int
      <4>1. devices[1] \in Lp!Devices
        BY <3>2 DEF LpInv, LpTypes
      <4>. QED  BY <4>1 DEF Lp!Devices, Lp!LpAssumption
    <3>. QED  BY <2>4, <3>1, <3>2, <3>3
  <2>. QED  BY <2>2, <2>3, <2>5
<1>. QED  BY <1>1, <1>2, <1>3, <1>4 DEF Lp!MetadataIsSound

\* Every copy of the metadata is read with nothing published.
LEMMA LpStillReading ==
  ASSUME LpInv, pc \in LpReading, files' = files
  PROVE  /\ \A n \in Names : files'[n] = NoFile
         /\ \A n \in Names : files'[n] # NoFile => files'[n] = Expected(n)'
         /\ files' \in [Names -> {NoFile} \cup Seq(Nat)]
  BY DEF LpInv

LEMMA LpReject ==
  ASSUME Lp!LpAssumption, LpInv, pc \in LpReading, Lp!Reject PROVE LpInv'
<1>. USE DEF Lp!Reject, Lp!NoTables, Lp!writing
<1>1. pc' \in {"header", "refused"}
  BY DEF LpReading, LpInv, LpTypes
<1>2. LpTypes'
  BY DEF LpInv, LpTypes
<1>3. /\ ~TablesRead' /\ ~DevicesRead' /\ ~Lp!Accepted' /\ pc' # "copy"
      /\ pc' \in LpReading \cup {"extract", "copy", "done", "refused"}
  BY <1>1 DEF TablesRead, DevicesRead, Lp!Accepted, LpReading
<1>4. extents' = <<>> /\ Len(extents') = 0 /\ Len(partitions') = 0
  OBVIOUS
<1>5. files' = files
  OBVIOUS
<1>. QED  BY <1>2, <1>3, <1>4, <1>5, LpStillReading DEF LpInv

\* The tables' order depends on their descriptors alone.
Tiling(l, size) ==
  LET filled == {t \in 1 .. 4 : l[t][2] > 0}
      end(order, i) == IF i = 0 THEN 0 ELSE l[order[i]][1] + l[order[i]][2]
  IN  \E order \in Lp!Bijection(1 .. Lp!Cardinality(filled), filled) :
         /\ \A i \in DOMAIN order : l[order[i]][1] = end(order, i - 1)
         /\ end(order, Lp!Cardinality(filled)) = size

LEMMA LpTilingKept ==
  ASSUME Lp!TablesTile, layout' = layout, tables_size' = tables_size
  PROVE  Lp!TablesTile'
<1>1. Tiling(layout, tables_size)
  BY DEF Tiling, Lp!TablesTile, Lp!Nonempty
<1>2. Tiling(layout', tables_size')
  BY <1>1
<1>. QED  BY <1>2 DEF Tiling, Lp!TablesTile, Lp!Nonempty

\* A step that reads on keeps what the checks of the tables have shown.
LEMMA LpReads ==
  ASSUME LpInv, pc \in LpReading, Lp!Reading,
         pc' \in LpReading \cup {"extract", "refused"},
         tables_size' \in Nat, layout' \in Seq(Layouts), Len(layout') <= 4,
         devices' \in Seq(Lp!Devices), extents' \in Seq(Lp!Extents),
         partitions' \in Seq(Lp!Partitions),
         TablesRead' => Len(layout') = 4 /\ Lp!TablesTile',
         DevicesRead' => Lp!DevicesFit',
         pc' \in {"geometry", "header", "tables", "devices"} => extents' = <<>>,
         (\A i \in 1 .. Len(extents) : Lp!ExtentFits(extents[i]))',
         (\A i \in 1 .. Len(partitions) :
             partitions[i].first + partitions[i].count <= Len(extents))',
         pc' = "extract" =>
           (\A i \in 1 .. Len(request) : \E q \in Lp!ToSet(partitions) : q.name = request[i])'
  PROVE  LpInv'
<1>1. LpTypes'
  BY DEF LpInv, LpTypes, Lp!Reading, Lp!writing
<1>2. files' = files /\ pc' # "copy" /\ (Lp!Accepted' => pc' = "extract")
  BY DEF Lp!Reading, Lp!writing, LpReading, Lp!Accepted
<1>3. (pc \in LpReading => \A n \in Names : files[n] = NoFile)'
  BY <1>2, LpStillReading
<1>. QED  BY <1>1, <1>2, <1>3, LpStillReading DEF LpInv

LEMMA LpHeaders ==
  ASSUME Lp!LpAssumption, LpInv,
         Lp!ReadGeometry \/ Lp!ReadHeader \/ Lp!ReadDescriptor \/ Lp!CheckTables
  PROVE  LpInv'
<1>. USE DEF LpReading
<1>1. /\ tables_size \in Nat /\ layout \in Seq(Layouts) /\ Len(layout) <= 4
      /\ devices \in Seq(Lp!Devices) /\ extents \in Seq(Lp!Extents)
      /\ partitions \in Seq(Lp!Partitions)
      /\ pc \in {"geometry", "header", "tables", "devices"} => extents = <<>>
      /\ \A i \in 1 .. Len(extents) : Lp!ExtentFits(extents[i])
      /\ \A i \in 1 .. Len(partitions) : partitions[i].first + partitions[i].count <= Len(extents)
  BY DEF LpInv, LpTypes
<1>2. ASSUME UNCHANGED <<devices, extents, partitions>>
      PROVE  /\ (\A i \in 1 .. Len(extents) : Lp!ExtentFits(extents[i]))'
             /\ (\A i \in 1 .. Len(partitions) :
                   partitions[i].first + partitions[i].count <= Len(extents))'
  BY <1>1, <1>2 DEF Lp!ExtentFits
<1>3. CASE Lp!ReadGeometry
  <2>. USE <1>3 DEF Lp!ReadGeometry, Lp!tables, Lp!writing
  <2>0. copy \in {"primary", "backup"} /\ slots \in 0 .. MaxSlots /\ MaxSlots \in Nat
    BY DEF LpInv, LpTypes, Lp!LpAssumption
  <2>1. /\ slots' \in 0 .. MaxSlots /\ copy' \in {"primary", "backup"}
        /\ pc' \in {"geometry", "header", "refused"}
    BY <2>0
  <2>2. LpTypes'
    BY <2>1 DEF LpInv, LpTypes
  <2>3. ~TablesRead' /\ ~DevicesRead' /\ ~Lp!Accepted' /\ pc' # "copy"
    BY <2>1 DEF TablesRead, DevicesRead, Lp!Accepted
  <2>4. UNCHANGED <<files, devices, extents, partitions>>
    OBVIOUS
  <2>. QED  BY <1>2, <2>1, <2>2, <2>3, <2>4, LpStillReading DEF LpInv
<1>4. CASE Lp!ReadHeader
  <2>. USE <1>4 DEF Lp!ReadHeader
  <2>1. tables_size' \in Nat
    BY DEF Lp!LpAssumption
  <2>2. ~TablesRead' /\ ~DevicesRead'
    BY DEF TablesRead, DevicesRead, Lp!Accepted
  <2>. QED  BY <1>1, <1>2, <2>1, <2>2, LpReads
<1>5. CASE Lp!ReadDescriptor
  <2>. USE <1>5 DEF Lp!ReadDescriptor
  <2>1. PICK offset \in 0 .. tables_size, n \in 0 .. MaxEntries[Len(layout) + 1] :
          layout' = Append(layout, <<offset, n>>) /\ Len(layout) < 4
    OBVIOUS
  <2>2. <<offset, n>> \in Layouts
    BY <1>1 DEF Layouts
  <2>3. layout' \in Seq(Layouts) /\ Len(layout') <= 4
    <3>. HIDE <1>5
    <3>. QED  BY <1>1, <2>1, <2>2, AppendProperties
  <2>4. ~TablesRead' /\ ~DevicesRead'
    BY DEF TablesRead, DevicesRead, Lp!Accepted
  <2>. QED  BY <1>1, <1>2, <2>3, <2>4, LpReads
<1>6. CASE Lp!CheckTables
  <2>. USE <1>6 DEF Lp!CheckTables
  <2>1. CASE Lp!TablesTile /\ Lp!Count(3) > 0
    <3>1. pc' = "devices" /\ UNCHANGED Lp!tables /\ Lp!Reading /\ Len(layout) = 4
      BY <2>1
    <3>2. Lp!TablesTile'
      BY <2>1, <3>1, LpTilingKept DEF Lp!tables
    <3>3. ~DevicesRead'
      BY <3>1 DEF DevicesRead, Lp!Accepted
    <3>. QED  BY <1>1, <1>2, <3>1, <3>2, <3>3, LpReads DEF Lp!tables
  <2>2. CASE ~(Lp!TablesTile /\ Lp!Count(3) > 0)
    BY <2>2, LpReject
  <2>. QED  BY <2>1, <2>2
<1>. QED  BY <1>3, <1>4, <1>5, <1>6

LEMMA LpTables ==
  ASSUME Lp!LpAssumption, LpInv,
         \/ \E d \in Lp!Devices : Lp!ReadDevice(d)
         \/ Lp!EndDevices
         \/ \E e \in Lp!Extents : Lp!ReadExtent(e)
         \/ Lp!EndExtents
         \/ \E p \in Lp!Partitions : Lp!ReadPartition(p)
         \/ Lp!EndPartitions
  PROVE  LpInv'
<1>. USE DEF LpReading
<1>1. /\ tables_size \in Nat /\ layout \in Seq(Layouts) /\ Len(layout) <= 4
      /\ devices \in Seq(Lp!Devices) /\ extents \in Seq(Lp!Extents)
      /\ partitions \in Seq(Lp!Partitions)
      /\ pc \in {"geometry", "header", "tables", "devices"} => extents = <<>>
      /\ \A i \in 1 .. Len(extents) : Lp!ExtentFits(extents[i])
      /\ \A i \in 1 .. Len(partitions) : partitions[i].first + partitions[i].count <= Len(extents)
  BY DEF LpInv, LpTypes
<1>2. ASSUME UNCHANGED <<tables_size, layout>>, TablesRead
      PROVE  Len(layout') = 4 /\ Lp!TablesTile'
  BY <1>2, LpTilingKept DEF LpInv
<1>3. ASSUME Lp!Reading, devices' = devices, DevicesRead PROVE Lp!DevicesFit'
  BY <1>3 DEF LpInv, Lp!DevicesFit, Lp!Reading
<1>4. ASSUME UNCHANGED <<devices, extents>>
      PROVE  (\A i \in 1 .. Len(extents) : Lp!ExtentFits(extents[i]))'
  BY <1>1, <1>4 DEF Lp!ExtentFits
<1>5. ASSUME UNCHANGED <<extents, partitions>>
      PROVE  (\A i \in 1 .. Len(partitions) :
                   partitions[i].first + partitions[i].count <= Len(extents))'
  BY <1>1, <1>5
<1>6. ASSUME NEW d \in Lp!Devices, Lp!ReadDevice(d) PROVE LpInv'
  <2>. USE <1>6 DEF Lp!ReadDevice
  <2>1. CASE d.size # 0
    <3>1. /\ pc = "devices" /\ devices' = Append(devices, d) /\ Lp!Reading
          /\ UNCHANGED <<pc, tables_size, layout, extents, partitions>>
      BY <2>1
    <3>2. TablesRead /\ ~DevicesRead' /\ devices' \in Seq(Lp!Devices)
      BY <1>1, <3>1, AppendProperties DEF TablesRead, DevicesRead, Lp!Accepted
    <3>3. extents' = <<>> /\ Len(extents') = 0
      BY <1>1, <3>1
    <3>. QED  BY <1>1, <1>2, <1>5, <3>1, <3>2, <3>3, LpReads
  <2>2. CASE d.size = 0
    BY <2>2, LpReject
  <2>. QED  BY <2>1, <2>2
<1>7. CASE Lp!EndDevices
  <2>. USE <1>7 DEF Lp!EndDevices
  <2>1. CASE Lp!DevicesFit
    <3>1. pc = "devices" /\ pc' = "extents" /\ UNCHANGED Lp!tables /\ Lp!Reading
      BY <2>1
    <3>2. TablesRead /\ Lp!DevicesFit'
      BY <2>1, <3>1 DEF TablesRead, Lp!DevicesFit, Lp!tables, Lp!Reading
    <3>. QED  BY <1>1, <1>2, <1>4, <1>5, <3>1, <3>2, LpReads DEF Lp!tables
  <2>2. CASE ~Lp!DevicesFit
    BY <2>2, LpReject
  <2>. QED  BY <2>1, <2>2
<1>8. ASSUME NEW e \in Lp!Extents, Lp!ReadExtent(e) PROVE LpInv'
  <2>. USE <1>8 DEF Lp!ReadExtent
  <2>1. CASE Lp!ExtentFits(e)
    <3>1. /\ pc = "extents" /\ extents' = Append(extents, e) /\ Lp!Reading
          /\ UNCHANGED <<pc, tables_size, layout, devices, partitions>>
      BY <2>1
    <3>2. TablesRead /\ DevicesRead
      BY <3>1 DEF TablesRead, DevicesRead
    <3>3. /\ extents' \in Seq(Lp!Extents) /\ Len(extents') = Len(extents) + 1
          /\ \A i \in 1 .. Len(extents') :
               extents'[i] = e \/ (i \in 1 .. Len(extents) /\ extents'[i] = extents[i])
      BY <1>1, <3>1, AppendProperties
    <3>4. ASSUME NEW i \in 1 .. Len(extents') PROVE Lp!ExtentFits(extents[i])'
      <4>1. PICK x : x = extents'[i] /\ Lp!ExtentFits(x)
        BY <1>1, <2>1, <3>3
      <4>. QED  BY <3>1, <4>1 DEF Lp!ExtentFits
    <3>5. ASSUME NEW i \in 1 .. Len(partitions')
          PROVE  partitions'[i].first + partitions'[i].count <= Len(extents')
      <4>1. partitions[i] \in Lp!Partitions /\ partitions[i].first + partitions[i].count <= Len(extents)
        BY <1>1, <3>1
      <4>2. partitions[i].first \in Nat /\ partitions[i].count \in Nat /\ Len(extents) \in Nat
        BY <1>1, <4>1 DEF Lp!Partitions
      <4>. QED  BY <3>1, <3>3, <4>1, <4>2
    <3>. QED  BY <1>1, <1>2, <1>3, <3>1, <3>2, <3>3, <3>4, <3>5, LpReads
  <2>2. CASE ~Lp!ExtentFits(e)
    BY <2>2, LpReject
  <2>. QED  BY <2>1, <2>2
<1>9. CASE Lp!EndExtents
  <2>1. pc = "extents" /\ pc' = "partitions" /\ UNCHANGED Lp!tables /\ Lp!Reading
    BY <1>9 DEF Lp!EndExtents
  <2>2. TablesRead /\ DevicesRead
    BY <2>1 DEF TablesRead, DevicesRead
  <2>. QED  BY <1>1, <1>2, <1>3, <1>4, <1>5, <2>1, <2>2, LpReads DEF Lp!tables
<1>10. ASSUME NEW p \in Lp!Partitions, Lp!ReadPartition(p) PROVE LpInv'
  <2>. USE <1>10 DEF Lp!ReadPartition
  <2>1. CASE Lp!PartitionFits(p)
    <3>1. /\ pc = "partitions" /\ partitions' = Append(partitions, p) /\ Lp!Reading
          /\ UNCHANGED <<pc, tables_size, layout, devices, extents>>
          /\ p.first + p.count <= Len(extents)
      BY <2>1 DEF Lp!PartitionFits
    <3>2. TablesRead /\ DevicesRead
      BY <3>1 DEF TablesRead, DevicesRead
    <3>3. /\ partitions' \in Seq(Lp!Partitions)
          /\ \A i \in 1 .. Len(partitions') :
               partitions'[i] = p \/ (i \in 1 .. Len(partitions) /\ partitions'[i] = partitions[i])
      BY <1>1, <3>1, AppendProperties
    <3>4. \A i \in 1 .. Len(partitions') :
            partitions'[i].first + partitions'[i].count <= Len(extents')
      BY <1>1, <3>1, <3>3
    <3>. QED  BY <1>1, <1>2, <1>3, <1>4, <3>1, <3>2, <3>3, <3>4, LpReads
  <2>2. CASE ~Lp!PartitionFits(p)
    BY <2>2, LpReject
  <2>. QED  BY <2>1, <2>2
<1>11. CASE Lp!EndPartitions
  <2>. USE <1>11 DEF Lp!EndPartitions
  <2>1. pc = "partitions" /\ pc' \in {"extract", "refused"} /\ UNCHANGED Lp!tables /\ Lp!Reading
    OBVIOUS
  <2>2. TablesRead /\ DevicesRead
    BY <2>1 DEF TablesRead, DevicesRead
  <2>3. pc' = "extract" =>
          \A n \in Lp!ToSet(request) : \E q \in Lp!ToSet(partitions) : q.name = n
    OBVIOUS
  <2>4. \A i \in 1 .. Len(request) : request[i] \in Lp!ToSet(request)
    BY DEF LpInv, LpTypes, Lp!ToSet
  <2>5. Lp!ToSet(partitions') = Lp!ToSet(partitions) /\ request' = request
    BY <2>1 DEF Lp!tables, Lp!Reading
  <2>6. pc' = "extract" =>
          (\A i \in 1 .. Len(request) : \E q \in Lp!ToSet(partitions) : q.name = request[i])'
    BY <2>3, <2>4, <2>5
  <2>. QED  BY <1>1, <1>2, <1>3, <1>4, <1>5, <2>1, <2>2, <2>6, LpReads DEF Lp!tables
<1>. QED  BY <1>6, <1>7, <1>8, <1>9, <1>10, <1>11

\* A step that writes leaves the metadata as it was accepted.
LEMMA LpWrites ==
  ASSUME LpInv, pc \in {"extract", "copy"}, Lp!Writing,
         pc' \in {"extract", "copy", "done", "refused"},
         at' \in Nat \ {0}, extent' \in Nat \ {0},
         output' \in Seq(Nat), position' \in Nat, Len(output') <= position',
         files' \in [Names -> {NoFile} \cup Seq(Nat)],
         \A n \in Names : files'[n] # NoFile => files'[n] = Expected(n),
         pc' = "copy" => Copied'
  PROVE  LpInv'
<1>. USE DEF Lp!Writing, Lp!tables
<1>1. LpTypes'
  BY DEF LpInv, LpTypes
<1>2. TablesRead /\ DevicesRead /\ Lp!Accepted
  BY DEF TablesRead, DevicesRead, Lp!Accepted
<1>3. Len(layout') = 4 /\ Lp!TablesTile'
  BY <1>2, LpTilingKept DEF LpInv
<1>4. Lp!DevicesFit'
  BY <1>2 DEF LpInv, Lp!DevicesFit
<1>5. (\A i \in 1 .. Len(extents) : Lp!ExtentFits(extents[i]))'
  BY DEF LpInv, Lp!ExtentFits
<1>6. (\A i \in 1 .. Len(partitions) :
          partitions[i].first + partitions[i].count <= Len(extents))'
  BY DEF LpInv
<1>7. (\A i \in 1 .. Len(request) : \E q \in Lp!ToSet(partitions) : q.name = request[i])'
  <2>1. Lp!ToSet(partitions') = Lp!ToSet(partitions) /\ request' = request
    OBVIOUS
  <2>. QED  BY <1>2, <2>1 DEF LpInv
<1>8. ASSUME NEW n \in Names PROVE Expected(n)' = Expected(n)
  BY DEF Expected, Image, Lp!Named, Lp!ToSet, Lp!Selected, Lp!Mapped
<1>9. \A n \in Names : files'[n] # NoFile => files'[n] = Expected(n)'
  BY <1>8
<1>10. pc' \notin LpReading
  BY DEF LpReading
<1>. QED  BY <1>1, <1>3, <1>4, <1>5, <1>6, <1>7, <1>9, <1>10 DEF LpInv, LpReading

LEMMA LpPadded ==
  ASSUME NEW o \in Seq(Nat), NEW n \in Nat, Len(o) <= n
  PROVE  /\ Lp!Padded(o, n) \in Seq(Nat) /\ Len(Lp!Padded(o, n)) = n
         /\ Len(o) = n => Lp!Padded(o, n) = o
         /\ \A k \in Nat : Lp!Padded(o, n + k) = Lp!Padded(o, n) \o [i \in 1 .. k |-> 0]
<1>. DEFINE p == Lp!Padded(o, n)
<1>1. \A i \in 1 .. Len(o) : o[i] \in Nat
  BY ElementOfSeq
<1>2. /\ p \in Seq(Nat) /\ Len(p) = n
      /\ \A i \in 1 .. n : p[i] = IF i <= Len(o) THEN o[i] ELSE 0
  BY <1>1 DEF Lp!Padded
<1>. HIDE DEF p
<1>3. Len(o) = n => p = o
  <2>. SUFFICES ASSUME Len(o) = n PROVE p = o
    OBVIOUS
  <2>1. \A i \in 1 .. Len(p) : p[i] = o[i]
    BY <1>2
  <2>. QED  BY <1>2, <2>1, SeqEqual
<1>4. ASSUME NEW k \in Nat PROVE Lp!Padded(o, n + k) = p \o [i \in 1 .. k |-> 0]
  <2>. DEFINE q == Lp!Padded(o, n + k)
              z == [i \in 1 .. k |-> 0]
  <2>1. /\ q \in Seq(Nat) /\ Len(q) = n + k
        /\ \A i \in 1 .. n + k : q[i] = IF i <= Len(o) THEN o[i] ELSE 0
    <3>1. n + k \in Nat /\ \A i \in 1 .. n + k : (IF i <= Len(o) THEN o[i] ELSE 0) \in Nat
      BY <1>1
    <3>. QED  BY <3>1 DEF Lp!Padded
  <2>2. z \in Seq(Nat) /\ Len(z) = k /\ \A i \in 1 .. k : z[i] = 0
    OBVIOUS
  <2>. HIDE DEF q, z
  <2>3. /\ p \o z \in Seq(Nat) /\ Len(p \o z) = n + k
        /\ \A i \in 1 .. n + k : (p \o z)[i] = IF i <= n THEN p[i] ELSE z[i - n]
    BY <1>2, <2>2, ConcatProperties
  <2>4. \A i \in 1 .. n + k : q[i] = (p \o z)[i]
    <3>. SUFFICES ASSUME NEW i \in 1 .. n + k PROVE q[i] = (p \o z)[i]
      OBVIOUS
    <3>1. CASE i <= n
      <4>1. i \in 1 .. n
        BY <3>1
      <4>. QED  BY <1>2, <2>1, <2>3, <3>1, <4>1, Zenon
    <3>2. CASE ~(i <= n)
      <4>1. i - n \in 1 .. k /\ ~(i <= Len(o))
        BY <3>2, LenProperties
      <4>. QED  BY <2>1, <2>2, <2>3, <3>2, <4>1
    <3>. QED  BY <3>1, <3>2
  <2>5. q = p \o z
    BY <2>1, <2>3, <2>4, SeqEqual
  <2>. QED  BY <2>5 DEF q, z
<1>. QED  BY <1>2, <1>3, <1>4 DEF p

LEMMA LpCurrent ==
  ASSUME LpInv, pc \in {"extract", "copy"}, at \in 1 .. Len(request)
  PROVE  /\ Current \in Lp!Partitions /\ Current.name = request[at]
         /\ Current.count \in Nat /\ Current.first + Current.count <= Len(extents)
         /\ Lp!Writing /\ at' = at => Current' = Current
         /\ Lp!Writing => \A p, n : Image(p, n)' = Image(p, n)
<1>1. \E q \in Lp!ToSet(partitions) : q.name = request[at]
  BY DEF LpInv, Lp!Accepted
<1>2. Lp!Writing /\ at' = at => Current' = Current
  BY DEF Current, Lp!Named, Lp!ToSet, Lp!Writing, Lp!tables
<1>3. Lp!Writing => \A p, n : Image(p, n)' = Image(p, n)
  BY DEF Image, Lp!Mapped, Lp!Selected, Lp!Writing, Lp!tables
<1>. QED  BY <1>1, <1>2, <1>3, LpNamed DEF Current

LEMMA LpPrepare ==
  ASSUME LpInv, Lp!Prepare PROVE LpInv'
<1>. USE DEF Lp!Prepare
<1>1. /\ at \in Nat \ {0} /\ extent \in Nat \ {0} /\ output \in Seq(Nat)
      /\ position \in Nat /\ Len(output) <= position /\ request \in Seq(Names)
      /\ files \in [Names -> {NoFile} \cup Seq(Nat)]
      /\ \A n \in Names : files[n] # NoFile => files[n] = Expected(n)
  BY DEF LpInv, LpTypes
<1>2. CASE Lp!Stop
  BY <1>1, <1>2, LpWrites DEF Lp!Stop, Lp!writing
<1>3. CASE ~Lp!Stop
  <2>1. /\ pc = "extract" /\ pc' = "copy" /\ extent' = 1 /\ output' = <<>> /\ position' = 0
        /\ UNCHANGED <<at, files>> /\ Lp!Writing /\ at \in 1 .. Len(request)
    BY <1>1, <1>3
  <2>2. PICK p \in Lp!Partitions : p = Current /\ p = Current' /\ p.count \in Nat
    BY <2>1, LpCurrent
  <2>3. Lp!Padded(output, position)' = <<>>
    BY <2>1 DEF Lp!Padded
  <2>4. Image(p, extent - 1)' = <<>>
    BY <2>1, FlattenNothing DEF Image
  <2>5. request' = request
    BY <2>1 DEF Lp!Writing
  <2>6. Copied'
    BY <2>1, <2>2, <2>3, <2>4, <2>5 DEF Copied
  <2>. QED  BY <1>1, <2>1, <2>6, LpWrites
<1>. QED  BY <1>2, <1>3

LEMMA LpCopyExtent ==
  ASSUME LpInv, Lp!CopyExtent PROVE LpInv'
<1>1. /\ at \in Nat \ {0} /\ extent \in Nat \ {0} /\ output \in Seq(Nat)
      /\ position \in Nat /\ Len(output) <= position /\ request \in Seq(Names)
      /\ files \in [Names -> {NoFile} \cup Seq(Nat)]
      /\ \A n \in Names : files[n] # NoFile => files[n] = Expected(n)
      /\ pc = "copy" /\ Lp!Writing /\ Copied
  BY DEF Lp!CopyExtent, LpInv, LpTypes
<1>2. PICK p \in Lp!Partitions :
        /\ p = Current /\ at \in 1 .. Len(request) /\ extent \in 1 .. p.count + 1
        /\ Lp!Padded(output, position) = Image(p, extent - 1)
  BY <1>1 DEF Copied
<1>3. p.count \in Nat /\ p.first + p.count <= Len(extents)
  BY <1>1, <1>2, LpCurrent
<1>4. extent \in 1 .. p.count
  BY <1>2, <1>3 DEF Lp!CopyExtent, Current
<1>5. PICK e \in Lp!Extents : e = Lp!Selected(p)[extent]
  BY <1>3, <1>4, LpSelected
<1>6. /\ e.sectors \in Nat /\ e.data \in Nat /\ e.type \in {"linear", "zero"}
      /\ Lp!Mapped(e) \in Seq(Nat) /\ Len(Lp!Mapped(e)) = e.sectors
  BY <1>3, <1>4, <1>5, LpSelected DEF Lp!Extents
<1>7. Image(p, extent) = Image(p, extent - 1) \o Lp!Mapped(e)
  <2>1. PICK k \in Nat : k + 1 = extent /\ extent - 1 = k
    BY <1>4
  <2>2. \A i \in 1 .. k + 1 : Lp!Mapped(Lp!Selected(p)[i]) \in Seq(Nat)
    BY <1>3, <1>4, <2>1, LpSelected
  <2>. DEFINE r == [i \in 1 .. k + 1 |-> Lp!Mapped(Lp!Selected(p)[i])]
  <2>3. /\ \A i \in 1 .. k + 1 : r[i] = Lp!Mapped(Lp!Selected(p)[i]) /\ r[i] \in Seq(Nat)
        /\ [i \in 1 .. k |-> r[i]] = [i \in 1 .. k |-> Lp!Mapped(Lp!Selected(p)[i])]
        /\ [i \in 1 .. k + 1 |-> r[i]] = [i \in 1 .. k + 1 |-> Lp!Mapped(Lp!Selected(p)[i])]
    BY <2>2
  <2>4. r[k + 1] = Lp!Mapped(e)
    BY <1>5, <2>1
  <2>. HIDE DEF r
  <2>5. FlattenSeq([i \in 1 .. k + 1 |-> r[i]]) = FlattenSeq([i \in 1 .. k |-> r[i]]) \o r[k + 1]
    BY <2>3, FlattenNext
  <2>. QED  BY <2>1, <2>3, <2>4, <2>5 DEF Image
<1>8. CASE Lp!Stop
  BY <1>1, <1>8, LpWrites DEF Lp!Stop, Lp!writing
<1>9. CASE ~Lp!Stop
  <2>1. /\ output' = IF e.type = "zero" THEN output
                     ELSE Lp!Padded(output, position) \o [i \in 1 .. e.sectors |-> e.data + i]
        /\ position' = position + e.sectors /\ extent' = extent + 1
        /\ UNCHANGED <<pc, at, files>>
    BY <1>2, <1>5, <1>9 DEF Lp!CopyExtent, Current
  <2>2. /\ output' \in Seq(Nat) /\ position' \in Nat /\ Len(output') <= position'
        /\ Lp!Padded(output', position') = Lp!Padded(output, position) \o Lp!Mapped(e)
    <3>1. CASE e.type = "zero"
      <4>1. Lp!Mapped(e) = [i \in 1 .. e.sectors |-> 0]
        BY <3>1 DEF Lp!Mapped
      <4>2. output' = output /\ position' \in Nat /\ Len(output) <= position'
        BY <1>1, <1>6, <2>1, <3>1, LenProperties
      <4>3. Lp!Padded(output, position + e.sectors)
              = Lp!Padded(output, position) \o [i \in 1 .. e.sectors |-> 0]
        <5>1. \A k \in Nat : Lp!Padded(output, position + k)
                = Lp!Padded(output, position) \o [i \in 1 .. k |-> 0]
          BY <1>1, LpPadded, Zenon
        <5>. QED  BY <1>6, <5>1
      <4>. QED  BY <1>1, <2>1, <4>1, <4>2, <4>3
    <3>2. CASE e.type # "zero"
      <4>1. Lp!Mapped(e) = [i \in 1 .. e.sectors |-> e.data + i]
        BY <1>6, <3>2 DEF Lp!Mapped
      <4>2. Lp!Padded(output, position) \in Seq(Nat) /\ Len(Lp!Padded(output, position)) = position
        BY <1>1, LpPadded
      <4>3. output' = Lp!Padded(output, position) \o Lp!Mapped(e)
        BY <2>1, <3>2, <4>1
      <4>4. PICK o \in Seq(Nat) : o = output' /\ Len(o) = position + e.sectors
        <5>1. PICK a \in Seq(Nat) : a = Lp!Padded(output, position) /\ Len(a) = position
          BY <4>2
        <5>2. PICK b \in Seq(Nat) : b = Lp!Mapped(e) /\ Len(b) = e.sectors
          BY <1>6
        <5>3. a \o b \in Seq(Nat) /\ Len(a \o b) = Len(a) + Len(b)
          BY ConcatProperties
        <5>. QED  BY <4>3, <5>1, <5>2, <5>3, Zenon
      <4>5. PICK n \in Nat : n = position' /\ n = position + e.sectors
        BY <1>1, <1>6, <2>1
      <4>6. Lp!Padded(o, n) = o
        BY <4>4, <4>5, LpPadded
      <4>. QED  BY <4>3, <4>4, <4>5, <4>6
    <3>. QED  BY <3>1, <3>2
  <2>3. Copied'
    <3>1. p = Current'
      BY <1>1, <1>2, <2>1, LpCurrent
    <3>2. Lp!Padded(output, position)' = Image(p, extent)
      BY <1>2, <1>7, <2>2 DEF Lp!Padded
    <3>3. Image(p, extent - 1)' = Image(p, extent)
      <4>1. extent' - 1 = extent
        BY <1>4, <2>1
      <4>. QED  BY <1>1, <1>2, <4>1, LpCurrent DEF Image, Lp!Selected, Lp!Writing, Lp!tables, Lp!Mapped
    <3>4. request' = request /\ extent' \in 1 .. p.count + 1 /\ at' = at
      BY <1>1, <1>3, <1>4, <2>1 DEF Lp!Writing
    <3>. QED  BY <1>2, <3>1, <3>2, <3>3, <3>4 DEF Copied
  <2>4. extent' \in Nat \ {0} /\ pc' = "copy"
    BY <1>1, <2>1
  <2>. QED  BY <1>1, <2>1, <2>2, <2>3, <2>4, LpWrites
<1>. QED  BY <1>8, <1>9

LEMMA LpCommit ==
  ASSUME LpInv, Lp!Commit PROVE LpInv'
<1>1. /\ at \in Nat \ {0} /\ extent \in Nat \ {0} /\ output \in Seq(Nat)
      /\ position \in Nat /\ Len(output) <= position /\ request \in Seq(Names)
      /\ files \in [Names -> {NoFile} \cup Seq(Nat)]
      /\ \A n \in Names : files[n] # NoFile => files[n] = Expected(n)
      /\ pc = "copy" /\ Lp!Writing /\ Copied
  BY DEF Lp!Commit, LpInv, LpTypes
<1>2. PICK p \in Lp!Partitions :
        /\ p = Current /\ at \in 1 .. Len(request) /\ extent \in 1 .. p.count + 1
        /\ Lp!Padded(output, position) = Image(p, extent - 1)
  BY <1>1 DEF Copied
<1>3. p.count \in Nat /\ p.name = request[at] /\ p.name \in Names
  BY <1>1, <1>2, LpCurrent
<1>4. extent - 1 = p.count
  BY <1>2, <1>3 DEF Lp!Commit, Current
<1>5. CASE Lp!Stop
  BY <1>1, <1>5, LpWrites DEF Lp!Stop, Lp!writing
<1>6. CASE ~Lp!Stop
  <2>1. /\ pc' = "extract" /\ at' = at + 1 /\ UNCHANGED <<extent, output, position>>
        /\ files' = [files EXCEPT ![p.name] = Lp!Padded(output, position)]
    BY <1>2, <1>6 DEF Lp!Commit, Current
  <2>2. Lp!Padded(output, position) = Expected(p.name)
    BY <1>2, <1>3, <1>4 DEF Expected, Current
  <2>3. Lp!Padded(output, position) \in Seq(Nat)
    BY <1>1, LpPadded
  <2>4. files' \in [Names -> {NoFile} \cup Seq(Nat)]
    BY <1>1, <2>1, <2>3
  <2>5. \A n \in Names : files'[n] # NoFile => files'[n] = Expected(n)
    BY <1>1, <2>1, <2>2
  <2>6. at' \in Nat \ {0}
    BY <1>1, <2>1
  <2>. QED  BY <1>1, <2>1, <2>4, <2>5, <2>6, LpWrites
<1>. QED  BY <1>5, <1>6

LEMMA LpStep == ASSUME Lp!LpAssumption, LpInv, Lp!Next PROVE LpInv'
<1>1. ASSUME Lp!WriteFails \/ Lp!End PROVE LpInv'
  <2>1. /\ pc \in {"extract", "copy"} /\ pc' \in {"refused", "done"}
        /\ UNCHANGED Lp!writing /\ Lp!Writing
    BY <1>1 DEF Lp!WriteFails, Lp!End, Lp!Stop
  <2>2. /\ at \in Nat \ {0} /\ extent \in Nat \ {0} /\ output \in Seq(Nat)
        /\ position \in Nat /\ Len(output) <= position
        /\ files \in [Names -> {NoFile} \cup Seq(Nat)]
        /\ \A n \in Names : files[n] # NoFile => files[n] = Expected(n)
    BY DEF LpInv, LpTypes
  <2>. QED  BY <2>1, <2>2, LpWrites DEF Lp!writing
<1>2. ASSUME Lp!Damaged PROVE LpInv'
  <2>1. pc \in LpReading
    BY <1>2 DEF Lp!Damaged, LpReading
  <2>. QED  BY <1>2, <2>1, LpReject DEF Lp!Damaged
<1>. QED  BY <1>1, <1>2, LpHeaders, LpTables, LpPrepare, LpCopyExtent, LpCommit DEF Lp!Next

-----------------------------------------------------------------------------
(* The transfer lists *)

\* Of the module, and of the library the lemmas are about.
LEMMA SdatLibrary ==
  /\ \A q : Sdat!FlattenSeq(q) = FlattenSeq(q)
  /\ \A f, S : Sdat!SumFunctionOnSet(f, S) = SumFunctionOnSet(f, S)
  /\ \A S : Sdat!Cardinality(S) = Cardinality(S)
<1>1. \A q : Sdat!FlattenSeq(q) = FlattenSeq(q)
  BY DEF Sdat!FlattenSeq, FlattenSeq
<1>2. \A f, S : Sdat!SumFunctionOnSet(f, S) = SumFunctionOnSet(f, S)
  BY DEF Sdat!SumFunctionOnSet, SumFunctionOnSet, Sdat!FoldFunctionOnSet, FoldFunctionOnSet,
         Sdat!MapThenFoldSet, MapThenFoldSet
<1>3. \A S : Sdat!Cardinality(S) = Cardinality(S)
  BY DEF Sdat!Cardinality, Cardinality
<1>. QED  BY <1>1, <1>2, <1>3

\* The ranges of an image of n blocks.
Spans(n) == {r \in Nat \X Nat : r[1] < r[2] /\ r[2] <= n}

\* The blocks of the ranges before the i-th.
Before(R, i) == SumFunctionOnSet(Sdat!Sizes(R), 1 .. i - 1)

LEMMA Starts ==
  ASSUME NEW n \in Nat, NEW R \in Seq(Spans(n))
  PROVE  /\ Len(R) \in Nat /\ DOMAIN R = 1 .. Len(R)
         /\ \A i \in 1 .. Len(R) : /\ R[i][1] \in Nat /\ R[i][2] \in Nat
                                   /\ R[i][1] < R[i][2] /\ R[i][2] <= n
                                   /\ Sdat!Sizes(R)[i] = R[i][2] - R[i][1]
                                   /\ Sdat!Sizes(R)[i] \in Nat
         /\ \A i \in 1 .. Len(R) : Before(R, i) \in Nat
         /\ Before(R, 1) = 0
         /\ \A i \in 1 .. Len(R) : Before(R, i + 1) = Before(R, i) + Sdat!Sizes(R)[i]
         /\ Sdat!Blocks(R) = Before(R, Len(R) + 1)
<1>. DEFINE f == Sdat!Sizes(R)
<1>1. Len(R) \in Nat /\ DOMAIN R = 1 .. Len(R) /\ \A i \in 1 .. Len(R) : R[i] \in Spans(n)
  BY ElementOfSeq, LenProperties
<1>2. \A i \in 1 .. Len(R) : /\ R[i][1] \in Nat /\ R[i][2] \in Nat
                             /\ R[i][1] < R[i][2] /\ R[i][2] <= n
  BY <1>1 DEF Spans
<1>3. \A i \in 1 .. Len(R) : f[i] = R[i][2] - R[i][1]
  BY <1>1 DEF Sdat!Sizes
<1>4. \A i \in 1 .. Len(R) : f[i] \in Nat
  BY <1>2, <1>3
<1>5. DOMAIN f = 1 .. Len(R)
  BY <1>1 DEF Sdat!Sizes
<1>. HIDE DEF f
<1>6. ASSUME NEW i \in 1 .. Len(R)
      PROVE  /\ SumFunctionOnSet(f, 1 .. i) = f[i] + SumFunctionOnSet(f, 1 .. i - 1)
             /\ SumFunctionOnSet(f, 1 .. i - 1) \in Nat
  <2>1. IsFiniteSet(1 .. i) /\ i \in 1 .. i /\ (1 .. i) \ {i} = 1 .. i - 1
    <3>1. IsFiniteSet(1 .. i)
      BY FS_Interval
    <3>. QED  BY <3>1
  <2>2. \A x \in 1 .. i : f[x] \in Nat
    BY <1>1, <1>4
  <2>3. /\ SumFunctionOnSet(f, 1 .. i) = f[i] + SumFunctionOnSet(f, (1 .. i) \ {i})
        /\ SumFunctionOnSet(f, (1 .. i) \ {i}) \in Nat
    BY <2>1, <2>2, SumRemove
  <2>. QED  BY <2>1, <2>3
<1>7. \A i \in 1 .. Len(R) : /\ Before(R, i) \in Nat
                             /\ Before(R, i + 1) = Before(R, i) + f[i]
  <2>. SUFFICES ASSUME NEW i \in 1 .. Len(R)
                PROVE  Before(R, i) \in Nat /\ Before(R, i + 1) = Before(R, i) + f[i]
    OBVIOUS
  <2>1. (i + 1) - 1 = i
    OBVIOUS
  <2>2. Before(R, i) = SumFunctionOnSet(f, 1 .. i - 1) /\ Before(R, i + 1) = SumFunctionOnSet(f, 1 .. i)
    BY <2>1 DEF Before, f
  <2>. QED  BY <1>4, <1>6, <2>2
<1>8. Before(R, 1) = 0
  <2>1. 1 .. 1 - 1 = {}
    OBVIOUS
  <2>. QED  BY <2>1, SumOfNothing DEF Before
<1>9. Sdat!Blocks(R) = Before(R, Len(R) + 1)
  <2>1. (Len(R) + 1) - 1 = Len(R)
    BY <1>1
  <2>2. Sdat!Blocks(R) = SumFunctionOnSet(f, DOMAIN f)
    BY SdatLibrary DEF Sdat!Blocks, Sdat!SumFunction, f
  <2>. QED  BY <1>5, <2>1, <2>2 DEF Before, f
<1>. QED  BY <1>1, <1>2, <1>3, <1>4, <1>7, <1>8, <1>9 DEF f

\* The k-th block of new.dat goes to the range that it falls into.
LEMMA Places ==
  ASSUME NEW n \in Nat, NEW R \in Seq(Spans(n))
  PROVE  /\ Sdat!Blocks(R) \in Nat
         /\ \A k \in 1 .. Sdat!Blocks(R) : \E i \in 1 .. Len(R) :
               Before(R, i) < k /\ k <= Before(R, i) + Sdat!Sizes(R)[i]
         /\ \A i \in 1 .. Len(R), k \in Nat :
               Before(R, i) < k /\ k <= Before(R, i) + Sdat!Sizes(R)[i] =>
                  /\ k \in 1 .. Sdat!Blocks(R)
                  /\ Sdat!Place(R, k) = R[i][1] + (k - Before(R, i)) - 1
<1>. DEFINE m == Len(R)
            s == [i \in 1 .. m |-> Before(R, i)]
            e == [i \in 1 .. m |-> Before(R, i) + Sdat!Sizes(R)[i]]
<1>1. /\ m \in Nat /\ DOMAIN R = 1 .. m
      /\ \A i \in 1 .. m : Before(R, i) \in Nat /\ Sdat!Sizes(R)[i] \in Nat
      /\ Before(R, 1) = 0
      /\ \A i \in 1 .. m : Before(R, i + 1) = Before(R, i) + Sdat!Sizes(R)[i]
      /\ Sdat!Blocks(R) = Before(R, m + 1)
  BY Starts
<1>. HIDE DEF m
<1>2. s \in [1 .. m -> Nat] /\ e \in [1 .. m -> Nat]
  BY <1>1
<1>3. \A i \in 1 .. m : s[i] = Before(R, i) /\ e[i] = Before(R, i) + Sdat!Sizes(R)[i]
  OBVIOUS
<1>. HIDE DEF s, e
<1>4. \A i \in 1 .. m : s[i] <= e[i] /\ s[i] = IF i = 1 THEN 0 ELSE e[i - 1]
  <2>. SUFFICES ASSUME NEW i \in 1 .. m
                PROVE  s[i] <= e[i] /\ s[i] = IF i = 1 THEN 0 ELSE e[i - 1]
    OBVIOUS
  <2>1. s[i] <= e[i]
    <3>1. Before(R, i) \in Nat /\ Sdat!Sizes(R)[i] \in Nat
      BY <1>1
    <3>. QED  BY <1>3, <3>1
  <2>2. CASE i = 1  BY <1>1, <1>3, <2>1, <2>2
  <2>3. CASE i # 1
    <3>1. i - 1 \in 1 .. m /\ (i - 1) + 1 = i
      BY <1>1, <2>3
    <3>2. Before(R, (i - 1) + 1) = Before(R, i - 1) + Sdat!Sizes(R)[i - 1]
      BY <1>1, <3>1
    <3>. QED  BY <1>3, <2>1, <2>3, <3>1, <3>2
  <2>. QED  BY <2>2, <2>3
<1>5. /\ \A i, j \in 1 .. m : i < j => e[i] <= s[j]
      /\ \A i \in 1 .. m : e[i] <= e[m]
      /\ \A i \in 1 .. m : \A b \in 0 .. e[i] - 1 : \E j \in 1 .. i : s[j] <= b /\ b < e[j]
  BY <1>1, <1>2, <1>4, Tiles
<1>6. Sdat!Blocks(R) = IF m = 0 THEN 0 ELSE e[m]
  <2>1. CASE m = 0
    <3>1. m + 1 = 1
      BY <2>1
    <3>. QED  BY <1>1, <2>1, <3>1, Zenon
  <2>2. CASE m # 0
    <3>1. m \in 1 .. m
      BY <1>1, <2>2
    <3>2. Before(R, m + 1) = e[m]
      BY <1>1, <1>3, <3>1, Zenon
    <3>. QED  BY <1>1, <2>2, <3>2, Zenon
  <2>. QED  BY <2>1, <2>2
<1>7. Sdat!Blocks(R) \in Nat
  BY <1>1, <1>2, <1>6
<1>8. ASSUME NEW k \in 1 .. Sdat!Blocks(R)
      PROVE  \E i \in 1 .. m : Before(R, i) < k /\ k <= Before(R, i) + Sdat!Sizes(R)[i]
  <2>1. m \in 1 .. m /\ k - 1 \in 0 .. e[m] - 1
    BY <1>1, <1>2, <1>6
  <2>2. PICK j \in 1 .. m : s[j] <= k - 1 /\ k - 1 < e[j]
    BY <1>5, <2>1
  <2>3. s[j] \in Nat /\ e[j] \in Nat
    BY <1>2
  <2>4. s[j] < k /\ k <= e[j]
    BY <2>2, <2>3
  <2>. QED  BY <1>3, <2>4
<1>9. ASSUME NEW i \in 1 .. m, NEW k \in Nat, Before(R, i) < k,
             k <= Before(R, i) + Sdat!Sizes(R)[i]
      PROVE  /\ k \in 1 .. Sdat!Blocks(R)
             /\ Sdat!Place(R, k) = R[i][1] + (k - Before(R, i)) - 1
  <2>1. s[i] < k /\ k <= e[i] /\ e[i] <= e[m] /\ m # 0
    BY <1>1, <1>3, <1>5, <1>9
  <2>2. k \in 1 .. Sdat!Blocks(R)
    BY <1>1, <1>2, <1>6, <2>1
  <2>3. ASSUME NEW j \in 1 .. m, s[j] < k, k <= e[j] PROVE j = i
    <3>1. s[i] \in Nat /\ e[i] \in Nat /\ s[j] \in Nat /\ e[j] \in Nat
      BY <1>2
    <3>2. i < j => e[i] <= s[j]
      BY <1>5
    <3>3. j < i => e[j] <= s[i]
      BY <1>5
    <3>. QED  BY <2>1, <2>3, <3>1, <3>2, <3>3
  <2>. DEFINE In(j) == Sdat!SumFunctionOnSet(Sdat!Sizes(R), 1 .. j - 1) < k
                       /\ k <= Sdat!SumFunctionOnSet(Sdat!Sizes(R), 1 .. j - 1) + Sdat!Sizes(R)[j]
              c == CHOOSE j \in DOMAIN R : In(j)
  <2>4. \A j \in 1 .. m : In(j) <=> s[j] < k /\ k <= e[j]
    BY <1>3, SdatLibrary DEF Before
  <2>5. Sdat!Place(R, k) = R[c][1] + (k - Sdat!SumFunctionOnSet(Sdat!Sizes(R), 1 .. c - 1)) - 1
    BY DEF Sdat!Place
  <2>. HIDE DEF In
  <2>6. c = i
    <3>1. In(i)
      BY <2>1, <2>4
    <3>2. c \in 1 .. m /\ In(c)
      BY <1>1, <3>1
    <3>. QED  BY <2>3, <2>4, <3>2
  <2>. HIDE DEF c
  <2>. QED  BY <2>2, <2>5, <2>6, SdatLibrary DEF Before
<1>. QED  BY <1>7, <1>8, <1>9 DEF m

\* The k-th block goes to block b of the range from a to z, c being before it.
LEMMA Shift ==
  ASSUME NEW a \in Nat, NEW z \in Nat, NEW c \in Nat, NEW n \in Nat, z <= n
  PROVE  /\ \A k \in Int : c < k /\ k <= c + (z - a) =>
               a + (k - c) - 1 \in a .. z - 1 /\ a + (k - c) - 1 \in 0 .. n - 1
OBVIOUS

LEMMA ShiftBack ==
  ASSUME NEW a \in Nat, NEW z \in Nat, NEW c \in Nat, NEW b \in a .. z - 1
  PROVE  /\ c + (b - a) + 1 \in Nat /\ c < c + (b - a) + 1
         /\ c + (b - a) + 1 <= c + (z - a)
         /\ a + (c + (b - a) + 1 - c) - 1 = b
OBVIOUS

LEMMA ShiftOnce ==
  ASSUME NEW a \in Nat, NEW c \in Nat, NEW k \in Int, NEW l \in Int,
         a + (k - c) - 1 = a + (l - c) - 1
  PROVE  k = l
OBVIOUS

LEMMA Overlap ==
  ASSUME NEW a \in Nat, NEW z \in Nat, NEW y \in Nat, NEW x \in Nat,
         NEW q \in a .. z - 1, q \in y .. x - 1
  PROVE  ~(z <= y) /\ ~(x <= a)
OBVIOUS

Apart(R) ==
  \A i, j \in 1 .. Len(R) : i # j => R[i][2] <= R[j][1] \/ R[j][2] <= R[i][1]

\* Ranges that do not overlap keep their blocks apart.
LEMMA PlacesApart ==
  ASSUME NEW n \in Nat, NEW R \in Seq(Spans(n)), Apart(R)
  PROVE  /\ \A k \in 1 .. Sdat!Blocks(R) :
               /\ Sdat!Place(R, k) \in 0 .. n - 1
               /\ \E i \in 1 .. Len(R) : Sdat!Place(R, k) \in R[i][1] .. R[i][2] - 1
         /\ \A k, l \in 1 .. Sdat!Blocks(R) : Sdat!Place(R, k) = Sdat!Place(R, l) => k = l
         /\ \A i \in 1 .. Len(R) : \A b \in R[i][1] .. R[i][2] - 1 :
               LET k == Before(R, i) + (b - R[i][1]) + 1
               IN  k \in 1 .. Sdat!Blocks(R) /\ Sdat!Place(R, k) = b
<1>1. \A i \in 1 .. Len(R) : /\ R[i][1] \in Nat /\ R[i][2] \in Nat
                             /\ R[i][1] < R[i][2] /\ R[i][2] <= n
                             /\ Sdat!Sizes(R)[i] = R[i][2] - R[i][1]
                             /\ Before(R, i) \in Nat
  BY Starts
<1>2. ASSUME NEW k \in 1 .. Sdat!Blocks(R)
      PROVE  \E i \in 1 .. Len(R) :
                /\ Sdat!Place(R, k) = R[i][1] + (k - Before(R, i)) - 1
                /\ Sdat!Place(R, k) \in R[i][1] .. R[i][2] - 1
                /\ Sdat!Place(R, k) \in 0 .. n - 1
  <2>1. PICK i \in 1 .. Len(R) : Before(R, i) < k /\ k <= Before(R, i) + Sdat!Sizes(R)[i]
    BY Places
  <2>2. k \in Int /\ k \in Nat
    BY Places
  <2>3. Sdat!Place(R, k) = R[i][1] + (k - Before(R, i)) - 1
    BY <2>1, <2>2, Places
  <2>4. k <= Before(R, i) + (R[i][2] - R[i][1])
    BY <1>1, <2>1, Zenon
  <2>5. /\ R[i][1] + (k - Before(R, i)) - 1 \in R[i][1] .. R[i][2] - 1
        /\ R[i][1] + (k - Before(R, i)) - 1 \in 0 .. n - 1
    BY <1>1, <2>1, <2>2, <2>4, Shift, Zenon
  <2>. QED  BY <2>3, <2>5, Zenon
<1>3. ASSUME NEW k \in 1 .. Sdat!Blocks(R), NEW l \in 1 .. Sdat!Blocks(R),
             Sdat!Place(R, k) = Sdat!Place(R, l)
      PROVE  k = l
  <2>1. PICK i \in 1 .. Len(R) :
           /\ Sdat!Place(R, k) = R[i][1] + (k - Before(R, i)) - 1
           /\ Sdat!Place(R, k) \in R[i][1] .. R[i][2] - 1
    BY <1>2
  <2>2. PICK j \in 1 .. Len(R) :
           /\ Sdat!Place(R, l) = R[j][1] + (l - Before(R, j)) - 1
           /\ Sdat!Place(R, l) \in R[j][1] .. R[j][2] - 1
    BY <1>2
  <2>3. ~(R[i][2] <= R[j][1]) /\ ~(R[j][2] <= R[i][1])
    BY <1>1, <1>3, <2>1, <2>2, Overlap, Zenon
  <2>4. i = j
    BY <2>3, Zenon DEF Apart
  <2>5. k \in Int /\ l \in Int
    OBVIOUS
  <2>6. R[i][1] + (k - Before(R, i)) - 1 = R[i][1] + (l - Before(R, i)) - 1
    BY <1>3, <2>1, <2>2, <2>4, Zenon
  <2>7. R[i][1] \in Nat /\ Before(R, i) \in Nat
    BY <1>1, Zenon
  <2>. QED  BY <2>5, <2>6, <2>7, ShiftOnce
<1>4. ASSUME NEW i \in 1 .. Len(R), NEW b \in R[i][1] .. R[i][2] - 1
      PROVE  LET k == Before(R, i) + (b - R[i][1]) + 1
             IN  k \in 1 .. Sdat!Blocks(R) /\ Sdat!Place(R, k) = b
  <2>. DEFINE k == Before(R, i) + (b - R[i][1]) + 1
  <2>0. R[i][1] \in Nat /\ R[i][2] \in Nat /\ Before(R, i) \in Nat
    BY <1>1, Zenon
  <2>1. /\ k \in Nat /\ Before(R, i) < k /\ k <= Before(R, i) + (R[i][2] - R[i][1])
        /\ R[i][1] + (k - Before(R, i)) - 1 = b
    <3>1. PICK a \in Nat, z \in Nat, c \in Nat :
             a = R[i][1] /\ z = R[i][2] /\ c = Before(R, i)
      BY <2>0, Zenon
    <3>2. b \in a .. z - 1
      BY <3>1, Zenon
    <3>3. /\ c + (b - a) + 1 \in Nat /\ c < c + (b - a) + 1
          /\ c + (b - a) + 1 <= c + (z - a)
          /\ a + (c + (b - a) + 1 - c) - 1 = b
      BY <3>2, ShiftBack, Zenon
    <3>4. k = c + (b - a) + 1
      BY <3>1, Zenon
    <3>. HIDE DEF k
    <3>5. /\ k \in Nat /\ c < k /\ k <= c + (z - a) /\ a + (k - c) - 1 = b
      BY <3>3, <3>4
    <3>. QED  BY <3>1, <3>5, Zenon
  <2>. HIDE DEF k
  <2>2. k <= Before(R, i) + Sdat!Sizes(R)[i]
    BY <1>1, <2>1, Zenon
  <2>3. k \in 1 .. Sdat!Blocks(R) /\ Sdat!Place(R, k) = R[i][1] + (k - Before(R, i)) - 1
    BY <2>1, <2>2, Places, Zenon
  <2>4. k \in 1 .. Sdat!Blocks(R) /\ Sdat!Place(R, k) = b
    BY <2>1, <2>3, Zenon
  <2>. QED  BY <2>4 DEF k
<1>. QED  BY <1>2, <1>3, <1>4

Pairs == Nat \X Nat

\* The ends of ranges in order.
LEMMA OrderedEnds ==
  ASSUME NEW R \in Seq(Pairs), Sdat!Ordered(R), Len(R) # 0
  PROVE  R[Len(R)][2] \in Nat /\ R \in Seq(Spans(R[Len(R)][2]))
<1>. DEFINE last == R[Len(R)][2]
<1>1. Len(R) \in Nat /\ DOMAIN R = 1 .. Len(R) /\ \A i \in 1 .. Len(R) : R[i] \in Pairs
  BY ElementOfSeq, LenProperties
<1>2. \A i \in 1 .. Len(R) :
        /\ R[i][1] \in Nat /\ R[i][2] \in Nat /\ R[i][1] < R[i][2]
        /\ i > 1 => R[i - 1][2] <= R[i][1]
  <2>. SUFFICES ASSUME NEW i \in 1 .. Len(R)
                PROVE  /\ R[i][1] \in Nat /\ R[i][2] \in Nat /\ R[i][1] < R[i][2]
                       /\ i > 1 => R[i - 1][2] <= R[i][1]
    OBVIOUS
  <2>1. R[i] \in Nat \X Nat /\ (i > 1 => R[i - 1] \in Nat \X Nat)
    BY <1>1 DEF Pairs
  <2>2. R[i][1] < R[i][2] /\ (i > 1 => R[i][1] >= R[i - 1][2])
    BY <1>1 DEF Sdat!Ordered
  <2>. QED  BY <2>1, <2>2
<1>. DEFINE Q == {k \in Nat : k < Len(R) => R[Len(R) - k][2] <= last}
<1>3. 0 \in Q
  <2>1. Len(R) - 0 = Len(R) /\ Len(R) \in 1 .. Len(R)
    BY <1>1
  <2>. QED  BY <1>2, <2>1
<1>4. ASSUME NEW k \in Nat, k \in Q PROVE k + 1 \in Q
  <2>. SUFFICES ASSUME k + 1 < Len(R) PROVE R[Len(R) - (k + 1)][2] <= last
    OBVIOUS
  <2>1. /\ Len(R) - k \in 1 .. Len(R) /\ Len(R) - k > 1
        /\ (Len(R) - k) - 1 = Len(R) - (k + 1) /\ k < Len(R) /\ Len(R) - (k + 1) \in 1 .. Len(R)
    BY <1>1
  <2>2. PICK i \in 1 .. Len(R) : i = Len(R) - k /\ i > 1 /\ i - 1 = Len(R) - (k + 1)
    BY <2>1
  <2>3. i - 1 \in 1 .. Len(R) /\ Len(R) \in 1 .. Len(R)
    BY <1>1, <2>2
  <2>4. PICK x \in Nat, y \in Nat, z \in Nat, w \in Nat :
           x = R[i - 1][2] /\ y = R[i][1] /\ z = R[i][2] /\ w = last /\ x <= y /\ y < z
    BY <1>2, <2>2, <2>3
  <2>5. z <= w
    BY <1>4, <2>1, <2>2, <2>4
  <2>6. x <= w
    BY <2>4, <2>5
  <2>. QED  BY <2>2, <2>4, <2>6
<1>. HIDE DEF Q
<1>5. Nat \subseteq Q
  BY <1>3, <1>4, SetInduction
<1>6. ASSUME NEW i \in 1 .. Len(R) PROVE R[i] \in Spans(last)
  <2>1. Len(R) - i \in Q /\ Len(R) - i < Len(R) /\ Len(R) - (Len(R) - i) = i
    BY <1>1, <1>5
  <2>2. R[i][2] <= last
    BY <2>1 DEF Q
  <2>. QED  BY <1>1, <1>2, <2>2 DEF Spans, Pairs
<1>7. Len(R) \in 1 .. Len(R)
  BY <1>1
<1>8. R \in Seq(Spans(last))
  <2>. HIDE DEF last
  <2>1. \A i \in 1 .. Len(R) : R[i] \in Spans(last)
    BY <1>6
  <2>. QED  BY <1>1, <2>1
<1>. QED  BY <1>2, <1>7, <1>8

\* No overlap of the final ranges is none of the new ones, and none with a zero one.
LEMMA FinalApart ==
  ASSUME NEW n \in Nat, NEW R \in Seq(Spans(n)), NEW Z \in Seq(Spans(n)), Sdat!Disjoint(R \o Z)
  PROVE  /\ Apart(R)
         /\ \A i \in 1 .. Len(R), j \in 1 .. Len(Z) :
               R[i][2] <= Z[j][1] \/ Z[j][2] <= R[i][1]
<1>. DEFINE F == R \o Z
<1>1. Len(R) \in Nat /\ Len(Z) \in Nat
  BY LenProperties
<1>2. /\ Len(F) = Len(R) + Len(Z)
      /\ \A i \in 1 .. Len(R) + Len(Z) : F[i] = IF i <= Len(R) THEN R[i] ELSE Z[i - Len(R)]
      /\ DOMAIN F = 1 .. Len(F)
  BY ConcatProperties, LenProperties
<1>. HIDE DEF F
<1>3. \A i, j \in 1 .. Len(R) + Len(Z) : i # j => F[i][2] <= F[j][1] \/ F[j][2] <= F[i][1]
  BY <1>2 DEF Sdat!Disjoint, F
<1>4. /\ \A i \in 1 .. Len(R) : i \in 1 .. Len(R) + Len(Z) /\ F[i] = R[i]
      /\ \A j \in 1 .. Len(Z) : Len(R) + j \in 1 .. Len(R) + Len(Z) /\ F[Len(R) + j] = Z[j]
  <2>1. ASSUME NEW i \in 1 .. Len(R) PROVE i \in 1 .. Len(R) + Len(Z) /\ i <= Len(R)
    BY <1>1
  <2>2. ASSUME NEW j \in 1 .. Len(Z)
        PROVE  /\ Len(R) + j \in 1 .. Len(R) + Len(Z) /\ ~(Len(R) + j <= Len(R))
               /\ (Len(R) + j) - Len(R) = j
    BY <1>1
  <2>. QED  BY <1>2, <2>1, <2>2
<1>5. ASSUME NEW i \in 1 .. Len(R), NEW j \in 1 .. Len(Z) PROVE i # Len(R) + j
  BY <1>1
<1>. QED  BY <1>3, <1>4, <1>5 DEF Apart

Commands(n) == [operation : Sdat!Operations, ranges : Seq(Spans(n))]

LEMMA RangesTyped ==
  ASSUME NEW n \in Nat, commands \in Seq(Commands(n)), NEW op
  PROVE  Sdat!RangesOf(op) \in Seq(Spans(n))
<1>. DEFINE q == [i \in DOMAIN commands |->
                    IF commands[i].operation = op THEN commands[i].ranges ELSE <<>>]
<1>1. q \in Seq(Seq(Spans(n)))
  <2>1. \A i \in 1 .. Len(commands) : commands[i].ranges \in Seq(Spans(n))
    <3>1. \A i \in 1 .. Len(commands) : commands[i] \in Commands(n)
      BY ElementOfSeq
    <3>. QED  BY <3>1 DEF Commands
  <2>2. Len(commands) \in Nat /\ DOMAIN commands = 1 .. Len(commands)
    BY LenProperties
  <2>3. <<>> \in Seq(Spans(n))
    OBVIOUS
  <2>. QED  BY <2>1, <2>2, <2>3
<1>. HIDE DEF q
<1>2. PICK g : Prefixed(g, q)
  BY <1>1, PrefixedExists
<1>3. FlattenSeq(q) \in Seq(Spans(n))
  BY <1>1, <1>2, FlattenIs
<1>. QED  BY <1>3, SdatLibrary DEF Sdat!RangesOf, q

\* The d-th block of new.dat is in its place, for those copied, and nowhere else.
Transferred(R) ==
  /\ output \in [0 .. image_blocks - 1 -> Nat]
  /\ \A k \in 1 .. position : output[Sdat!Place(R, k)] = k
  /\ \A b \in 0 .. image_blocks - 1 :
       output[b] # 0 => output[b] \in 1 .. position /\ Sdat!Place(R, output[b]) = b
  /\ IsFiniteSet({b \in 0 .. image_blocks - 1 : output[b] # 0})
  /\ Cardinality({b \in 0 .. image_blocks - 1 : output[b] # 0}) = position

SdatInv ==
  /\ pc \in {"parsing", "parsed", "copying", "done", "refused"}
  /\ declared \in 1 .. MaxBlock /\ image_blocks \in 0 .. MaxBlock
  /\ commands \in Seq(Commands(image_blocks))
  /\ data \in Nat /\ position \in 0 .. data
  /\ pc \in {"parsing", "parsed"} => position = 0
  /\ pc \in {"parsed", "copying", "done"} => Sdat!Disjoint(Sdat!FinalRanges)
  /\ pc \in {"copying", "done"} =>
       data = Sdat!Wanted /\ \E R : R = Sdat!RangesOf("new") /\ Transferred(R)
  /\ pc = "done" => position = data

LEMMA SdatInitial == ASSUME Sdat!SdatAssumption, Sdat!Init PROVE SdatInv
  BY DEF Sdat!SdatAssumption, Sdat!Init, SdatInv, Commands

LEMMA SdatParse ==
  ASSUME Sdat!SdatAssumption, SdatInv, NEW operation \in Sdat!Operations,
         NEW ranges \in Sdat!RangeSets, Sdat!ParseLine(operation, ranges)
  PROVE  SdatInv'
<1>. USE DEF Sdat!ParseLine
<1>1. /\ declared \in 1 .. MaxBlock /\ image_blocks \in 0 .. MaxBlock
      /\ commands \in Seq(Commands(image_blocks)) /\ MaxBlock \in Nat
      /\ data \in Nat /\ position \in 0 .. data /\ position = 0 /\ pc = "parsing"
      /\ UNCHANGED <<declared, data, position, output>>
  BY DEF SdatInv, Sdat!SdatAssumption
<1>2. CASE ~Sdat!Ordered(ranges)
  <2>1. pc' = "refused" /\ UNCHANGED <<commands, image_blocks>>
    BY <1>2
  <2>. QED  BY <1>1, <2>1 DEF SdatInv
<1>3. CASE Sdat!Ordered(ranges)
  <2>. DEFINE last == ranges[Len(ranges)][2]
  <2>1. /\ pc' = "parsing"
        /\ commands' = Append(commands, [operation |-> operation, ranges |-> ranges])
        /\ image_blocks' = IF last > image_blocks THEN last ELSE image_blocks
    BY <1>1, <1>3
  <2>2. ranges \in Seq(Pairs) /\ Len(ranges) # 0 /\ last \in 0 .. MaxBlock
    <3>1. PICK n \in 1 .. MaxRanges : ranges \in [1 .. n -> Sdat!Ranges]
      BY DEF Sdat!RangeSets
    <3>2. n \in Nat /\ Len(ranges) = n /\ n \in 1 .. n
      BY <3>1
    <3>3. \A r \in Sdat!Ranges : r \in Pairs /\ r[2] \in 0 .. MaxBlock
      BY <1>1 DEF Sdat!Ranges, Pairs
    <3>4. ranges \in Seq(Pairs)
      BY <3>1, <3>2, <3>3
    <3>. QED  BY <3>1, <3>2, <3>3, <3>4
  <2>3. last \in Nat /\ ranges \in Seq(Spans(last))
    BY <1>3, <2>2, OrderedEnds
  <2>. HIDE DEF last
  <2>4. /\ image_blocks' \in 0 .. MaxBlock /\ image_blocks' \in Nat
        /\ last <= image_blocks' /\ image_blocks <= image_blocks'
    BY <1>1, <2>1, <2>2, <2>3
  <2>5. ASSUME NEW m \in Nat, NEW n \in Nat, m <= n PROVE Spans(m) \subseteq Spans(n)
    BY <2>5 DEF Spans
  <2>6. Spans(last) \subseteq Spans(image_blocks') /\ Spans(image_blocks) \subseteq Spans(image_blocks')
    BY <1>1, <2>3, <2>4, <2>5
  <2>7. commands' \in Seq(Commands(image_blocks'))
    <3>1. ranges \in Seq(Spans(image_blocks'))
      BY <2>3, <2>6
    <3>2. [operation |-> operation, ranges |-> ranges] \in Commands(image_blocks')
      BY <3>1 DEF Commands
    <3>3. Seq(Spans(image_blocks)) \subseteq Seq(Spans(image_blocks'))
      BY <2>6
    <3>4. Commands(image_blocks) \subseteq Commands(image_blocks')
      BY <3>3 DEF Commands
    <3>5. commands \in Seq(Commands(image_blocks'))
      BY <1>1, <3>4
    <3>. QED  BY <2>1, <3>2, <3>5, AppendProperties
  <2>. QED  BY <1>1, <2>1, <2>4, <2>7 DEF SdatInv, Commands
<1>. QED  BY <1>2, <1>3

\* What the plan says does not change after its parse.
LEMMA SdatPlan ==
  ASSUME UNCHANGED Sdat!plan
  PROVE  /\ \A op : Sdat!RangesOf(op)' = Sdat!RangesOf(op)
         /\ Sdat!Wanted' = Sdat!Wanted
         /\ Sdat!Disjoint(Sdat!FinalRanges)' = Sdat!Disjoint(Sdat!FinalRanges)
         /\ commands \in Seq(Commands(image_blocks)) =>
              commands' \in Seq(Commands(image_blocks'))
<1>. USE DEF Sdat!plan
<1>1. \A op : Sdat!RangesOf(op)' = Sdat!RangesOf(op)
  BY DEF Sdat!RangesOf
<1>2. Sdat!Wanted' = Sdat!Wanted
  BY <1>1 DEF Sdat!Wanted, Sdat!Blocks, Sdat!SumFunction, Sdat!Sizes
<1>3. Sdat!Disjoint(Sdat!FinalRanges)' = Sdat!Disjoint(Sdat!FinalRanges)
  BY <1>1 DEF Sdat!FinalRanges, Sdat!Disjoint
<1>. QED  BY <1>1, <1>2, <1>3

LEMMA SdatEnds ==
  ASSUME SdatInv, Sdat!EndParse \/ Sdat!Commit PROVE SdatInv'
<1>1. UNCHANGED Sdat!plan /\ UNCHANGED <<data, position, output>>
  BY DEF Sdat!EndParse, Sdat!Commit
<1>2. CASE Sdat!EndParse
  <2>1. pc' \in {"parsed", "refused"} /\ position = 0
        /\ (pc' = "parsed" => Sdat!Disjoint(Sdat!FinalRanges))
    BY <1>2 DEF Sdat!EndParse, SdatInv
  <2>. QED  BY <1>1, <2>1, SdatPlan DEF SdatInv, Sdat!plan
<1>3. CASE Sdat!Commit
  <2>1. PICK R : R = Sdat!RangesOf("new") /\ Transferred(R)
    BY <1>3 DEF SdatInv, Sdat!Commit
  <2>2. pc' = "done" /\ position = data /\ pc = "copying"
    BY <1>3 DEF Sdat!Commit, SdatInv
  <2>3. R = Sdat!RangesOf("new")' /\ Transferred(R)'
    BY <1>1, <2>1, SdatPlan DEF Transferred, Sdat!plan, Sdat!Place
  <2>. QED  BY <1>1, <2>2, <2>3, SdatPlan DEF SdatInv, Sdat!plan
<1>. QED  BY <1>2, <1>3

LEMMA SdatOpen ==
  ASSUME SdatInv, NEW size \in Nat, Sdat!OpenData(size) PROVE SdatInv'
<1>1. /\ pc = "parsed" /\ position = 0 /\ UNCHANGED Sdat!plan /\ position' = position
      /\ data \in Nat
  BY DEF Sdat!OpenData, SdatInv
<1>2. CASE size # Sdat!Blocks(Sdat!RangesOf("new"))
  <2>1. pc' = "refused" /\ data' = data
    BY <1>2 DEF Sdat!OpenData
  <2>. QED  BY <1>1, <2>1, SdatPlan DEF SdatInv, Sdat!plan
<1>3. CASE size = Sdat!Blocks(Sdat!RangesOf("new"))
  <2>1. /\ pc' = "copying" /\ data' = size /\ size = Sdat!Wanted
        /\ output' = [b \in 0 .. image_blocks - 1 |-> 0]
    BY <1>3 DEF Sdat!OpenData, Sdat!Wanted, Sdat!Zero
  <2>2. PICK R : R = Sdat!RangesOf("new") /\ R = Sdat!RangesOf("new")'
    BY <1>1, SdatPlan
  <2>3. {b \in 0 .. image_blocks' - 1 : output'[b] # 0} = {} /\ position' = 0
    BY <1>1, <2>1 DEF Sdat!plan
  <2>4. Transferred(R)'
    <3>. DEFINE new == {b \in 0 .. image_blocks' - 1 : output'[b] # 0}
    <3>1. IsFiniteSet(new) /\ Cardinality(new) = position'
      BY <2>3, FS_EmptySet
    <3>2. \A k : k \notin 1 .. position'
      BY <2>3
    <3>3. /\ output' \in [0 .. image_blocks' - 1 -> Nat]
          /\ \A b \in 0 .. image_blocks' - 1 : output'[b] = 0
      BY <1>1, <2>1 DEF Sdat!plan
    <3>. QED  BY <3>1, <3>2, <3>3 DEF Transferred
  <2>. QED  BY <1>1, <2>1, <2>2, <2>4, SdatPlan DEF SdatInv, Sdat!plan
<1>. QED  BY <1>2, <1>3

\* The new ranges of a list that was accepted.
LEMMA SdatRanges ==
  ASSUME Sdat!SdatAssumption, SdatInv, pc \in {"parsed", "copying", "done"},
         NEW R, R = Sdat!RangesOf("new"), NEW Z, Z = Sdat!RangesOf("zero")
  PROVE  /\ image_blocks \in Nat /\ R \in Seq(Spans(image_blocks)) /\ Z \in Seq(Spans(image_blocks))
         /\ Apart(R)
         /\ \A i \in 1 .. Len(R), j \in 1 .. Len(Z) :
               R[i][2] <= Z[j][1] \/ Z[j][2] <= R[i][1]
         /\ Sdat!Wanted = Sdat!Blocks(R)
<1>1. image_blocks \in Nat /\ commands \in Seq(Commands(image_blocks))
  BY DEF SdatInv, Sdat!SdatAssumption
<1>2. R \in Seq(Spans(image_blocks)) /\ Z \in Seq(Spans(image_blocks))
  BY <1>1, RangesTyped
<1>3. Sdat!Disjoint(R \o Z)
  BY DEF SdatInv, Sdat!FinalRanges
<1>. QED  BY <1>1, <1>2, <1>3, FinalApart DEF Sdat!Wanted

LEMMA SdatCopy ==
  ASSUME Sdat!SdatAssumption, SdatInv, Sdat!CopyBlock PROVE SdatInv'
<1>1. /\ pc = "copying" /\ position < Sdat!Wanted /\ data = Sdat!Wanted
      /\ UNCHANGED Sdat!plan /\ data' = data /\ data \in Nat /\ position \in 0 .. data
  BY DEF Sdat!CopyBlock, SdatInv
<1>2. PICK R : R = Sdat!RangesOf("new") /\ Transferred(R)
  BY <1>1 DEF SdatInv
<1>. DEFINE k == position + 1
            place == Sdat!Place(R, k)
            old == {b \in 0 .. image_blocks - 1 : output[b] # 0}
            new == {b \in 0 .. image_blocks - 1 : output'[b] # 0}
<1>3. /\ output' = [output EXCEPT ![place] = k]
      /\ position' = k /\ pc' = "copying"
  BY <1>1, <1>2 DEF Sdat!CopyBlock
<1>4. /\ Sdat!Blocks(R) = data /\ k \in 1 .. data /\ k \in Nat \ {0} /\ place \in 0 .. image_blocks - 1
      /\ \A l \in 1 .. position : l \in 1 .. data /\ l # k
      /\ \A l \in 1 .. data : Sdat!Place(R, l) = place => l = k
  <2>1. Sdat!Blocks(R) = data /\ image_blocks \in Nat /\ R \in Seq(Spans(image_blocks)) /\ Apart(R)
    BY <1>1, <1>2, SdatRanges
  <2>2. k \in 1 .. data /\ k \in Nat \ {0} /\ \A l \in 1 .. position : l \in 1 .. data /\ l # k
    BY <1>1
  <2>. HIDE DEF k
  <2>. QED  BY <2>1, <2>2, PlacesApart
<1>5. /\ output \in [0 .. image_blocks - 1 -> Nat]
      /\ \A l \in 1 .. position : output[Sdat!Place(R, l)] = l
      /\ \A b \in 0 .. image_blocks - 1 :
           output[b] # 0 => output[b] \in 1 .. position /\ Sdat!Place(R, output[b]) = b
      /\ IsFiniteSet(old) /\ Cardinality(old) = position
  BY <1>2 DEF Transferred
<1>6. \A l \in 1 .. k : l \in 1 .. position \/ l = k
  BY <1>1
<1>7. 1 .. position \subseteq 1 .. k /\ k \in 1 .. k
  BY <1>1
<1>. HIDE DEF k, place
<1>8. output[place] = 0
  BY <1>4, <1>5
<1>9. /\ output' \in [0 .. image_blocks - 1 -> Nat] /\ output'[place] = k
      /\ \A b \in 0 .. image_blocks - 1 : b # place => output'[b] = output[b]
  BY <1>3, <1>4, <1>5
<1>10. new = old \cup {place} /\ place \notin old
  BY <1>4, <1>8, <1>9
<1>. HIDE DEF old, new
<1>11. IsFiniteSet(new) /\ Cardinality(new) = k
  BY <1>5, <1>10, FS_AddElement DEF k
<1>12. \A l \in 1 .. k : output'[Sdat!Place(R, l)] = l
  <2>. SUFFICES ASSUME NEW l \in 1 .. k PROVE output'[Sdat!Place(R, l)] = l
    OBVIOUS
  <2>1. CASE l = k
    BY <1>9, <2>1 DEF place
  <2>2. CASE l # k
    <3>1. l \in 1 .. position /\ l \in 1 .. data /\ Sdat!Place(R, l) # place
      BY <1>4, <1>6, <2>2
    <3>2. Sdat!Place(R, l) \in 0 .. image_blocks - 1
      <4>1. image_blocks \in Nat /\ R \in Seq(Spans(image_blocks)) /\ Apart(R)
        BY <1>1, <1>2, SdatRanges
      <4>. QED  BY <1>4, <3>1, <4>1, PlacesApart
    <3>. QED  BY <1>5, <1>9, <3>1, <3>2
  <2>. QED  BY <2>1, <2>2
<1>13. \A b \in 0 .. image_blocks - 1 :
          output'[b] # 0 => output'[b] \in 1 .. k /\ Sdat!Place(R, output'[b]) = b
  <2>. SUFFICES ASSUME NEW b \in 0 .. image_blocks - 1, output'[b] # 0
                PROVE  output'[b] \in 1 .. k /\ Sdat!Place(R, output'[b]) = b
    OBVIOUS
  <2>1. CASE b = place
    BY <1>7, <1>9, <2>1 DEF place
  <2>2. CASE b # place
    BY <1>5, <1>7, <1>9, <2>2
  <2>. QED  BY <2>1, <2>2
<1>14. Transferred(R)'
  <2>1. image_blocks' = image_blocks
    BY <1>1 DEF Sdat!plan
  <2>2. position' = k
    BY <1>3
  <2>3. \A l \in 1 .. k : (output'[Sdat!Place(R, l)] = l)
    BY <1>12
  <2>4. \A b : Sdat!Place(R, b)' = Sdat!Place(R, b)
    BY DEF Sdat!Place
  <2>. QED  BY <1>9, <1>11, <1>12, <1>13, <2>1, <2>2, <2>4 DEF Transferred, new
<1>15. R = Sdat!RangesOf("new")' /\ position' \in 0 .. data'
  BY <1>1, <1>2, <1>3, <1>4, SdatPlan DEF k
<1>. QED  BY <1>1, <1>3, <1>14, <1>15, SdatPlan DEF SdatInv, Sdat!plan

LEMMA SdatStep == ASSUME Sdat!SdatAssumption, SdatInv, Sdat!Next PROVE SdatInv'
<1>1. \A size \in 0 .. MaxBlock + 1 : size \in Nat
  OBVIOUS
<1>. QED  BY <1>1, SdatParse, SdatEnds, SdatOpen, SdatCopy DEF Sdat!Next

LEMMA SdatDone ==
  ASSUME Sdat!SdatAssumption, SdatInv, pc = "done"
  PROVE  /\ \A b \in DOMAIN output : output[b] # 0 <=> b \in Sdat!Covered("new")
         /\ \A b \in Sdat!Covered("zero") : output[b] = 0
         /\ \A i \in DOMAIN Sdat!RangesOf("new") :
              LET r == Sdat!RangesOf("new")[i]
              IN  \A b \in r[1] .. r[2] - 2 : output[b + 1] = output[b] + 1
<1>1. PICK R, Z : /\ R = Sdat!RangesOf("new") /\ Z = Sdat!RangesOf("zero") /\ Transferred(R)
                  /\ position = data /\ data = Sdat!Wanted
  BY DEF SdatInv
<1>2. /\ image_blocks \in Nat /\ R \in Seq(Spans(image_blocks)) /\ Z \in Seq(Spans(image_blocks))
      /\ Apart(R) /\ position = Sdat!Blocks(R)
      /\ \A i \in 1 .. Len(R), j \in 1 .. Len(Z) :
               R[i][2] <= Z[j][1] \/ Z[j][2] <= R[i][1]
  BY <1>1, SdatRanges
<1>3. /\ Len(R) \in Nat /\ DOMAIN R = 1 .. Len(R) /\ Len(Z) \in Nat /\ DOMAIN Z = 1 .. Len(Z)
      /\ \A i \in 1 .. Len(R) : R[i][1] \in Nat /\ R[i][2] \in Nat /\ R[i][2] <= image_blocks
                              /\ Before(R, i) \in Nat
      /\ \A j \in 1 .. Len(Z) : Z[j][1] \in Nat /\ Z[j][2] \in Nat /\ Z[j][2] <= image_blocks
  BY <1>2, Starts
<1>4. /\ Sdat!Covered("new") = UNION {R[i][1] .. R[i][2] - 1 : i \in 1 .. Len(R)}
      /\ Sdat!Covered("zero") = UNION {Z[i][1] .. Z[i][2] - 1 : i \in 1 .. Len(Z)}
  BY <1>1, <1>3 DEF Sdat!Covered
<1>5. /\ output \in [0 .. image_blocks - 1 -> Nat]
      /\ \A l \in 1 .. position : output[Sdat!Place(R, l)] = l
      /\ \A b \in 0 .. image_blocks - 1 :
           output[b] # 0 => output[b] \in 1 .. position /\ Sdat!Place(R, output[b]) = b
  BY <1>1 DEF Transferred
<1>6. \A k \in 1 .. position : \E i \in 1 .. Len(R) : Sdat!Place(R, k) \in R[i][1] .. R[i][2] - 1
  BY <1>2, PlacesApart
\* The block of a range holds the block of new.dat that is meant for it.
<1>7. ASSUME NEW i \in 1 .. Len(R), NEW b \in R[i][1] .. R[i][2] - 1
      PROVE  output[b] = Before(R, i) + (b - R[i][1]) + 1 /\ output[b] \in 1 .. position
  <2>. DEFINE k == Before(R, i) + (b - R[i][1]) + 1
  <2>1. k \in 1 .. Sdat!Blocks(R) /\ Sdat!Place(R, k) = b
    BY <1>2, PlacesApart
  <2>. HIDE DEF k
  <2>2. output[b] = k /\ k \in 1 .. position
    BY <1>2, <1>5, <2>1
  <2>. QED  BY <2>2 DEF k
<1>8. ASSUME NEW b \in 0 .. image_blocks - 1, output[b] # 0
      PROVE  \E i \in 1 .. Len(R) : b \in R[i][1] .. R[i][2] - 1
  BY <1>5, <1>6, <1>8
<1>9. \A b \in DOMAIN output : output[b] # 0 <=> b \in Sdat!Covered("new")
  <2>1. DOMAIN output = 0 .. image_blocks - 1 /\ 0 \notin 1 .. position
    BY <1>5
  <2>. QED  BY <1>4, <1>7, <1>8, <2>1
<1>10. ASSUME NEW b \in Sdat!Covered("zero") PROVE output[b] = 0
  <2>1. PICK j \in 1 .. Len(Z) : b \in Z[j][1] .. Z[j][2] - 1
    BY <1>4
  <2>2. b \in 0 .. image_blocks - 1
    BY <1>2, <1>3, <2>1
  <2>. SUFFICES ASSUME output[b] # 0 PROVE FALSE
    OBVIOUS
  <2>3. PICK i \in 1 .. Len(R) : b \in R[i][1] .. R[i][2] - 1
    BY <1>8, <2>2
  <2>4. ~(R[i][2] <= Z[j][1]) /\ ~(Z[j][2] <= R[i][1])
    BY <1>3, <2>1, <2>3, Overlap, Zenon
  <2>. QED  BY <1>2, <2>4, Zenon
<1>11. ASSUME NEW i \in 1 .. Len(R), NEW b \in R[i][1] .. R[i][2] - 2
       PROVE  output[b + 1] = output[b] + 1
  <2>1. b \in R[i][1] .. R[i][2] - 1 /\ b + 1 \in R[i][1] .. R[i][2] - 1
    BY <1>3
  <2>2. PICK d \in Int : d = b + 1 /\ d \in R[i][1] .. R[i][2] - 1
    BY <2>1
  <2>3. /\ output[b] = Before(R, i) + (b - R[i][1]) + 1
        /\ output[d] = Before(R, i) + (d - R[i][1]) + 1
    BY <1>7, <2>1, <2>2
  <2>4. PICK c \in Nat, a \in Nat : c = Before(R, i) /\ a = R[i][1]
    BY <1>3
  <2>5. c + (d - a) + 1 = c + (b - a) + 1 + 1
    <3>1. b \in Int
      OBVIOUS
    <3>2. \A x \in Int, y \in Int : x = y + 1 => c + (x - a) + 1 = c + (y - a) + 1 + 1
      OBVIOUS
    <3>. QED  BY <2>2, <3>1, <3>2, Zenon
  <2>. QED  BY <2>2, <2>3, <2>4, <2>5
<1>. QED  BY <1>1, <1>3, <1>9, <1>10, <1>11

LEMMA SdatProperties ==
  ASSUME Sdat!SdatAssumption, SdatInv PROVE Sdat!TypeOK /\ Sdat!ImageIsTransferred
<1>1. Sdat!TypeOK
  <2>1. \A i \in DOMAIN commands : commands[i].operation \in Sdat!Operations
    <3>1. commands \in Seq(Commands(image_blocks))
      BY DEF SdatInv
    <3>2. \A i \in DOMAIN commands : commands[i] \in Commands(image_blocks)
      BY <3>1, ElementOfSeq, LenProperties
    <3>. QED  BY <3>2 DEF Commands
  <2>2. pc \in {"copying", "done"} => DOMAIN output = 0 .. image_blocks - 1
    BY DEF SdatInv, Transferred
  <2>. QED  BY <2>1, <2>2 DEF SdatInv, Sdat!TypeOK
<1>2. pc = "copying" => Sdat!Cardinality({b \in DOMAIN output : output[b] # 0}) = position
  <2>. SUFFICES ASSUME pc = "copying"
                PROVE  Sdat!Cardinality({b \in DOMAIN output : output[b] # 0}) = position
    OBVIOUS
  <2>1. PICK R : Transferred(R)
    BY DEF SdatInv
  <2>2. DOMAIN output = 0 .. image_blocks - 1
    BY <2>1 DEF Transferred
  <2>. QED  BY <2>1, <2>2, SdatLibrary DEF Transferred
<1>3. pc # "short"
  BY DEF SdatInv
<1>. QED  BY <1>1, <1>2, <1>3, SdatDone DEF Sdat!ImageIsTransferred, Sdat!Zero

-----------------------------------------------------------------------------
(* The sparse images *)

\* Of the module, and of the library the lemmas are about.
LEMMA SparseLibrary ==
  /\ \A q : Sparse!FlattenSeq(q) = FlattenSeq(q)
  /\ \A f, S : Sparse!SumFunctionOnSet(f, S) = SumFunctionOnSet(f, S)
  /\ \A S : Sparse!Cardinality(S) = Cardinality(S)
<1>1. \A q : Sparse!FlattenSeq(q) = FlattenSeq(q)
  BY DEF Sparse!FlattenSeq, FlattenSeq
<1>2. \A f, S : Sparse!SumFunctionOnSet(f, S) = SumFunctionOnSet(f, S)
  BY DEF Sparse!SumFunctionOnSet, SumFunctionOnSet, Sparse!FoldFunctionOnSet, FoldFunctionOnSet,
         Sparse!MapThenFoldSet, MapThenFoldSet
<1>3. \A S : Sparse!Cardinality(S) = Cardinality(S)
  BY DEF Sparse!Cardinality, Cardinality
<1>. QED  BY <1>1, <1>2, <1>3

\* The j-th byte of a mapped chunk.
Byte(c, j) ==
  CASE c.kind = "raw" -> Sparse!Input(c.input_offset + j - 1)
    [] c.kind = "fill" -> c.fill[((j - 1) % 4) + 1]
    [] OTHER -> 0

MappedChunks ==
  [kind : {"raw", "fill", "dont_care"}, output_start : Nat, output_size : Nat \ {0},
   input_offset : Nat, fill : {Sparse!ZeroFill, Sparse!Pattern}]

\* The first k bytes X of the image are described by the chunks cs, which cover
\* them from the start and without a gap, and have their bytes.
Described(X, cs, k) ==
  /\ X \in Seq(Nat) /\ Len(X) = k
  /\ \A i \in 1 .. Len(cs) :
       /\ cs[i].output_start =
            IF i = 1 THEN 0 ELSE cs[i - 1].output_start + cs[i - 1].output_size
       /\ cs[i].output_start + cs[i].output_size <= k
       /\ \A j \in 1 .. cs[i].output_size : X[cs[i].output_start + j] = Byte(cs[i], j)
  /\ k = IF Len(cs) = 0 THEN 0
         ELSE cs[Len(cs)].output_start + cs[Len(cs)].output_size

SparseInv ==
  /\ header \in [blocks : 1 .. MaxBlocks, chunks : 1 .. MaxChunks,
                 size : 1 .. MaxChunks * (HeaderSize + MaxBlocks * BlockSize)]
  /\ pc \in {"parsing", "open", "refused"}
  /\ read \in Seq(Sparse!ChunkHeaders) /\ \A i \in 1 .. Len(read) : Sparse!Describes(read[i])
  /\ Len(read) <= header.chunks
  /\ chunks \in Seq(MappedChunks) /\ Len(chunks) <= Len(read)
  /\ tell \in Nat /\ tell <= header.size
  /\ tell = Len(read) * HeaderSize + SumFunctionOnSet(Sparse!Payloads, 1 .. Len(read))
  /\ output_cursor \in Nat /\ output_cursor <= Len(read) * (MaxBlocks * BlockSize)
  /\ \E X : X = Sparse!Expanded /\ Described(X, chunks, output_cursor)
  /\ pc = "open" => output_cursor = Sparse!ImageSize /\ tell = header.size

LEMMA SparseInitial == ASSUME Sparse!SparseAssumption, Sparse!Init PROVE SparseInv
<1>. USE DEF Sparse!Init, Sparse!SparseAssumption
<1>1. Sparse!Expanded = <<>>
  <2>1. [i \in DOMAIN read |-> Sparse!ChunkBytes(i)] = <<>>
    OBVIOUS
  <2>. QED  BY <2>1, SparseLibrary, FlattenNothing DEF Sparse!Expanded
<1>2. Described(<<>>, chunks, output_cursor)
  BY DEF Described
<1>3. SumFunctionOnSet(Sparse!Payloads, 1 .. Len(read)) = 0
  <2>1. 1 .. Len(read) = {}
    OBVIOUS
  <2>. QED  BY <2>1, SumOfNothing
<1>4. 0 * HeaderSize = 0 /\ 0 * (MaxBlocks * BlockSize) = 0
  OBVIOUS
<1>. QED  BY <1>1, <1>2, <1>3, <1>4 DEF SparseInv

LEMMA SparseHeader ==
  ASSUME Sparse!SparseAssumption, NEW c \in Sparse!ChunkHeaders, Sparse!Describes(c)
  PROVE  /\ c.kind \in {"raw", "fill", "dont_care", "crc32"}
         /\ c.blocks \in 0 .. MaxBlocks /\ c.payload \in Nat
         /\ c.fill \in {Sparse!ZeroFill, Sparse!Pattern}
         /\ c.blocks * BlockSize \in Nat /\ c.blocks * BlockSize <= MaxBlocks * BlockSize
         /\ c.kind = "crc32" => c.blocks * BlockSize = 0
         /\ c.kind # "crc32" => c.blocks * BlockSize # 0
<1>. USE DEF Sparse!SparseAssumption
<1>1. c.kind \in {"raw", "fill", "dont_care", "crc32"} /\ c.blocks \in 0 .. MaxBlocks
      /\ c.payload \in {0, 4} \cup {n * BlockSize : n \in 1 .. MaxBlocks}
      /\ c.fill \in {Sparse!ZeroFill, Sparse!Pattern}
  BY DEF Sparse!ChunkHeaders
<1>2. c.payload \in Nat
  <2>1. \A n \in 1 .. MaxBlocks : n * BlockSize \in Nat
    OBVIOUS
  <2>. QED  BY <1>1, <2>1
<1>3. c.blocks * BlockSize \in Nat /\ c.blocks * BlockSize <= MaxBlocks * BlockSize
  BY <1>1, ProductGrows
<1>4. c.kind = "crc32" => c.blocks * BlockSize = 0
  BY DEF Sparse!Describes
<1>5. c.kind # "crc32" => c.blocks * BlockSize # 0
  BY <1>1 DEF Sparse!Describes
<1>. QED  BY <1>1, <1>2, <1>3, <1>4, <1>5

LEMMA AppendedSums ==
  ASSUME NEW n \in Nat, NEW f, NEW g,
         \A i \in 1 .. n + 1 : g[i] \in Nat, \A i \in 1 .. n : f[i] = g[i]
  PROVE  /\ \A k \in 0 .. n : /\ SumFunctionOnSet(g, 1 .. k) = SumFunctionOnSet(f, 1 .. k)
                              /\ SumFunctionOnSet(f, 1 .. k) \in Nat
         /\ SumFunctionOnSet(g, 1 .. n + 1) = g[n + 1] + SumFunctionOnSet(f, 1 .. n)
<1>1. ASSUME NEW k \in 0 .. n
      PROVE  /\ SumFunctionOnSet(g, 1 .. k) = SumFunctionOnSet(f, 1 .. k)
             /\ SumFunctionOnSet(f, 1 .. k) \in Nat
  <2>1. IsFiniteSet(1 .. k)
    BY FS_Interval
  <2>2. \A x \in 1 .. k : f[x] \in Nat /\ g[x] = f[x]
    OBVIOUS
  <2>. QED  BY <2>1, <2>2, SumSame, SumRemove
<1>2. SumFunctionOnSet(g, 1 .. n + 1) = g[n + 1] + SumFunctionOnSet(g, 1 .. n)
  <2>1. IsFiniteSet(1 .. n + 1) /\ n + 1 \in 1 .. n + 1 /\ (1 .. n + 1) \ {n + 1} = 1 .. n
    BY FS_Interval
  <2>2. SumFunctionOnSet(g, 1 .. n + 1) = g[n + 1] + SumFunctionOnSet(g, (1 .. n + 1) \ {n + 1})
    BY <2>1, SumRemove
  <2>. QED  BY <2>1, <2>2
<1>3. n \in 0 .. n
  OBVIOUS
<1>. QED  BY <1>1, <1>2, <1>3

LEMMA DescribedMore ==
  ASSUME NEW X, NEW cs \in Seq(MappedChunks), NEW k \in Nat, Described(X, cs, k),
         NEW m \in MappedChunks, m.output_start = k,
         NEW Y \in Seq(Nat), Len(Y) = m.output_size,
         \A j \in 1 .. Len(Y) : Y[j] = Byte(m, j)
  PROVE  Described(X \o Y, Append(cs, m), k + m.output_size)
<1>. DEFINE ds == Append(cs, m)
            n == Len(cs)
            Z == X \o Y
<1>1. /\ ds \in Seq(MappedChunks) /\ Len(ds) = n + 1 /\ n \in Nat
      /\ \A i \in 1 .. n : ds[i] = cs[i]
      /\ ds[n + 1] = m
  BY AppendProperties, LenProperties
<1>2. m.output_size \in Nat /\ \A i \in 1 .. n : cs[i].output_start \in Nat /\ cs[i].output_size \in Nat
  <2>1. \A i \in 1 .. n : cs[i] \in MappedChunks
    BY ElementOfSeq
  <2>. QED  BY <2>1 DEF MappedChunks
<1>3. /\ Z \in Seq(Nat) /\ Len(Z) = k + m.output_size
      /\ \A j \in 1 .. k : Z[j] = X[j]
      /\ \A j \in 1 .. m.output_size : Z[k + j] = Y[j]
  <2>1. X \in Seq(Nat) /\ Len(X) = k
    BY DEF Described
  <2>2. Z \in Seq(Nat) /\ Len(Z) = Len(X) + Len(Y)
        /\ \A j \in 1 .. Len(X) + Len(Y) : Z[j] = IF j <= Len(X) THEN X[j] ELSE Y[j - Len(X)]
    BY <2>1, ConcatProperties
  <2>3. \A j \in 1 .. m.output_size : k + j \in 1 .. k + m.output_size /\ ~(k + j <= k) /\ (k + j) - k = j
    BY <1>2
  <2>4. \A j \in 1 .. k : j \in 1 .. k + m.output_size
    BY <1>2
  <2>. QED  BY <2>1, <2>2, <2>3, <2>4
<1>. HIDE DEF ds, Z
<1>4. ASSUME NEW i \in 1 .. n + 1
      PROVE  /\ ds[i].output_start =
                  IF i = 1 THEN 0 ELSE ds[i - 1].output_start + ds[i - 1].output_size
             /\ ds[i].output_start + ds[i].output_size <= k + m.output_size
             /\ \A j \in 1 .. ds[i].output_size : Z[ds[i].output_start + j] = Byte(ds[i], j)
  <2>1. CASE i = n + 1
    <3>1. k = IF n = 0 THEN 0 ELSE cs[n].output_start + cs[n].output_size
      BY DEF Described
    <3>2. n # 0 => n \in 1 .. n /\ ds[n] = cs[n] /\ i - 1 = n /\ i # 1
      BY <1>1, <2>1
    <3>3. n = 0 => i = 1
      BY <2>1
    <3>4. ds[i] = m
      BY <1>1, <2>1
    <3>5. n # 0 => ds[i - 1] = cs[n]
      BY <3>2
    <3>6. m.output_start = IF i = 1 THEN 0 ELSE ds[i - 1].output_start + ds[i - 1].output_size
      BY <3>1, <3>2, <3>3, <3>5
    <3>7. m.output_start + m.output_size <= k + m.output_size
      BY <1>2
    <3>. QED  BY <1>3, <3>4, <3>6, <3>7
  <2>2. CASE i # n + 1
    <3>1. i \in 1 .. n /\ ds[i] = cs[i] /\ (i # 1 => i - 1 \in 1 .. n /\ ds[i - 1] = cs[i - 1])
      BY <1>1, <2>2
    <3>2. /\ cs[i].output_start = IF i = 1 THEN 0 ELSE cs[i - 1].output_start + cs[i - 1].output_size
          /\ cs[i].output_start + cs[i].output_size <= k
          /\ \A j \in 1 .. cs[i].output_size : X[cs[i].output_start + j] = Byte(cs[i], j)
      BY <3>1 DEF Described
    <3>3. cs[i].output_start + cs[i].output_size <= k + m.output_size
      BY <1>2, <3>1, <3>2
    <3>4. \A j \in 1 .. cs[i].output_size : cs[i].output_start + j \in 1 .. k
      BY <1>2, <3>1, <3>2
    <3>. QED  BY <1>3, <3>1, <3>2, <3>3, <3>4
  <2>. QED  BY <2>1, <2>2
<1>5. k + m.output_size = IF Len(ds) = 0 THEN 0
                          ELSE ds[Len(ds)].output_start + ds[Len(ds)].output_size
  BY <1>1
<1>. QED  BY <1>1, <1>3, <1>4, <1>5 DEF Described, ds, Z

\* The bytes of a chunk with its payload at an offset of the file.
Bytes(c, p) ==
  LET size == c.blocks * BlockSize
  IN  CASE c.kind = "raw"  -> [j \in 1 .. size |-> Sparse!Input(p + j - 1)]
        [] c.kind = "fill" -> [j \in 1 .. size |-> c.fill[((j - 1) % 4) + 1]]
        [] OTHER           -> [j \in 1 .. size |-> 0]

LEMMA BytesTyped ==
  ASSUME Sparse!SparseAssumption, NEW c \in Sparse!ChunkHeaders, Sparse!Describes(c), NEW p \in Nat
  PROVE  /\ Bytes(c, p) \in Seq(Nat) /\ Len(Bytes(c, p)) = c.blocks * BlockSize
         /\ \A m : m.kind = c.kind /\ m.fill = c.fill /\ m.input_offset = p =>
              \A j \in 1 .. c.blocks * BlockSize : Bytes(c, p)[j] = Byte(m, j)
<1>1. PICK size \in Nat : size = c.blocks * BlockSize
  BY SparseHeader
<1>2. c.kind \in {"raw", "fill", "dont_care", "crc32"} /\ c.fill \in {Sparse!ZeroFill, Sparse!Pattern}
  BY SparseHeader
<1>3. \A j \in 1 .. size : c.fill[((j - 1) % 4) + 1] \in Nat
  <2>1. c.fill \in [1 .. 4 -> Nat]
    BY <1>2 DEF Sparse!ZeroFill, Sparse!Pattern
  <2>2. \A j \in 1 .. size : ((j - 1) % 4) + 1 \in 1 .. 4
    OBVIOUS
  <2>. QED  BY <2>1, <2>2
<1>4. \A j \in 1 .. size : p + j - 1 \in Nat /\ Sparse!Input(p + j - 1) \in Nat
  BY DEF Sparse!Input
<1>5. CASE c.kind = "raw"
  <2>1. Bytes(c, p) = [j \in 1 .. size |-> Sparse!Input(p + j - 1)]
    BY <1>1, <1>5 DEF Bytes
  <2>2. \A m : m.kind = c.kind /\ m.input_offset = p =>
          \A j \in 1 .. size : Byte(m, j) = Sparse!Input(p + j - 1)
    BY <1>5 DEF Byte
  <2>. DEFINE g(j) == Sparse!Input(p + j - 1)
  <2>. HIDE DEF g
  <2>3. Bytes(c, p) = [j \in 1 .. size |-> g(j)] /\ \A j \in 1 .. size : g(j) \in Nat
    BY <1>4, <2>1 DEF g
  <2>4. Bytes(c, p) \in Seq(Nat) /\ Len(Bytes(c, p)) = size
        /\ \A j \in 1 .. size : Bytes(c, p)[j] = g(j)
    BY <2>3
  <2>. QED  BY <1>1, <2>2, <2>4 DEF g
<1>6. CASE c.kind = "fill"
  <2>1. Bytes(c, p) = [j \in 1 .. size |-> c.fill[((j - 1) % 4) + 1]]
    BY <1>1, <1>6 DEF Bytes
  <2>2. \A m : m.kind = c.kind /\ m.fill = c.fill =>
          \A j \in 1 .. size : Byte(m, j) = c.fill[((j - 1) % 4) + 1]
    BY <1>6 DEF Byte
  <2>. DEFINE g(j) == c.fill[((j - 1) % 4) + 1]
  <2>. HIDE DEF g
  <2>3. Bytes(c, p) = [j \in 1 .. size |-> g(j)] /\ \A j \in 1 .. size : g(j) \in Nat
    BY <1>3, <2>1 DEF g
  <2>4. Bytes(c, p) \in Seq(Nat) /\ Len(Bytes(c, p)) = size
        /\ \A j \in 1 .. size : Bytes(c, p)[j] = g(j)
    BY <2>3
  <2>. QED  BY <1>1, <2>2, <2>4 DEF g
<1>7. CASE c.kind \in {"dont_care", "crc32"}
  <2>1. Bytes(c, p) = [j \in 1 .. size |-> 0]
    BY <1>1, <1>7 DEF Bytes
  <2>2. \A m : m.kind = c.kind => \A j \in 1 .. size : Byte(m, j) = 0
    BY <1>7 DEF Byte
  <2>. QED  BY <1>1, <2>1, <2>2
<1>. QED  BY <1>2, <1>5, <1>6, <1>7

\* What one more chunk header does to what the format says.
LEMMA SparseAppends ==
  ASSUME Sparse!SparseAssumption, SparseInv, NEW c \in Sparse!ChunkHeaders, Sparse!Describes(c),
         read' = Append(read, c)
  PROVE  /\ read' \in Seq(Sparse!ChunkHeaders) /\ Len(read') = Len(read) + 1
         /\ \A i \in 1 .. Len(read') : Sparse!Describes(read'[i])
         /\ SumFunctionOnSet(Sparse!Payloads', 1 .. Len(read')) =
              c.payload + SumFunctionOnSet(Sparse!Payloads, 1 .. Len(read))
         /\ Sparse!Expanded' = Sparse!Expanded \o Bytes(c, tell + HeaderSize)
<1>. DEFINE n == Len(read)
            P == Sparse!Payloads
            Q == Sparse!Payloads'
<1>1. /\ read \in Seq(Sparse!ChunkHeaders) /\ n \in Nat /\ HeaderSize \in Nat /\ tell \in Nat
      /\ \A i \in 1 .. n : Sparse!Describes(read[i])
      /\ tell = n * HeaderSize + SumFunctionOnSet(P, 1 .. n)
  BY SparseLibrary DEF SparseInv, Sparse!SparseAssumption
<1>2. /\ read' \in Seq(Sparse!ChunkHeaders) /\ Len(read') = n + 1
      /\ \A i \in 1 .. n : read'[i] = read[i]
      /\ read'[n + 1] = c
      /\ DOMAIN read = 1 .. n /\ DOMAIN read' = 1 .. n + 1
  BY <1>1, AppendProperties, LenProperties
<1>3. \A i \in 1 .. n + 1 : read'[i] \in Sparse!ChunkHeaders /\ Sparse!Describes(read'[i])
  BY <1>1, <1>2, ElementOfSeq
<1>4. /\ \A i \in 1 .. n : P[i] = read[i].payload
      /\ \A i \in 1 .. n + 1 : Q[i] = read'[i].payload
  BY <1>2 DEF Sparse!Payloads
<1>5. \A i \in 1 .. n + 1 : Q[i] \in Nat
  BY <1>3, <1>4, SparseHeader
<1>. HIDE DEF n, P, Q
<1>6. /\ \A k \in 0 .. n : /\ SumFunctionOnSet(Q, 1 .. k) = SumFunctionOnSet(P, 1 .. k)
                           /\ SumFunctionOnSet(P, 1 .. k) \in Nat
      /\ SumFunctionOnSet(Q, 1 .. n + 1) = Q[n + 1] + SumFunctionOnSet(P, 1 .. n)
  <2>1. \A i \in 1 .. n : P[i] = Q[i]
    BY <1>2, <1>4, <1>1
  <2>. QED  BY <1>1, <1>5, <2>1, AppendedSums
<1>7. /\ \A i \in 1 .. n : i - 1 \in 0 .. n
      /\ n \in 0 .. n /\ (n + 1) - 1 = n /\ (n + 1) * HeaderSize = n * HeaderSize + HeaderSize
  BY <1>1
<1>. DEFINE At(f, i) == i * HeaderSize + SumFunctionOnSet(f, 1 .. (i - 1))
<1>8. /\ \A i \in 1 .. n : At(Q, i) = At(P, i) /\ At(P, i) \in Nat
      /\ At(Q, n + 1) = tell + HeaderSize
  <2>1. \A i \in 1 .. n : At(Q, i) = At(P, i)
    BY <1>6, <1>7
  <2>2. \A i \in 1 .. n : At(P, i) \in Nat
    <3>. SUFFICES ASSUME NEW i \in 1 .. n PROVE At(P, i) \in Nat
      OBVIOUS
    <3>1. i * HeaderSize \in Nat /\ SumFunctionOnSet(P, 1 .. (i - 1)) \in Nat
      BY <1>1, <1>6, <1>7
    <3>. QED  BY <3>1
  <2>3. At(Q, n + 1) = tell + HeaderSize
    <3>1. At(Q, n + 1) = (n * HeaderSize + HeaderSize) + SumFunctionOnSet(P, 1 .. n)
      BY <1>6, <1>7
    <3>2. n * HeaderSize \in Nat /\ SumFunctionOnSet(P, 1 .. n) \in Nat
      BY <1>1, <1>6, <1>7
    <3>. QED  BY <1>1, <3>1, <3>2
  <2>. QED  BY <2>1, <2>2, <2>3
<1>. HIDE DEF At
<1>9. /\ \A i \in 1 .. n : Sparse!ChunkBytes(i) = Bytes(read[i], At(P, i))
      /\ \A i \in 1 .. n + 1 : Sparse!ChunkBytes(i)' = Bytes(read'[i], At(Q, i))
  BY SparseLibrary DEF Sparse!ChunkBytes, Sparse!PayloadAt, Bytes, At, P, Q, Sparse!Zeros, Sparse!Zero
<1>. DEFINE m == [i \in 1 .. n + 1 |-> Bytes(read'[i], At(Q, i))]
<1>10. \A i \in 1 .. n + 1 : m[i] \in Seq(Nat)
  <2>1. \A i \in 1 .. n + 1 : At(Q, i) \in Nat
    <3>1. \A i \in 1 .. n + 1 : i \in 1 .. n \/ i = n + 1
      BY <1>1
    <3>2. \A i \in 1 .. n : At(Q, i) \in Nat
      BY <1>8, Zenon
    <3>3. At(Q, n + 1) \in Nat
      BY <1>1, <1>8
    <3>. QED  BY <3>1, <3>2, <3>3, Zenon
  <2>. QED  BY <1>3, <2>1, BytesTyped
<1>11. /\ Sparse!Expanded' = FlattenSeq([i \in 1 .. n + 1 |-> m[i]])
       /\ Sparse!Expanded = FlattenSeq([i \in 1 .. n |-> m[i]])
  <2>1. [i \in DOMAIN read' |-> Sparse!ChunkBytes(i)'] = [i \in 1 .. n + 1 |-> m[i]]
    BY <1>2, <1>9
  <2>2. [i \in DOMAIN read |-> Sparse!ChunkBytes(i)] = [i \in 1 .. n |-> m[i]]
    <3>1. \A i \in 1 .. n : Sparse!ChunkBytes(i) = m[i]
      BY <1>1, <1>2, <1>8, <1>9
    <3>. QED  BY <1>2, <3>1
  <2>. QED  BY <2>1, <2>2, SparseLibrary DEF Sparse!Expanded
<1>12. m[n + 1] = Bytes(c, tell + HeaderSize)
  BY <1>1, <1>2, <1>8
<1>. HIDE DEF m
<1>13. Sparse!Expanded' = Sparse!Expanded \o Bytes(c, tell + HeaderSize)
  BY <1>1, <1>10, <1>11, <1>12, FlattenNext
<1>14. Q[n + 1] = c.payload
  BY <1>1, <1>2, <1>4
<1>. QED  BY <1>2, <1>3, <1>6, <1>13, <1>14 DEF n, P, Q

\* A chunk that is skipped or mapped.
LEMMA SparseChunk ==
  ASSUME Sparse!SparseAssumption, SparseInv, NEW c \in Sparse!ChunkHeaders, Sparse!Describes(c),
         Sparse!MapChunk(c), NEW X, Described(X, chunks, output_cursor)
  PROVE  /\ chunks' \in Seq(MappedChunks) /\ Len(chunks') <= Len(read) + 1
         /\ output_cursor' = output_cursor + c.blocks * BlockSize
         /\ Described(X \o Bytes(c, tell + HeaderSize), chunks', output_cursor')
<1>. DEFINE Y == Bytes(c, tell + HeaderSize)
<1>1. /\ tell + HeaderSize \in Nat /\ output_cursor \in Nat /\ chunks \in Seq(MappedChunks)
      /\ Len(chunks) <= Len(read) /\ Len(chunks) \in Nat /\ Len(read) \in Nat
  BY DEF SparseInv, Sparse!SparseAssumption
<1>2. Y \in Seq(Nat) /\ Len(Y) = c.blocks * BlockSize
  BY <1>1, BytesTyped
<1>3. CASE c.kind = "crc32"
  <2>1. c.blocks * BlockSize = 0
    BY <1>3, SparseHeader
  <2>2. UNCHANGED <<chunks, output_cursor>>
    BY <1>3 DEF Sparse!MapChunk
  <2>3. Y = <<>> /\ X \o Y = X
    <3>1. Y = <<>>
      BY <1>2, <2>1, EmptySeq
    <3>. QED  BY <3>1, ConcatEmptySeq DEF Described
  <2>. HIDE DEF Y
  <2>4. Described(X \o Y, chunks', output_cursor')
    BY <2>2, <2>3
  <2>. QED  BY <1>1, <2>1, <2>2, <2>4 DEF Y
<1>4. CASE c.kind # "crc32"
  <2>. DEFINE m == Sparse!Mapped(c)
  <2>1. chunks' = Append(chunks, m) /\ output_cursor' = output_cursor + c.blocks * BlockSize
    BY <1>4 DEF Sparse!MapChunk
  <2>2. m = [kind |-> c.kind, output_start |-> output_cursor, output_size |-> c.blocks * BlockSize,
             input_offset |-> tell + HeaderSize, fill |-> c.fill]
    BY DEF Sparse!Mapped
  <2>. HIDE DEF m
  <2>3. /\ c.kind \in {"raw", "fill", "dont_care"} /\ c.fill \in {Sparse!ZeroFill, Sparse!Pattern}
        /\ c.blocks * BlockSize \in Nat \ {0}
    BY <1>4, SparseHeader
  <2>4. m \in MappedChunks
    BY <1>1, <2>2, <2>3 DEF MappedChunks
  <2>5. m.output_start = output_cursor /\ m.output_size = c.blocks * BlockSize
        /\ m.kind = c.kind /\ m.fill = c.fill /\ m.input_offset = tell + HeaderSize
    BY <2>2
  <2>6. \A j \in 1 .. c.blocks * BlockSize : Y[j] = Byte(m, j)
    BY <1>1, <2>5, BytesTyped
  <2>. HIDE DEF Y
  <2>7. Described(X \o Y, Append(chunks, m), output_cursor + m.output_size)
    BY <1>1, <1>2, <2>4, <2>5, <2>6, DescribedMore
  <2>8. Append(chunks, m) \in Seq(MappedChunks) /\ Len(Append(chunks, m)) = Len(chunks) + 1
    BY <1>1, <2>4, AppendProperties
  <2>. QED  BY <1>1, <2>1, <2>5, <2>7, <2>8 DEF Y
<1>. QED  BY <1>3, <1>4

LEMMA SparseRefuse ==
  ASSUME SparseInv, UNCHANGED <<header, read, tell, output_cursor, chunks>>,
         pc' \in {"parsing", "refused"}
  PROVE  SparseInv'
<1>1. Sparse!Expanded' = Sparse!Expanded /\ Sparse!Payloads' = Sparse!Payloads
  BY DEF Sparse!Expanded, Sparse!ChunkBytes, Sparse!PayloadAt, Sparse!Payloads
<1>2. PICK X : X = Sparse!Expanded /\ Described(X, chunks, output_cursor)
  BY DEF SparseInv
<1>3. X = Sparse!Expanded' /\ Described(X, chunks', output_cursor')
  BY <1>1, <1>2
<1>. QED  BY <1>1, <1>3 DEF SparseInv

LEMMA SparseParse ==
  ASSUME Sparse!SparseAssumption, SparseInv, NEW c \in Sparse!ChunkHeaders, Sparse!ParseChunk(c)
  PROVE  SparseInv'
<1>1. CASE ~(tell + HeaderSize + c.payload <= header.size /\ Sparse!Describes(c))
  BY <1>1, SparseRefuse DEF Sparse!ParseChunk, Sparse!Refuse
<1>2. CASE tell + HeaderSize + c.payload <= header.size /\ Sparse!Describes(c)
  <2>1. /\ pc = "parsing" /\ pc' = pc /\ header' = header /\ Len(read) < header.chunks
        /\ read' = Append(read, c) /\ Sparse!MapChunk(c)
        /\ tell' = tell + HeaderSize + c.payload
    BY <1>2 DEF Sparse!ParseChunk
  <2>2. /\ c.payload \in Nat /\ c.blocks * BlockSize \in Nat
        /\ c.blocks * BlockSize <= MaxBlocks * BlockSize
    BY <1>2, SparseHeader
  <2>3. /\ header.chunks \in Nat /\ HeaderSize \in Nat /\ tell \in Nat /\ Len(read) \in Nat
        /\ output_cursor \in Nat /\ output_cursor <= Len(read) * (MaxBlocks * BlockSize)
        /\ MaxBlocks * BlockSize \in Nat
    BY DEF SparseInv, Sparse!SparseAssumption
  <2>4. PICK X : X = Sparse!Expanded /\ Described(X, chunks, output_cursor)
    BY DEF SparseInv
  <2>5. /\ read' \in Seq(Sparse!ChunkHeaders) /\ Len(read') = Len(read) + 1
        /\ \A i \in 1 .. Len(read') : Sparse!Describes(read'[i])
        /\ SumFunctionOnSet(Sparse!Payloads', 1 .. Len(read')) =
             c.payload + SumFunctionOnSet(Sparse!Payloads, 1 .. Len(read))
        /\ Sparse!Expanded' = Sparse!Expanded \o Bytes(c, tell + HeaderSize)
    BY <1>2, <2>1, SparseAppends
  <2>6. /\ chunks' \in Seq(MappedChunks) /\ Len(chunks') <= Len(read')
        /\ output_cursor' = output_cursor + c.blocks * BlockSize
        /\ Described(X \o Bytes(c, tell + HeaderSize), chunks', output_cursor')
    BY <1>2, <2>1, <2>4, <2>5, SparseChunk
  <2>7. \E Z : Z = Sparse!Expanded' /\ Described(Z, chunks', output_cursor')
    BY <2>4, <2>5, <2>6
  <2>8. tell' = Len(read') * HeaderSize + SumFunctionOnSet(Sparse!Payloads', 1 .. Len(read'))
    <3>1. tell = Len(read) * HeaderSize + SumFunctionOnSet(Sparse!Payloads, 1 .. Len(read))
      BY DEF SparseInv
    <3>2. PICK s : s = SumFunctionOnSet(Sparse!Payloads, 1 .. Len(read))
      OBVIOUS
    <3>3. Len(read') * HeaderSize = Len(read) * HeaderSize + HeaderSize
          /\ Len(read) * HeaderSize \in Nat
      BY <2>3, <2>5
    <3>4. s \in Nat
      <4>1. \A i \in 1 .. Len(read) : Sparse!Payloads[i] \in Nat
        <5>1. /\ read \in Seq(Sparse!ChunkHeaders)
              /\ \A i \in 1 .. Len(read) : Sparse!Describes(read[i])
          BY DEF SparseInv
        <5>2. \A i \in 1 .. Len(read) : read[i].payload \in Nat
          BY <5>1, ElementOfSeq, SparseHeader
        <5>. QED  BY <5>1, <5>2 DEF Sparse!Payloads
      <4>2. IsFiniteSet(1 .. Len(read))
        BY <2>3, FS_Interval
      <4>. QED  BY <3>2, <4>1, <4>2, SumRemove
    <3>5. tell' = (Len(read) * HeaderSize + s) + HeaderSize + c.payload
      BY <2>1, <3>1, <3>2
    <3>6. Len(read') * HeaderSize + SumFunctionOnSet(Sparse!Payloads', 1 .. Len(read'))
            = (Len(read) * HeaderSize + HeaderSize) + (c.payload + s)
      BY <2>5, <3>2, <3>3
    <3>. QED  BY <2>2, <2>3, <3>3, <3>4, <3>5, <3>6
  <2>9. output_cursor' \in Nat /\ output_cursor' <= Len(read') * (MaxBlocks * BlockSize)
    <3>1. Len(read') * (MaxBlocks * BlockSize)
            = Len(read) * (MaxBlocks * BlockSize) + MaxBlocks * BlockSize
          /\ Len(read) * (MaxBlocks * BlockSize) \in Nat
      BY <2>3, <2>5, NextMultiple
    <3>2. PICK was, one, most, now :
            /\ was = Len(read) * (MaxBlocks * BlockSize) /\ one = c.blocks * BlockSize
            /\ most = MaxBlocks * BlockSize /\ now = Len(read') * (MaxBlocks * BlockSize)
      OBVIOUS
    <3>3. /\ output_cursor \in Nat /\ output_cursor' = output_cursor + one /\ output_cursor <= was
          /\ one \in Nat /\ one <= most /\ most \in Nat /\ was \in Nat /\ now = was + most
      BY <2>2, <2>3, <2>6, <3>1, <3>2, Zenon
    <3>4. output_cursor' \in Nat /\ output_cursor' <= now
      BY <3>3
    <3>. QED  BY <3>2, <3>4, Zenon
  <2>10. tell' \in Nat /\ tell' <= header'.size
    BY <1>2, <2>1, <2>2, <2>3
  <2>11. Len(read') <= header'.chunks /\ pc' = "parsing"
    BY <2>1, <2>3, <2>5
  <2>. QED  BY <2>1, <2>5, <2>6, <2>7, <2>8, <2>9, <2>10, <2>11 DEF SparseInv
<1>. QED  BY <1>1, <1>2

LEMMA SparseStep == ASSUME Sparse!SparseAssumption, SparseInv, Sparse!Next PROVE SparseInv'
<1>1. CASE Sparse!EndParse
  <2>1. UNCHANGED <<header, read, tell, output_cursor, chunks>> /\ pc' \in {"open", "refused"}
        /\ (pc' = "open" => output_cursor = header.blocks * BlockSize /\ tell = header.size)
    BY <1>1 DEF Sparse!EndParse
  <2>2. CASE pc' = "refused"
    BY <2>1, <2>2, SparseRefuse
  <2>3. CASE pc' = "open"
    <3>1. Sparse!Expanded' = Sparse!Expanded /\ Sparse!Payloads' = Sparse!Payloads
      BY <2>1 DEF Sparse!Expanded, Sparse!ChunkBytes, Sparse!PayloadAt, Sparse!Payloads
    <3>2. PICK X : X = Sparse!Expanded /\ Described(X, chunks, output_cursor)
      BY DEF SparseInv
    <3>3. X = Sparse!Expanded' /\ Described(X, chunks', output_cursor')
      BY <2>1, <3>1, <3>2
    <3>. QED  BY <2>1, <2>3, <3>1, <3>3 DEF SparseInv, Sparse!ImageSize
  <2>. QED  BY <2>1, <2>2, <2>3
<1>. QED  BY <1>1, SparseParse DEF Sparse!Next

LEMMA SparseProperties ==
  ASSUME Sparse!SparseAssumption, SparseInv PROVE Sparse!TypeOK /\ Sparse!OpenIsWhole
<1>1. Sparse!TypeOK
  <2>1. PICK k \in Nat, m \in Nat : k = MaxBlocks * BlockSize /\ m = Len(read)
    <3>1. MaxBlocks * BlockSize \in Nat
      BY DEF Sparse!SparseAssumption
    <3>2. Len(read) \in Nat
      BY DEF SparseInv
    <3>. QED  BY <3>1, <3>2
  <2>2. /\ output_cursor \in Nat /\ output_cursor <= m * k /\ MaxChunks \in Nat
        /\ m <= MaxChunks
    BY <2>1 DEF SparseInv, Sparse!SparseAssumption
  <2>3. m * k \in Nat /\ MaxChunks * k \in Nat /\ m * k <= MaxChunks * k
    BY <2>1, <2>2, ProductGrows
  <2>4. MaxChunks * MaxBlocks * BlockSize = MaxChunks * k
    BY <2>1 DEF Sparse!SparseAssumption
  <2>5. output_cursor \in 0 .. MaxChunks * MaxBlocks * BlockSize
    BY <2>2, <2>3, <2>4
  <2>. QED  BY <2>5 DEF SparseInv, Sparse!TypeOK
<1>2. ASSUME pc = "open"
      PROVE  /\ Len(Sparse!Expanded) = Sparse!ImageSize
             /\ header.size = Len(read) * HeaderSize + Sparse!SumFunction(Sparse!Payloads)
  <2>1. DOMAIN Sparse!Payloads = 1 .. Len(read)
    BY DEF Sparse!Payloads, SparseInv
  <2>2. Sparse!SumFunction(Sparse!Payloads) = SumFunctionOnSet(Sparse!Payloads, 1 .. Len(read))
    <3>1. Sparse!SumFunction(Sparse!Payloads)
            = Sparse!SumFunctionOnSet(Sparse!Payloads, DOMAIN Sparse!Payloads)
      BY DEF Sparse!SumFunction, Sparse!FoldFunction, Sparse!SumFunctionOnSet
    <3>. QED  BY <2>1, <3>1, SparseLibrary
  <2>. QED  BY <1>2, <2>2 DEF SparseInv, Described
<1>. QED  BY <1>1, <1>2 DEF Sparse!OpenIsWhole

-----------------------------------------------------------------------------
(* The ranges of a sparse image *)

\* From an offset into the repeated pattern, the rotated one is the pattern.
LEMMA Rotated ==
  ASSUME NEW f \in {Sparse!ZeroFill, Sparse!Pattern}, NEW relative \in Nat, NEW j \in Nat \ {0},
         NEW n \in Nat, j <= n
  PROVE  Sparse!FillBytes(f, relative, n)[j] = f[((relative + j - 1) % 4) + 1]
<1>. DEFINE start == relative % 4
            t == (j - 1) % 4
            left == SubSeq(f, start + 1, 4)
            right == SubSeq(f, 1, start)
            rotated == left \o right
<1>1. f \in Seq(Nat) /\ Len(f) = 4
  <2>1. <<0, 0, 0, 0>> \in Seq(Nat) /\ Len(<<0, 0, 0, 0>>) = 4
        /\ <<1, 2, 3, 4>> \in Seq(Nat) /\ Len(<<1, 2, 3, 4>>) = 4
    OBVIOUS
  <2>2. f = <<0, 0, 0, 0>> \/ f = <<1, 2, 3, 4>>
    BY DEF Sparse!ZeroFill, Sparse!Pattern
  <2>. QED  BY <2>1, <2>2
<1>2. start \in 0 .. 3 /\ t \in 0 .. 3
  OBVIOUS
<1>3. (relative + j - 1) % 4 = IF start + t < 4 THEN start + t ELSE start + t - 4
  OBVIOUS
<1>4. Sparse!FillBytes(f, relative, n)[j] = rotated[t + 1]
  <2>1. Sparse!FillBytes(f, relative, n) = [i \in 1 .. n |-> rotated[((i - 1) % 4) + 1]]
    BY DEF Sparse!FillBytes
  <2>. HIDE DEF rotated
  <2>2. j \in 1 .. n
    OBVIOUS
  <2>. QED  BY <2>1, <2>2
<1>. HIDE DEF start, t
<1>5. /\ left \in Seq(Nat) /\ Len(left) = 4 - start
      /\ \A i \in 1 .. 4 - start : left[i] = f[start + i]
  <2>1. start + 1 \in Int /\ 4 \in Int /\ \A i \in start + 1 .. 4 : f[i] \in Nat
    <3>1. \A i \in start + 1 .. 4 : i \in 1 .. Len(f)
      BY <1>1, <1>2
    <3>2. f \in [1 .. Len(f) -> Nat]
      BY <1>1, LenProperties
    <3>3. start \in Int
      BY <1>2
    <3>. QED  BY <3>1, <3>2, <3>3
  <2>2. /\ left \in Seq(Nat) /\ Len(left) = IF start + 1 <= 4 THEN 4 - (start + 1) + 1 ELSE 0
        /\ \A i \in 1 .. 4 - (start + 1) + 1 : left[i] = f[(start + 1) + i - 1]
    BY <2>1, SubSeqProperties
  <2>. HIDE DEF left
  <2>3. ASSUME NEW i \in 1 .. 4 - start PROVE left[i] = f[start + i]
    <3>1. i \in 1 .. 4 - (start + 1) + 1 /\ (start + 1) + i - 1 = start + i
      BY <1>2
    <3>. QED  BY <2>2, <3>1
  <2>4. Len(left) = 4 - start
    BY <1>2, <2>2
  <2>. QED  BY <2>2, <2>3, <2>4
<1>6. /\ right \in Seq(Nat) /\ Len(right) = start
      /\ \A i \in 1 .. start : right[i] = f[i]
  <2>1. start \in Int /\ 1 \in Int /\ \A i \in 1 .. start : f[i] \in Nat
    <3>1. \A i \in 1 .. start : i \in 1 .. Len(f)
      BY <1>1, <1>2
    <3>2. f \in [1 .. Len(f) -> Nat]
      BY <1>1, LenProperties
    <3>3. start \in Int
      BY <1>2
    <3>. QED  BY <3>1, <3>2, <3>3
  <2>2. /\ right \in Seq(Nat) /\ Len(right) = IF 1 <= start THEN start - 1 + 1 ELSE 0
        /\ \A i \in 1 .. start - 1 + 1 : right[i] = f[1 + i - 1]
    BY <2>1, SubSeqProperties
  <2>. HIDE DEF right
  <2>3. ASSUME NEW i \in 1 .. start PROVE right[i] = f[i]
    <3>1. i \in 1 .. start - 1 + 1 /\ 1 + i - 1 = i
      BY <1>2
    <3>. QED  BY <2>2, <3>1
  <2>4. Len(right) = start
    BY <1>2, <2>2
  <2>. QED  BY <2>2, <2>3, <2>4
<1>. HIDE DEF left, right
<1>7. CASE start + t < 4
  <2>1. t + 1 \in 1 .. Len(left) /\ start + (t + 1) = (start + t) + 1
    BY <1>2, <1>5, <1>7
  <2>2. rotated[t + 1] = left[t + 1]
    BY <2>1, <1>5, <1>6, ConcatProperties
  <2>3. left[t + 1] = f[(start + t) + 1]
    BY <2>1, <1>5
  <2>. QED  BY <2>2, <2>3, <1>3, <1>4, <1>7
<1>8. CASE ~(start + t < 4)
  <2>. DEFINE i == start + t - 4 + 1
  <2>1. i \in 1 .. start /\ t + 1 = Len(left) + i
    BY <1>2, <1>5, <1>8
  <2>2. rotated[t + 1] = right[i]
    <3>1. t + 1 \in Len(left) + 1 .. Len(left) + Len(right) /\ (t + 1) - Len(left) = i
      BY <2>1, <1>2, <1>5, <1>6
    <3>. HIDE DEF i
    <3>. QED  BY <3>1, <1>2, <1>5, <1>6, ConcatProperties
  <2>3. right[i] = f[i]
    BY <2>1, <1>6
  <2>. QED  BY <2>2, <2>3, <1>3, <1>4, <1>8
<1>. QED  BY <1>7, <1>8

\* What is read of a chunk are its bytes.
LEMMA DataIsBytes ==
  ASSUME NEW c \in MappedChunks, NEW relative \in Nat, NEW n \in Nat
  PROVE  /\ Sparse!Data(c, relative, n) \in Seq(Nat)
         /\ Len(Sparse!Data(c, relative, n)) = n
         /\ \A j \in 1 .. n : Sparse!Data(c, relative, n)[j] = Byte(c, relative + j)
<1>. DEFINE d == Sparse!Data(c, relative, n)
<1>1. c.kind \in {"raw", "fill", "dont_care"} /\ c.input_offset \in Nat
      /\ c.fill \in {Sparse!ZeroFill, Sparse!Pattern}
  BY DEF MappedChunks
<1>2. \E g : d = [j \in 1 .. n |-> g[j]]
             /\ \A j \in 1 .. n : g[j] \in Nat /\ g[j] = Byte(c, relative + j)
  <2>1. CASE c.kind = "raw"
    <3>. DEFINE g == [j \in 1 .. n |-> Sparse!Input(c.input_offset + relative + j - 1)]
    <3>1. d = g
      BY <2>1 DEF Sparse!Data
    <3>2. ASSUME NEW j \in 1 .. n PROVE g[j] \in Nat /\ g[j] = Byte(c, relative + j)
      <4>1. g[j] = Sparse!Input(c.input_offset + relative + j - 1)
        OBVIOUS
      <4>2. c.input_offset + relative + j - 1 = c.input_offset + (relative + j) - 1
            /\ c.input_offset + relative + j - 1 \in Nat
        BY <1>1
      <4>3. Byte(c, relative + j) = Sparse!Input(c.input_offset + (relative + j) - 1)
        BY <2>1 DEF Byte
      <4>. QED  BY <4>1, <4>2, <4>3 DEF Sparse!Input
    <3>3. d = [j \in 1 .. n |-> g[j]]
      BY <3>1
    <3>. HIDE DEF g, d
    <3>. QED  BY <3>2, <3>3
  <2>2. CASE c.kind = "fill"
    <3>. DEFINE g == Sparse!FillBytes(c.fill, relative, n)
    <3>1. d = g
      BY <2>2 DEF Sparse!Data
    <3>2. g = [j \in 1 .. n |-> g[j]]
      BY DEF Sparse!FillBytes
    <3>. HIDE DEF g, d
    <3>3. ASSUME NEW j \in 1 .. n PROVE g[j] \in Nat /\ g[j] = Byte(c, relative + j)
      <4>1. g[j] = c.fill[((relative + j - 1) % 4) + 1]
        <5>1. j \in Nat \ {0} /\ j <= n
          OBVIOUS
        <5>2. PICK f \in {Sparse!ZeroFill, Sparse!Pattern} : f = c.fill
          BY <1>1
        <5>3. Sparse!FillBytes(f, relative, n)[j] = f[((relative + j - 1) % 4) + 1]
          BY <5>1, Rotated, ZenonT(30)
        <5>. QED  BY <5>2, <5>3 DEF g
      <4>2. Byte(c, relative + j) = c.fill[(((relative + j) - 1) % 4) + 1]
        BY <2>2 DEF Byte
      <4>3. c.fill \in [1 .. 4 -> Nat]
        BY <1>1 DEF Sparse!ZeroFill, Sparse!Pattern
      <4>4. ((relative + j - 1) % 4) + 1 \in 1 .. 4
        OBVIOUS
      <4>. QED  BY <4>1, <4>2, <4>3, <4>4
    <3>. QED  BY <3>1, <3>2, <3>3
  <2>3. CASE c.kind = "dont_care"
    <3>. DEFINE g == [j \in 1 .. n |-> 0]
    <3>1. d = g
      BY <2>3 DEF Sparse!Data, Sparse!Zeros, Sparse!Zero
    <3>2. ASSUME NEW j \in 1 .. n PROVE g[j] \in Nat /\ g[j] = Byte(c, relative + j)
      BY <2>3 DEF Byte
    <3>3. d = [j \in 1 .. n |-> g[j]]
      BY <3>1
    <3>. HIDE DEF g, d
    <3>. QED  BY <3>2, <3>3
  <2>. QED  BY <1>1, <2>1, <2>2, <2>3
<1>3. PICK g : d = [j \in 1 .. n |-> g[j]]
               /\ \A j \in 1 .. n : g[j] \in Nat /\ g[j] = Byte(c, relative + j)
  BY <1>2
<1>. HIDE DEF d
<1>4. d \in Seq(Nat) /\ Len(d) = n /\ \A j \in 1 .. n : d[j] = Byte(c, relative + j)
  BY <1>3
<1>. QED  BY <1>4 DEF d

\* A segment to be read, what read_at reads of it and what copy_range writes.
Segment == [chunk : MappedChunks, relative : Nat, take : Nat]
DataOf(s) == Sparse!Data(s.chunk, s.relative, s.take)
CopyOf(s) == IF Sparse!IsHole(s.chunk) THEN Sparse!Zeros(s.take) ELSE Sparse!Pieces(s)

\* In pieces of Buffer bytes, the phase of a fill carried on, the same is written.
LEMMA PiecesAreData ==
  ASSUME Sparse!SparseAssumption, NEW s \in Segment
  PROVE  Sparse!Pieces(s) = DataOf(s)
<1>. DEFINE d == DataOf(s)
            all == s.take
            count == (all + Buffer - 1) \div Buffer
            size(k) == Sparse!Least(Buffer, all - (k - 1) * Buffer)
            piece(k) == Sparse!Data(s.chunk, s.relative + (k - 1) * Buffer, size(k))
            cut(k) == IF k * Buffer < Len(d) THEN k * Buffer ELSE Len(d)
<1>1. s.chunk \in MappedChunks /\ s.relative \in Nat /\ all \in Nat /\ Buffer \in Nat \ {0}
  BY DEF Segment, Sparse!SparseAssumption
<1>2. d \in Seq(Nat) /\ Len(d) = all /\ \A j \in 1 .. all : d[j] = Byte(s.chunk, s.relative + j)
  BY <1>1, DataIsBytes DEF DataOf
<1>3. Sparse!Pieces(s) = FlattenSeq([k \in 1 .. count |-> piece(k)])
  BY SparseLibrary DEF Sparse!Pieces
<1>. HIDE DEF d, all
<1>4. ASSUME NEW k \in 1 .. count
      PROVE  piece(k) = SubSeq(d, (k - 1) * Buffer + 1, cut(k))
  <2>1. PICK m \in Nat : m = (all + Buffer - 1) \div Buffer /\ m * Buffer <= all + Buffer - 1
    <3>1. all + Buffer - 1 \in Nat
      BY <1>1
    <3>. QED  BY <1>1, <3>1, Quotient
  <2>2. k \in Nat /\ k - 1 \in Nat /\ k <= m
    BY <2>1
  <2>. HIDE DEF count
  <2>3. PICK b \in Nat : b = (k - 1) * Buffer
    BY <1>1, <2>2
  <2>4. k * Buffer = b + Buffer
    BY <1>1, <2>2, <2>3
  <2>5. b < all
    <3>1. k * Buffer \in Nat /\ m * Buffer \in Nat /\ k * Buffer <= m * Buffer
      BY <1>1, <2>1, <2>2, ProductGrows
    <3>. QED  BY <1>1, <2>1, <2>3, <2>4, <3>1
  <2>6. size(k) \in Nat /\ cut(k) = b + size(k) /\ cut(k) <= all /\ size(k) \in Nat \ {0}
    BY <1>1, <1>2, <2>3, <2>4, <2>5 DEF Sparse!Least
  <2>7. s.relative + (k - 1) * Buffer \in Nat /\ s.relative + (k - 1) * Buffer = s.relative + b
    BY <1>1, <2>3
  <2>. HIDE DEF size, cut
  <2>8. /\ piece(k) \in Seq(Nat) /\ Len(piece(k)) = size(k)
        /\ \A j \in 1 .. size(k) : piece(k)[j] = Byte(s.chunk, (s.relative + b) + j)
    <3>1. PICK r \in Nat : r = s.relative + (k - 1) * Buffer /\ r = s.relative + b
      BY <2>7
    <3>2. PICK l \in Nat : l = size(k)
      BY <2>6
    <3>3. piece(k) = Sparse!Data(s.chunk, r, l)
      BY <3>1, <3>2
    <3>. HIDE DEF piece
    <3>4. /\ piece(k) \in Seq(Nat) /\ Len(piece(k)) = l
          /\ \A j \in 1 .. l : piece(k)[j] = Byte(s.chunk, r + j)
      <4>1. PICK c \in MappedChunks : c = s.chunk
        BY <1>1
      <4>2. /\ Sparse!Data(c, r, l) \in Seq(Nat) /\ Len(Sparse!Data(c, r, l)) = l
            /\ \A j \in 1 .. l : Sparse!Data(c, r, l)[j] = Byte(c, r + j)
        BY DataIsBytes
      <4>. QED  BY <3>3, <4>1, <4>2
    <3>. QED  BY <3>1, <3>2, <3>4
  <2>. HIDE DEF piece
  <2>9. /\ SubSeq(d, b + 1, cut(k)) \in Seq(Nat)
        /\ Len(SubSeq(d, b + 1, cut(k))) = size(k)
        /\ \A j \in 1 .. size(k) : SubSeq(d, b + 1, cut(k))[j] = d[b + j]
    <3>1. b + 1 \in Int /\ cut(k) \in Int /\ \A j \in b + 1 .. cut(k) : d[j] \in Nat
      <4>1. d \in Seq(Nat) /\ \A j \in b + 1 .. cut(k) : j \in 1 .. Len(d)
        BY <1>1, <1>2, <2>6
      <4>2. \A j \in b + 1 .. cut(k) : d[j] \in Nat
        BY <4>1, ElementOfSeq, Zenon
      <4>. QED  BY <2>6, <4>2
    <3>2. /\ SubSeq(d, b + 1, cut(k)) \in Seq(Nat)
          /\ Len(SubSeq(d, b + 1, cut(k))) = IF b + 1 <= cut(k) THEN cut(k) - (b + 1) + 1 ELSE 0
          /\ \A j \in 1 .. cut(k) - (b + 1) + 1 : SubSeq(d, b + 1, cut(k))[j] = d[(b + 1) + j - 1]
      BY <3>1, SubSeqProperties
    <3>3. cut(k) - (b + 1) + 1 = size(k) /\ b + 1 <= cut(k)
      BY <2>6
    <3>4. ASSUME NEW j \in 1 .. size(k) PROVE SubSeq(d, b + 1, cut(k))[j] = d[b + j]
      <4>1. (b + 1) + j - 1 = b + j /\ j \in 1 .. cut(k) - (b + 1) + 1
        BY <2>6, <3>3
      <4>. QED  BY <3>2, <4>1
    <3>5. Len(SubSeq(d, b + 1, cut(k))) = size(k)
      BY <3>2, <3>3
    <3>. QED  BY <3>2, <3>4, <3>5
  <2>10. ASSUME NEW j \in 1 .. size(k) PROVE piece(k)[j] = SubSeq(d, b + 1, cut(k))[j]
    <3>1. b + j \in 1 .. all /\ s.relative + (b + j) = (s.relative + b) + j
      BY <1>1, <2>6
    <3>2. d[b + j] = Byte(s.chunk, s.relative + (b + j))
      BY <1>2, <3>1
    <3>. QED  BY <2>8, <2>9, <3>1, <3>2
  <2>11. piece(k) = SubSeq(d, b + 1, cut(k))
    BY <2>8, <2>9, <2>10, SeqEqual
  <2>. QED  BY <2>3, <2>11
<1>5. Cut(d, Buffer) = [k \in 1 .. count |-> SubSeq(d, (k - 1) * Buffer + 1, cut(k))]
  BY <1>2 DEF Cut, all
<1>6. Cut(d, Buffer) = [k \in 1 .. count |-> piece(k)]
  <2>. HIDE DEF piece, cut, count
  <2>. QED  BY <1>4, <1>5
<1>7. FlattenSeq(Cut(d, Buffer)) = d
  BY <1>1, <1>2, CutAndFlattened
<1>. QED  BY <1>3, <1>6, <1>7 DEF d

LEMMA CopiedIsData ==
  ASSUME Sparse!SparseAssumption, NEW s \in Segment
  PROVE  CopyOf(s) = DataOf(s) /\ DataOf(s) \in Seq(Nat)
<1>1. s.chunk \in MappedChunks /\ s.relative \in Nat /\ s.take \in Nat
  BY DEF Segment
<1>2. /\ DataOf(s) \in Seq(Nat) /\ Len(DataOf(s)) = s.take
      /\ \A j \in 1 .. s.take : DataOf(s)[j] = Byte(s.chunk, s.relative + j)
  BY <1>1, DataIsBytes DEF DataOf
<1>3. CASE Sparse!IsHole(s.chunk)
  <2>1. \A j \in 1 .. s.take : Byte(s.chunk, s.relative + j) = 0
    <3>1. CASE s.chunk.kind = "dont_care"
      BY <3>1 DEF Byte
    <3>2. CASE s.chunk.kind = "fill" /\ s.chunk.fill = Sparse!ZeroFill
      <4>1. ASSUME NEW j \in 1 .. s.take PROVE Byte(s.chunk, s.relative + j) = 0
        <5>1. Byte(s.chunk, s.relative + j) = Sparse!ZeroFill[(((s.relative + j) - 1) % 4) + 1]
          BY <3>2 DEF Byte
        <5>2. (((s.relative + j) - 1) % 4) + 1 \in 1 .. 4
          BY <1>1
        <5>. QED  BY <5>1, <5>2 DEF Sparse!ZeroFill
      <4>. QED  BY <4>1
    <3>. QED  BY <1>3, <3>1, <3>2 DEF Sparse!IsHole
  <2>2. Sparse!Zeros(s.take) \in Seq(Nat) /\ Len(Sparse!Zeros(s.take)) = s.take
        /\ \A j \in 1 .. s.take : Sparse!Zeros(s.take)[j] = 0
    BY <1>1 DEF Sparse!Zeros, Sparse!Zero
  <2>3. CopyOf(s) = Sparse!Zeros(s.take)
    BY <1>3 DEF CopyOf
  <2>. QED  BY <1>2, <2>1, <2>2, <2>3, SeqEqual
<1>4. CASE ~Sparse!IsHole(s.chunk)
  BY <1>2, <1>4, PiecesAreData DEF CopyOf
<1>. QED  BY <1>3, <1>4

\* What _segments has yielded after one more chunk.
Advance(offset, size, sofar) ==
  LET cursor == sofar.cursor
      index == Sparse!StartIndex(offset) + Len(sofar.segments)
      chunk == chunks[index]
      end == chunk.output_start + chunk.output_size
      take == Sparse!Least(offset + size, end) - cursor
  IN  IF cursor < offset + size /\ index \in DOMAIN chunks
         /\ cursor \in chunk.output_start .. (end - 1)
      THEN [cursor |-> cursor + take,
            segments |-> Append(sofar.segments,
               [chunk |-> chunk, relative |-> cursor - chunk.output_start,
                take |-> take])]
      ELSE sofar

Advances(g, offset, size, m) ==
  /\ g[0] = [cursor |-> offset, segments |-> <<>>]
  /\ \A n \in 1 .. m : g[n] = Advance(offset, size, g[n - 1])

\* The recursion of _segments is well-defined, and it is Sparse!Segments.
LEMMA AdvancesExist ==
  ASSUME NEW offset, NEW size, NEW m \in Nat
  PROVE  \E g : g = [n \in 0 .. m |->
                       IF n = 0 THEN [cursor |-> offset, segments |-> <<>>]
                       ELSE Advance(offset, size, g[n - 1])]
<1>. DEFINE first == [cursor |-> offset, segments |-> <<>>]
            next(x) == Advance(offset, size, x)
            Runs(g, k) == DOMAIN g = 0 .. k /\ g[0] = first
                          /\ \A n \in 1 .. k : g[n] = next(g[n - 1])
            Q == {k \in Nat : \E g : Runs(g, k)}
<1>. HIDE DEF first, next
<1>1. 0 \in Q
  <2>. DEFINE z == [n \in 0 .. 0 |-> first]
  <2>1. Runs(z, 0)
    OBVIOUS
  <2>. QED  BY <2>1
<1>2. ASSUME NEW k \in Nat, k \in Q PROVE k + 1 \in Q
  <2>1. PICK g : Runs(g, k)
    BY <1>2
  <2>. DEFINE h == [n \in 0 .. k + 1 |-> IF n <= k THEN g[n] ELSE next(g[k])]
  <2>2. DOMAIN h = 0 .. k + 1 /\ (\A n \in 0 .. k : h[n] = g[n]) /\ h[k + 1] = next(g[k])
    OBVIOUS
  <2>. HIDE DEF h
  <2>3. ASSUME NEW n \in 1 .. k + 1 PROVE h[n] = next(h[n - 1])
    <3>1. CASE n = k + 1
      <4>1. n - 1 = k /\ h[n - 1] = g[k]
        BY <2>2, <3>1
      <4>. QED  BY <2>2, <3>1, <4>1
    <3>2. CASE n # k + 1
      <4>1. n \in 1 .. k /\ n \in 0 .. k /\ n - 1 \in 0 .. k
        BY <3>2
      <4>. QED  BY <2>1, <2>2, <4>1
    <3>. QED  BY <3>1, <3>2
  <2>4. h[0] = first
    BY <2>1, <2>2
  <2>5. Runs(h, k + 1)
    BY <2>2, <2>3, <2>4
  <2>. QED  BY <2>5
<1>. HIDE DEF Q
<1>3. Nat \subseteq Q
  BY <1>1, <1>2, SetInduction
<1>4. PICK g : Runs(g, m)
  BY <1>3 DEF Q
<1>5. ASSUME NEW n \in 0 .. m PROVE g[n] = IF n = 0 THEN first ELSE next(g[n - 1])
  <2>1. n = 0 \/ n \in 1 .. m
    OBVIOUS
  <2>. QED  BY <1>4, <2>1
<1>. DEFINE G == [n \in 0 .. m |-> g[n]]
<1>6. \A n \in 0 .. m : G[n] = g[n]
  OBVIOUS
<1>7. G = [n \in 0 .. m |-> IF n = 0 THEN first ELSE next(G[n - 1])]
  <2>1. \A n \in 0 .. m : n # 0 => n - 1 \in 0 .. m
    OBVIOUS
  <2>2. G = [n \in 0 .. m |-> G[n]]
    OBVIOUS
  <2>. HIDE DEF G
  <2>3. \A n \in 0 .. m : G[n] = IF n = 0 THEN first ELSE next(G[n - 1])
    BY <1>5, <1>6, <2>1
  <2>. QED  BY <2>2, <2>3
<1>. HIDE DEF G
<1>. QED  BY <1>7 DEF first, next

LEMMA SegmentsAdvance ==
  ASSUME NEW offset, NEW size, Len(chunks) \in Nat
  PROVE  \E g : Advances(g, offset, size, Len(chunks))
                /\ Sparse!Segments(offset, size) = g[Len(chunks)].segments
<1>. DEFINE m == Len(chunks)
            taken == CHOOSE g : g = [n \in 0 .. m |->
                       IF n = 0 THEN [cursor |-> offset, segments |-> <<>>]
                       ELSE Advance(offset, size, g[n - 1])]
<1>1. taken = [n \in 0 .. m |->
                 IF n = 0 THEN [cursor |-> offset, segments |-> <<>>]
                 ELSE Advance(offset, size, taken[n - 1])]
  BY AdvancesExist
<1>2. Sparse!Segments(offset, size) = taken[m].segments
  BY DEF Sparse!Segments, Advance
<1>. HIDE DEF taken
<1>3. taken[0] = [cursor |-> offset, segments |-> <<>>]
  BY <1>1
<1>4. ASSUME NEW n \in 1 .. m PROVE taken[n] = Advance(offset, size, taken[n - 1])
  <2>1. n \in 0 .. m /\ n # 0
    OBVIOUS
  <2>. QED  BY <1>1, <2>1
<1>5. Advances(taken, offset, size, m)
  BY <1>3, <1>4 DEF Advances
<1>. QED  BY <1>2, <1>5

\* The chunk an offset lies in, and those before and after it.
LEMMA ChunkAt ==
  ASSUME SparseInv, NEW X, Described(X, chunks, output_cursor),
         NEW offset \in Nat, offset < output_cursor
  PROVE  \E a \in 1 .. Len(chunks) :
           /\ Sparse!StartIndex(offset) = a
           /\ chunks[a].output_start <= offset
           /\ offset < chunks[a].output_start + chunks[a].output_size
<1>. DEFINE n == Len(chunks)
            s == [i \in 1 .. n |-> chunks[i].output_start]
            e == [i \in 1 .. n |-> chunks[i].output_start + chunks[i].output_size]
<1>1. n \in Nat /\ chunks \in Seq(MappedChunks)
  BY LenProperties DEF SparseInv
<1>2. \A i \in 1 .. n : /\ chunks[i].output_start \in Nat
                        /\ chunks[i].output_size \in Nat \ {0}
  <2>1. \A i \in 1 .. n : chunks[i] \in MappedChunks
    BY <1>1, ElementOfSeq
  <2>. QED  BY <2>1 DEF MappedChunks
<1>3. s \in [1 .. n -> Nat] /\ e \in [1 .. n -> Nat]
  BY <1>2
<1>4. \A i \in 1 .. n : s[i] = chunks[i].output_start
                        /\ e[i] = chunks[i].output_start + chunks[i].output_size
                        /\ s[i] < e[i]
  BY <1>2
<1>5. n # 0 /\ output_cursor = e[n]
  <2>1. n # 0
    BY DEF Described
  <2>. QED  BY <1>1, <2>1 DEF Described
<1>. HIDE DEF s, e
<1>6. ASSUME NEW i \in 1 .. n PROVE s[i] <= e[i] /\ s[i] = IF i = 1 THEN 0 ELSE e[i - 1]
  <2>1. chunks[i].output_start =
          IF i = 1 THEN 0 ELSE chunks[i - 1].output_start + chunks[i - 1].output_size
    BY DEF Described
  <2>2. i # 1 => i - 1 \in 1 .. n
    BY <1>1
  <2>3. s[i] <= e[i]
    BY <1>3, <1>4
  <2>. QED  BY <1>4, <2>1, <2>2, <2>3
<1>. HIDE DEF n
<1>7. /\ \A i, j \in 1 .. n : i < j => e[i] <= s[j]
      /\ \A i \in 1 .. n : \A b \in 0 .. (e[i] - 1) : \E j \in 1 .. i : s[j] <= b /\ b < e[j]
  BY <1>1, <1>3, <1>6, Tiles
<1>8. offset \in 0 .. (e[n] - 1) /\ n \in 1 .. n
  BY <1>1, <1>3, <1>5
<1>9. PICK a \in 1 .. n : s[a] <= offset /\ offset < e[a]
  BY <1>1, <1>7, <1>8
<1>10. {i \in 1 .. n : s[i] <= offset} = 1 .. a
  <2>1. ASSUME NEW i \in 1 .. n, i <= a PROVE s[i] <= offset
    <3>1. CASE i = a
      BY <3>1, <1>9
    <3>2. CASE i # a
      <4>1. e[i] <= s[a] /\ s[i] <= e[i]
        BY <1>6, <1>7, <2>1, <3>2
      <4>. QED  BY <1>3, <1>9, <4>1
    <3>. QED  BY <3>1, <3>2
  <2>2. ASSUME NEW i \in 1 .. n, ~(i <= a) PROVE ~(s[i] <= offset)
    <3>1. e[a] <= s[i]
      BY <1>7, <2>2
    <3>. QED  BY <1>3, <1>9, <3>1
  <2>3. \A i \in 1 .. a : i \in 1 .. n /\ i <= a
    BY <1>1
  <2>4. ASSUME NEW i \in 1 .. n, i <= a PROVE i \in 1 .. a
    BY <2>4
  <2>. QED  BY <2>1, <2>2, <2>3, <2>4
<1>11. Sparse!StartIndex(offset) = a
  <2>1. {i \in DOMAIN chunks : chunks[i].output_start <= offset} = {i \in 1 .. n : s[i] <= offset}
    BY <1>1, <1>4 DEF n
  <2>2. Cardinality(1 .. a) = a
    <3>1. 1 \in Int /\ a \in Int /\ ~(1 > a)
      OBVIOUS
    <3>2. Cardinality(1 .. a) = IF 1 > a THEN 0 ELSE a - 1 + 1
      BY <3>1, FS_Interval
    <3>. QED  BY <3>1, <3>2
  <2>. QED  BY <1>10, <2>1, <2>2, SparseLibrary DEF Sparse!StartIndex
<1>. QED  BY <1>4, <1>9, <1>11 DEF n

\* What both make of several segments.
DataUpTo(gs) == FlattenSeq([k \in 1 .. Len(gs) |-> DataOf(gs[k])])
CopiedUpTo(gs) == FlattenSeq([k \in 1 .. Len(gs) |-> CopyOf(gs[k])])

LEMMA CopiedSegments ==
  ASSUME Sparse!SparseAssumption, NEW gs \in Seq(Segment)
  PROVE  CopiedUpTo(gs) = DataUpTo(gs)
<1>1. \A k \in 1 .. Len(gs) : gs[k] \in Segment
  BY ElementOfSeq
<1>2. \A k \in 1 .. Len(gs) : CopyOf(gs[k]) = DataOf(gs[k])
  BY <1>1, CopiedIsData
<1>3. [k \in 1 .. Len(gs) |-> CopyOf(gs[k])] = [k \in 1 .. Len(gs) |-> DataOf(gs[k])]
  BY <1>2
<1>. QED  BY <1>3 DEF CopiedUpTo, DataUpTo

LEMMA AppendSegment ==
  ASSUME NEW gs \in Seq(Segment), NEW s \in Segment
  PROVE  DataUpTo(Append(gs, s)) = DataUpTo(gs) \o DataOf(s)
<1>. DEFINE hs == Append(gs, s)
            n == Len(gs)
            m == [k \in 1 .. n + 1 |-> DataOf(hs[k])]
<1>1. n \in Nat /\ hs \in Seq(Segment) /\ Len(hs) = n + 1 /\ hs[n + 1] = s
      /\ \A k \in 1 .. n : hs[k] = gs[k]
  BY AppendProperties, LenProperties
<1>. HIDE DEF hs, n
<1>2. ASSUME NEW k \in 1 .. n + 1 PROVE m[k] = DataOf(hs[k]) /\ m[k] \in Seq(Nat)
  <2>1. PICK h \in Segment : h = hs[k]
    BY <1>1, ElementOfSeq
  <2>2. h.chunk \in MappedChunks /\ h.relative \in Nat /\ h.take \in Nat
    BY DEF Segment
  <2>3. DataOf(h) \in Seq(Nat)
    BY <2>2, DataIsBytes DEF DataOf
  <2>. QED  BY <2>1, <2>3
<1>3. [k \in 1 .. n + 1 |-> m[k]] = [k \in 1 .. Len(hs) |-> DataOf(hs[k])]
  BY <1>1, <1>2
<1>4. [k \in 1 .. n |-> m[k]] = [k \in 1 .. n |-> DataOf(gs[k])]
  BY <1>1, <1>2
<1>5. m[n + 1] = DataOf(s)
  BY <1>1, <1>2
<1>. HIDE DEF m
<1>6. FlattenSeq([k \in 1 .. n + 1 |-> m[k]]) = FlattenSeq([k \in 1 .. n |-> m[k]]) \o m[n + 1]
  BY <1>1, <1>2, FlattenNext
<1>7. DataUpTo(hs) = DataUpTo(gs) \o DataOf(s)
  BY <1>3, <1>4, <1>5, <1>6, Zenon DEF DataUpTo, n
<1>. QED  BY <1>7 DEF hs

\* The segment of a chunk from one place to another is that slice of the image.
LEMMA SegmentIsSlice ==
  ASSUME NEW X, Described(X, chunks, output_cursor), NEW i \in 1 .. Len(chunks),
         chunks[i] \in MappedChunks, NEW cur \in Nat, NEW take \in Nat \ {0},
         chunks[i].output_start <= cur,
         cur + take <= chunks[i].output_start + chunks[i].output_size
  PROVE  Sparse!Data(chunks[i], cur - chunks[i].output_start, take) = SubSeq(X, cur + 1, cur + take)
<1>. DEFINE c == chunks[i]
            r == cur - c.output_start
            d == Sparse!Data(c, r, take)
            z == SubSeq(X, cur + 1, cur + take)
<1>1. c.output_start \in Nat /\ c.output_size \in Nat /\ r \in Nat
  BY DEF MappedChunks
<1>2. /\ X \in Seq(Nat) /\ Len(X) = output_cursor /\ output_cursor \in Nat
      /\ c.output_start + c.output_size <= output_cursor
      /\ \A j \in 1 .. c.output_size : X[c.output_start + j] = Byte(c, j)
  BY LenProperties DEF Described
<1>. HIDE DEF c
<1>3. d \in Seq(Nat) /\ Len(d) = take /\ \A j \in 1 .. take : d[j] = Byte(c, r + j)
  <2>1. PICK rel \in Nat : rel = r
    BY <1>1
  <2>2. c \in MappedChunks
    BY DEF c
  <2>3. /\ Sparse!Data(c, rel, take) \in Seq(Nat) /\ Len(Sparse!Data(c, rel, take)) = take
        /\ \A j \in 1 .. take : Sparse!Data(c, rel, take)[j] = Byte(c, rel + j)
    BY <2>2, DataIsBytes
  <2>. QED  BY <2>1, <2>3
<1>4. z \in Seq(Nat) /\ Len(z) = take /\ \A j \in 1 .. take : z[j] = X[cur + j]
  <2>1. cur + 1 \in Int /\ cur + take \in Int /\ \A j \in cur + 1 .. cur + take : X[j] \in Nat
    <3>1. \A j \in cur + 1 .. cur + take : j \in 1 .. Len(X)
      BY <1>1, <1>2 DEF c
    <3>2. X \in [1 .. Len(X) -> Nat]
      BY <1>2, LenProperties
    <3>. QED  BY <3>1, <3>2
  <2>2. /\ z \in Seq(Nat) /\ Len(z) = IF cur + 1 <= cur + take THEN cur + take - (cur + 1) + 1 ELSE 0
        /\ \A j \in 1 .. cur + take - (cur + 1) + 1 : z[j] = X[(cur + 1) + j - 1]
    BY <2>1, SubSeqProperties
  <2>. HIDE DEF z
  <2>3. cur + take - (cur + 1) + 1 = take /\ cur + 1 <= cur + take
    OBVIOUS
  <2>4. ASSUME NEW j \in 1 .. take PROVE z[j] = X[cur + j]
    <3>1. (cur + 1) + j - 1 = cur + j
      OBVIOUS
    <3>. QED  BY <2>2, <2>3, <3>1
  <2>. QED  BY <2>2, <2>3, <2>4
<1>5. ASSUME NEW j \in 1 .. take PROVE d[j] = z[j]
  <2>1. r + j \in 1 .. c.output_size /\ c.output_start + (r + j) = cur + j
    BY <1>1, SMTT(30) DEF c
  <2>2. X[c.output_start + (r + j)] = Byte(c, r + j)
    BY <1>2, <2>1
  <2>. HIDE DEF d, z, r
  <2>. QED  BY <1>3, <1>4, <2>1, <2>2
<1>. HIDE DEF d, z
<1>6. d = z
  BY <1>3, <1>4, <1>5, SeqEqual
<1>. QED  BY <1>6 DEF d, z, c

\* After the n-th chunk: the segments are the image from offset to the cursor,
\* which is at the start of the next chunk, or inside the first, or at the end.
Reached(X, offset, size, a, n, cur, gs) ==
  /\ gs \in Seq(Segment) /\ cur \in offset .. offset + size
  /\ DataUpTo(gs) = SubSeq(X, offset + 1, cur)
  /\ cur < offset + size =>
       /\ Len(gs) = n /\ a + n \in 1 .. Len(chunks)
       /\ chunks[a + n].output_start <= cur
       /\ cur < chunks[a + n].output_start + chunks[a + n].output_size

\* One more chunk keeps it so, and in the end all of the range is read.
LEMMA AdvanceReaches ==
  ASSUME SparseInv, NEW X, Described(X, chunks, output_cursor),
         NEW offset \in Nat, NEW size \in Nat, offset + size <= output_cursor,
         NEW a \in Nat, Sparse!StartIndex(offset) = a, NEW n \in Nat,
         NEW cur, NEW gs, Reached(X, offset, size, a, n, cur, gs)
  PROVE  LET next == Advance(offset, size, [cursor |-> cur, segments |-> gs])
         IN  /\ next = [cursor |-> next.cursor, segments |-> next.segments]
             /\ Reached(X, offset, size, a, n + 1, next.cursor, next.segments)
<1>. DEFINE sofar == [cursor |-> cur, segments |-> gs]
            next == Advance(offset, size, sofar)
            i == a + n
            c == chunks[i]
            end == c.output_start + c.output_size
            take == Sparse!Least(offset + size, end) - cur
            s == [chunk |-> c, relative |-> cur - c.output_start, take |-> take]
<1>0. /\ gs \in Seq(Segment) /\ cur \in Nat /\ offset <= cur /\ cur <= offset + size
      /\ DataUpTo(gs) = SubSeq(X, offset + 1, cur)
  BY DEF Reached
<1>1. CASE ~(cur < offset + size)
  <2>1. next = sofar
    BY <1>1 DEF Advance
  <2>2. next.cursor = cur /\ next.segments = gs
    BY <2>1
  <2>3. Reached(X, offset, size, a, n + 1, cur, gs)
    BY <1>0, <1>1 DEF Reached
  <2>. QED  BY <2>1, <2>2, <2>3
<1>2. CASE cur < offset + size
  <2>1. /\ Len(gs) = n /\ i \in 1 .. Len(chunks)
        /\ c.output_start <= cur /\ cur < end
    BY <1>2 DEF Reached
  <2>2. /\ c \in MappedChunks /\ Len(chunks) \in Nat
    BY <2>1, ElementOfSeq, LenProperties DEF SparseInv
  <2>3. c.output_start \in Nat /\ c.output_size \in Nat \ {0}
    BY <2>2 DEF MappedChunks
  <2>. HIDE DEF c
  <2>4. /\ take \in Nat \ {0} /\ cur + take <= end /\ cur + take <= offset + size
        /\ cur + take < offset + size => cur + take = end
        /\ cur - c.output_start \in Nat
    <3>1. end \in Nat /\ offset + size \in Nat
      BY <2>3
    <3>2. cur - c.output_start \in Nat
      BY <1>0, <2>1, <2>3
    <3>3. Sparse!Least(offset + size, end) = IF offset + size < end THEN offset + size ELSE end
      BY DEF Sparse!Least
    <3>4. cur < end
      BY <2>1
    <3>. HIDE DEF end
    <3>5. CASE offset + size < end
      BY <1>0, <1>2, <3>1, <3>2, <3>3, <3>4, <3>5
    <3>6. CASE ~(offset + size < end)
      BY <1>0, <1>2, <3>1, <3>2, <3>3, <3>4, <3>6
    <3>. QED  BY <3>2, <3>5, <3>6
  <2>5. next = [cursor |-> cur + take, segments |-> Append(gs, s)]
    <3>1. Sparse!StartIndex(offset) + Len(sofar.segments) = i /\ sofar.cursor = cur
          /\ sofar.segments = gs
      BY <2>1
    <3>2. i \in DOMAIN chunks /\ cur \in c.output_start .. (end - 1)
      <4>1. i \in DOMAIN chunks
        BY <2>1, LenProperties DEF SparseInv
      <4>. QED  BY <4>1, <1>0, <2>1, <2>3
    <3>. HIDE DEF sofar, i
    <3>. QED  BY <1>2, <3>1, <3>2 DEF Advance, c
  <2>6. s \in Segment
    BY <2>2, <2>4 DEF Segment
  <2>7. DataOf(s) = SubSeq(X, cur + 1, cur + take)
    <3>. HIDE DEF take, i
    <3>1. Sparse!Data(chunks[i], cur - chunks[i].output_start, take) = SubSeq(X, cur + 1, cur + take)
      BY <1>0, <2>1, <2>2, <2>4, SegmentIsSlice DEF c
    <3>. QED  BY <3>1 DEF DataOf, c
  <2>8. DataUpTo(Append(gs, s)) = SubSeq(X, offset + 1, cur + take)
    <3>1. DataUpTo(Append(gs, s)) = DataUpTo(gs) \o DataOf(s)
      <4>. HIDE DEF s
      <4>. QED  BY <1>0, <2>6, AppendSegment
    <3>2. X \in Seq(Nat) /\ Len(X) = output_cursor /\ output_cursor \in Nat
      BY LenProperties DEF Described
    <3>. HIDE DEF take, s
    <3>3. /\ offset + 1 \in 1 .. Len(X) + 1 /\ cur \in (offset + 1) - 1 .. Len(X)
          /\ cur + take \in cur .. Len(X)
      BY <1>0, <2>4, <3>2
    <3>4. SubSeq(X, offset + 1, cur) \o SubSeq(X, cur + 1, cur + take) = SubSeq(X, offset + 1, cur + take)
      BY <3>2, <3>3, ConcatAdjacentSubSeq
    <3>. QED  BY <1>0, <2>7, <3>1, <3>4
  <2>9. ASSUME cur + take < offset + size
        PROVE  /\ Len(Append(gs, s)) = n + 1 /\ a + (n + 1) \in 1 .. Len(chunks)
               /\ chunks[a + (n + 1)].output_start <= cur + take
               /\ cur + take < chunks[a + (n + 1)].output_start + chunks[a + (n + 1)].output_size
    <3>1. Len(Append(gs, s)) = n + 1
      <4>. HIDE DEF s
      <4>. QED  BY <1>0, <2>1, <2>6, AppendProperties
    <3>2. cur + take = end
      BY <2>4, <2>9
    <3>3. i # Len(chunks)
      <4>1. SUFFICES ASSUME i = Len(chunks) PROVE FALSE
        OBVIOUS
      <4>2. output_cursor = end
        <5>1. Len(chunks) # 0
          BY <2>1, <2>2
        <5>. QED  BY <4>1, <5>1 DEF Described, c
      <4>. HIDE DEF take
      <4>. QED  BY <1>0, <2>3, <2>9, <3>2, <4>2
    <3>4. i + 1 \in 1 .. Len(chunks) /\ a + (n + 1) = i + 1 /\ i + 1 # 1 /\ (i + 1) - 1 = i
      BY <2>1, <2>2, <3>3
    <3>5. chunks[i + 1].output_start = end
      <4>. HIDE DEF i
      <4>1. chunks[i + 1].output_start =
              IF i + 1 = 1 THEN 0
              ELSE chunks[(i + 1) - 1].output_start + chunks[(i + 1) - 1].output_size
        BY <3>4 DEF Described
      <4>. QED  BY <3>4, <4>1 DEF c
    <3>6. chunks[i + 1].output_size \in Nat \ {0}
      <4>. HIDE DEF i
      <4>1. chunks[i + 1] \in MappedChunks
        BY <3>4, ElementOfSeq DEF SparseInv
      <4>. QED  BY <4>1 DEF MappedChunks
    <3>7. end \in Nat /\ end < end + chunks[i + 1].output_size
      BY <2>3, <3>6
    <3>. HIDE DEF i, end, take
    <3>. QED  BY <3>1, <3>2, <3>4, <3>5, <3>7
  <2>10. cur + take \in offset .. offset + size
    <3>. HIDE DEF take
    <3>. QED  BY <1>0, <2>4
  <2>11. Append(gs, s) \in Seq(Segment)
    <3>. HIDE DEF s
    <3>. QED  BY <1>0, <2>6, AppendProperties
  <2>. HIDE DEF s, take, sofar
  <2>12. Reached(X, offset, size, a, n + 1, cur + take, Append(gs, s))
    BY <2>8, <2>9, <2>10, <2>11 DEF Reached
  <2>13. next.cursor = cur + take /\ next.segments = Append(gs, s)
    <3>. HIDE DEF next
    <3>. QED  BY <2>5
  <2>14. next = [cursor |-> next.cursor, segments |-> next.segments]
         /\ Reached(X, offset, size, a, n + 1, next.cursor, next.segments)
    <3>. HIDE DEF next
    <3>. QED  BY <2>5, <2>12, <2>13
  <2>. QED  BY <2>14 DEF sofar
<1>. QED  BY <1>1, <1>2

LEMMA SegmentsReach ==
  ASSUME SparseInv, NEW X, Described(X, chunks, output_cursor),
         NEW offset \in Nat, NEW size \in Nat, offset + size <= output_cursor
  PROVE  /\ Sparse!Segments(offset, size) \in Seq(Segment)
         /\ DataUpTo(Sparse!Segments(offset, size)) = SubSeq(X, offset + 1, offset + size)
<1>. DEFINE m == Len(chunks)
            a == Sparse!StartIndex(offset)
<1>1. m \in Nat
  BY LenProperties DEF SparseInv
<1>2. PICK g : Advances(g, offset, size, m) /\ Sparse!Segments(offset, size) = g[m].segments
  BY <1>1, SegmentsAdvance
<1>. HIDE DEF m
<1>3. a \in Nat /\ (size # 0 => a >= 1)
  <2>1. CASE size = 0
    <3>1. IsFiniteSet(1 .. Len(chunks))
      BY <1>1, FS_Interval DEF m
    <3>2. {i \in DOMAIN chunks : chunks[i].output_start <= offset} \subseteq 1 .. Len(chunks)
      BY DEF SparseInv
    <3>3. IsFiniteSet({i \in DOMAIN chunks : chunks[i].output_start <= offset})
      BY <3>1, <3>2, FS_Subset
    <3>4. Cardinality({i \in DOMAIN chunks : chunks[i].output_start <= offset}) \in Nat
      BY <3>3, FS_CardinalityType
    <3>. QED  BY <2>1, <3>4, SparseLibrary DEF Sparse!StartIndex
  <2>2. CASE size # 0
    <3>1. offset < output_cursor
      BY <2>2 DEF SparseInv
    <3>2. PICK j \in 1 .. Len(chunks) : Sparse!StartIndex(offset) = j
      BY <3>1, ChunkAt
    <3>. QED  BY <3>2
  <2>. QED  BY <2>1, <2>2
<1>4. Reached(X, offset, size, a, 0, offset, <<>>)
  <2>1. <<>> \in Seq(Segment) /\ Len(<<>>) = 0 /\ offset \in offset .. offset + size
    OBVIOUS
  <2>2. DataUpTo(<<>>) = <<>>
    <3>1. [k \in 1 .. Len(<<>>) |-> DataOf(<<>>[k])] = <<>>
      OBVIOUS
    <3>. QED  BY <3>1, FlattenNothing DEF DataUpTo
  <2>3. SubSeq(X, offset + 1, offset) = <<>>
    BY SubSeqEmpty
  <2>4. ASSUME offset < offset + size
        PROVE  /\ a + 0 \in 1 .. Len(chunks) /\ chunks[a + 0].output_start <= offset
               /\ offset < chunks[a + 0].output_start + chunks[a + 0].output_size
    <3>1. offset < output_cursor
      BY <2>4 DEF SparseInv
    <3>2. PICK j \in 1 .. Len(chunks) :
            /\ Sparse!StartIndex(offset) = j /\ chunks[j].output_start <= offset
            /\ offset < chunks[j].output_start + chunks[j].output_size
      BY <3>1, ChunkAt
    <3>3. a + 0 = j
      BY <3>2
    <3>. HIDE DEF a
    <3>. QED  BY <3>2, <3>3
  <2>. HIDE DEF a
  <2>. QED  BY <2>1, <2>2, <2>3, <2>4 DEF Reached
<1>. DEFINE Good(n) == /\ g[n] = [cursor |-> g[n].cursor, segments |-> g[n].segments]
                       /\ Reached(X, offset, size, a, n, g[n].cursor, g[n].segments)
            Q == {n \in Nat : n <= m => Good(n)}
<1>5. 0 \in Q
  <2>1. g[0] = [cursor |-> offset, segments |-> <<>>]
    BY <1>2 DEF Advances
  <2>2. g[0].cursor = offset /\ g[0].segments = <<>>
    BY <2>1
  <2>. HIDE DEF a
  <2>3. Good(0)
    BY <1>4, <2>1, <2>2
  <2>. HIDE DEF Good
  <2>. QED  BY <2>3
<1>6. ASSUME NEW n \in Nat, n \in Q PROVE n + 1 \in Q
  <2>. SUFFICES ASSUME n + 1 <= m PROVE Good(n + 1)
    OBVIOUS
  <2>1. n + 1 \in 1 .. m /\ (n + 1) - 1 = n /\ n <= m
    BY <1>1
  <2>2. Good(n)
    <3>. HIDE DEF Good
    <3>. QED  BY <1>6, <2>1
  <2>3. g[n + 1] = Advance(offset, size, g[n])
    BY <1>2, <2>1 DEF Advances
  <2>4. PICK cur, gs : cur = g[n].cursor /\ gs = g[n].segments
    OBVIOUS
  <2>5. g[n] = [cursor |-> cur, segments |-> gs] /\ Reached(X, offset, size, a, n, cur, gs)
    <3>. HIDE DEF a
    <3>. QED  BY <2>2, <2>4
  <2>6. PICK next : next = Advance(offset, size, [cursor |-> cur, segments |-> gs])
    OBVIOUS
  <2>7. /\ next = [cursor |-> next.cursor, segments |-> next.segments]
        /\ Reached(X, offset, size, a, n + 1, next.cursor, next.segments)
    BY <1>3, <2>5, <2>6, AdvanceReaches
  <2>8. g[n + 1] = next
    BY <2>3, <2>5, <2>6
  <2>. HIDE DEF a
  <2>. QED  BY <2>7, <2>8
<1>. HIDE DEF Q, Good
<1>7. Nat \subseteq Q
  BY <1>5, <1>6, SetInduction
<1>8. Good(m)
  BY <1>1, <1>7 DEF Q
<1>. HIDE DEF a
<1>9. Reached(X, offset, size, a, m, g[m].cursor, g[m].segments)
  BY <1>8 DEF Good
<1>10. g[m].cursor = offset + size
  <2>1. g[m].cursor \in offset .. offset + size
    BY <1>9 DEF Reached
  <2>2. ASSUME g[m].cursor < offset + size PROVE FALSE
    <3>1. a + m \in 1 .. Len(chunks)
      BY <1>9, <2>2 DEF Reached
    <3>2. size # 0
      BY <2>1, <2>2
    <3>. QED  BY <1>1, <1>3, <3>1, <3>2 DEF m
  <2>. QED  BY <2>1, <2>2
<1>. QED  BY <1>2, <1>9, <1>10 DEF Reached

\* Whatever range is read or copied, it is that slice of the image.
LEMMA SparseRanges ==
  ASSUME Sparse!SparseAssumption, SparseInv
  PROVE  Sparse!RangeIsSlice
<1>1. SUFFICES ASSUME pc = "open", NEW offset \in 0 .. Sparse!ImageSize,
                      NEW size \in 0 .. (Sparse!ImageSize - offset)
               PROVE  /\ Sparse!ReadAt(offset, size) = SubSeq(Sparse!Expanded, offset + 1, offset + size)
                      /\ Sparse!CopyRange(offset, size) = SubSeq(Sparse!Expanded, offset + 1, offset + size)
  BY DEF Sparse!RangeIsSlice
<1>2. PICK X : X = Sparse!Expanded /\ Described(X, chunks, output_cursor)
  BY DEF SparseInv
<1>3. output_cursor = Sparse!ImageSize /\ output_cursor \in Nat
  BY <1>1 DEF SparseInv
<1>4. offset \in Nat /\ size \in Nat /\ offset + size <= output_cursor
  BY <1>3
<1>. DEFINE gs == Sparse!Segments(offset, size)
<1>5. gs \in Seq(Segment) /\ DataUpTo(gs) = SubSeq(X, offset + 1, offset + size)
  BY <1>2, <1>4, SegmentsReach
<1>6. CopiedUpTo(gs) = DataUpTo(gs)
  BY <1>5, CopiedSegments
<1>7. DOMAIN gs = 1 .. Len(gs)
  BY <1>5, LenProperties
<1>8. Sparse!ReadAt(offset, size) = DataUpTo(gs)
  <2>1. Sparse!ReadAt(offset, size) = FlattenSeq([k \in DOMAIN gs |-> DataOf(gs[k])])
    BY SparseLibrary DEF Sparse!ReadAt, DataOf
  <2>. HIDE DEF gs
  <2>. QED  BY <1>7, <2>1 DEF DataUpTo
<1>9. Sparse!CopyRange(offset, size) = CopiedUpTo(gs)
  <2>1. Sparse!CopyRange(offset, size) = FlattenSeq([k \in DOMAIN gs |-> CopyOf(gs[k])])
    BY SparseLibrary DEF Sparse!CopyRange, CopyOf
  <2>. HIDE DEF gs
  <2>. QED  BY <1>7, <2>1 DEF CopiedUpTo
<1>. QED  BY <1>2, <1>5, <1>6, <1>8, <1>9
=============================================================================
