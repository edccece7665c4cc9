---------------------------- MODULE Stages_proofs ----------------------------
(***************************************************************************)
(* What TLAPS proves of the programs of the stages, as Stages instantiates *)
(* them: DriveDownload, SourceParts, DevKey, ZipExtract, MaterializeImages *)
(* and ExtractRoots, for any sizes, numbers of parts, processes and        *)
(* entries, any lists of images and roots, any profile of a build and any  *)
(* number of kills and failures, and of Stages as a whole.                 *)
(* For each program X: XInv implies its properties, XInitial says that it  *)
(* holds initially and XStep that every step preserves it.                 *)
(***************************************************************************)
EXTENDS Stages, DataLemmas

-----------------------------------------------------------------------------
(* Drive *)

\* The lock is free only while no curl writes, so there is never a second
\* one, and what is verified, or was, is written by nobody.
DriveInv ==
  /\ Drive!TypeOK
  /\ Drive!PublishedIsRight
  /\ curls <= 1
  /\ pc = "open" => curls = 0
  /\ pc = "publish" => partial.right

LEMMA DriveInitial == ASSUME Drive!DriveAssumption, Drive!Init PROVE DriveInv
<1>1. Drive!Empty \in [size : Drive!Sizes, right : BOOLEAN] /\ Drive!Empty.right /\ Drive!Empty.size = 0
  BY DEF Drive!DriveAssumption, Drive!Empty, Drive!Sizes
<1>2. Drive!TypeOK
  <2>1. 0 \in 0 .. MaxFaults /\ 0 \in 0 .. 2  BY DEF Drive!DriveAssumption
  <2>. QED  BY <1>1, <2>1 DEF Drive!Init, Drive!TypeOK, Drive!PC
<1>. QED  BY <1>1, <1>2 DEF Drive!DriveAssumption, Drive!Init, DriveInv, Drive!PublishedIsRight

LEMMA DriveStep ==
  ASSUME Drive!DriveAssumption, DriveInv, Drive!Next
  PROVE  DriveInv'
<1>. USE DEF Drive!DriveAssumption, DriveInv, Drive!TypeOK, Drive!PublishedIsRight,
             Drive!Empty, Drive!Sizes, Drive!PC
<1>1. CASE Drive!Start  BY <1>1 DEF Drive!Start
<1>2. CASE Drive!Open  BY <1>2 DEF Drive!Open
<1>3. CASE Drive!Append  BY <1>3 DEF Drive!Append
<1>4. CASE Drive!AppendWrong  BY <1>4 DEF Drive!AppendWrong, Drive!Fault
<1>5. CASE Drive!CurlEnds  BY <1>5 DEF Drive!CurlEnds
<1>6. CASE Drive!CurlFails  BY <1>6 DEF Drive!CurlFails, Drive!Fault
<1>7. CASE Drive!Verify  BY <1>7 DEF Drive!Verify
<1>8. CASE Drive!Publish  BY <1>8 DEF Drive!Publish
<1>9. CASE Drive!Kill  BY <1>9 DEF Drive!Kill, Drive!Fault
<1>. QED  BY <1>1, <1>2, <1>3, <1>4, <1>5, <1>6, <1>7, <1>8, <1>9
          DEF Drive!Next, Drive!Script, Drive!Curl
-----------------------------------------------------------------------------
(* Parts *)

\* What an assembler is about to commit was joined from all parts.
PartsInv ==
  /\ Parts!TypeOK
  /\ Parts!AssembledIsRight
  /\ pc = "fetched" => part \in Parts!Part
  /\ \A a \in Assembler : apc[a] = "commit" => found[a] = Parts!Part

LEMMA PartsInitial == ASSUME Parts!PartsAssumption, Parts!Init PROVE PartsInv
<1>1. 0 \in 0 .. MaxFaults /\ 0 \in 0 .. N  BY DEF Parts!PartsAssumption
<1>. QED  BY <1>1 DEF Parts!Init, PartsInv, Parts!TypeOK, Parts!AssembledIsRight

LEMMA PartsStep ==
  ASSUME Parts!PartsAssumption, PartsInv, Parts!Next
  PROVE  PartsInv'
<1>. USE DEF Parts!PartsAssumption, PartsInv, Parts!TypeOK, Parts!AssembledIsRight, Parts!Part
<1>1. ASSUME NEW s \in Source, Parts!Start(s) PROVE PartsInv'
  BY <1>1 DEF Parts!Start, Parts!Downloading
<1>2. CASE Parts!SkipExisting  BY <1>2 DEF Parts!SkipExisting, Parts!Downloading
<1>3. CASE Parts!Fetch  BY <1>3 DEF Parts!Fetch, Parts!Fault, Parts!Downloading
<1>4. CASE Parts!PublishPart  BY <1>4 DEF Parts!PublishPart, Parts!Downloading
<1>5. CASE Parts!StartManifest  BY <1>5 DEF Parts!StartManifest, Parts!Downloading
<1>6. CASE Parts!CopyManifest  BY <1>6 DEF Parts!CopyManifest, Parts!Downloading
<1>7. CASE Parts!Kill  BY <1>7 DEF Parts!Kill, Parts!Fault, Parts!Downloading
<1>8. ASSUME NEW a \in Assembler, NEW s \in Source, Parts!Discover(a, s) PROVE PartsInv'
  BY <1>8 DEF Parts!Discover, Parts!Assembling
<1>9. ASSUME NEW a \in Assembler, Parts!VerifyParts(a) PROVE PartsInv'
  <2>1. PICK l \in {"join", "idle"} : apc' = [apc EXCEPT ![a] = l]
    BY <1>9 DEF Parts!VerifyParts
  <2>. QED  BY <1>9, <2>1 DEF Parts!VerifyParts, Parts!Assembling
<1>10. ASSUME NEW a \in Assembler, Parts!Join(a) PROVE PartsInv'
  BY <1>10 DEF Parts!Join, Parts!Assembling
<1>11. ASSUME NEW a \in Assembler, Parts!Commit(a) PROVE PartsInv'
  BY <1>11 DEF Parts!Commit, Parts!Assembling
<1>12. ASSUME NEW a \in Assembler, Parts!KillAssembler(a) PROVE PartsInv'
  BY <1>12 DEF Parts!KillAssembler, Parts!Fault, Parts!Assembling
<1>. QED
  BY <1>1, <1>2, <1>3, <1>4, <1>5, <1>6, <1>7, <1>8, <1>9, <1>10, <1>11, <1>12
  DEF Parts!Next, Parts!Download, Parts!Assemble

-----------------------------------------------------------------------------
(* Key *)

Running(r) == keyPc[r] \notin Key!Ended

\* Where the only run under way is decides what is at the two paths.
PlaceOf(r) ==
  /\ keyPc[r] \in {"create", "generate", "replace_key"} => key = None /\ certificate = None
  /\ keyPc[r] = "replace_cert" => key = r /\ certificate = None
  /\ keyPc[r] \in {"verify", "compare"} => key # None /\ key = certificate
  /\ keyPc[r] = "compare" => sawKey[r] = key

KeyInv ==
  /\ Key!TypeOK
  /\ Key!PairAgrees
  /\ worker # None => Running(worker)
  /\ ~overlapped => /\ \A r, q \in Runs : Running(r) /\ Running(q) => r = q
                    /\ \A r \in Runs : PlaceOf(r)

LEMMA KeyInitial == ASSUME Key!KeyAssumption, Key!Init PROVE KeyInv
<1>1. 0 \in 0 .. MaxFaults  BY DEF Key!KeyAssumption
<1>. QED  BY <1>1 DEF Key!Init, KeyInv, Running, PlaceOf, Key!TypeOK, Key!PairAgrees, Key!Labels, Key!Ended

LEMMA KeyStep ==
  ASSUME Key!KeyAssumption, KeyInv, Key!Next
  PROVE  KeyInv'
<1>. USE DEF Key!KeyAssumption, KeyInv, Running, PlaceOf, Key!TypeOK, Key!PairAgrees,
             Key!Labels, Key!Ended, Key!files
<1>1. CASE Key!KillWorker  BY <1>1 DEF Key!KillWorker
<1>2. ASSUME NEW r \in Runs, Key!Start(r) PROVE KeyInv'
  BY <1>2 DEF Key!Start, Key!Alone
<1>3. ASSUME NEW r \in Runs, Key!Look(r) PROVE KeyInv'
  BY <1>3 DEF Key!Look, Key!Goto
<1>4. ASSUME NEW r \in Runs, Key!Create(r) PROVE KeyInv'
  BY <1>4 DEF Key!Create, Key!Goto
<1>5. ASSUME NEW r \in Runs, Key!Generate(r) PROVE KeyInv'
  BY <1>5 DEF Key!Generate, Key!Goto
<1>6. ASSUME NEW r \in Runs, Key!ReplaceKey(r) PROVE KeyInv'
  BY <1>6 DEF Key!ReplaceKey, Key!Goto
<1>7. ASSUME NEW r \in Runs, Key!ReplaceCertificate(r) PROVE KeyInv'
  BY <1>7 DEF Key!ReplaceCertificate, Key!Goto
<1>8. ASSUME NEW r \in Runs, Key!ReadKey(r) PROVE KeyInv'
  BY <1>8 DEF Key!ReadKey, Key!Goto
<1>9. ASSUME NEW r \in Runs, Key!Compare(r) PROVE KeyInv'
  BY <1>9 DEF Key!Compare, Key!Goto
<1>10. ASSUME NEW r \in Runs, Key!Fail(r) PROVE KeyInv'
  BY <1>10 DEF Key!Fail, Key!Goto
<1>11. ASSUME NEW r \in Runs, Key!Kill(r) PROVE KeyInv'
  BY <1>11 DEF Key!Kill, Key!Goto
<1>. QED
  BY <1>1, <1>2, <1>3, <1>4, <1>5, <1>6, <1>7, <1>8, <1>9, <1>10, <1>11 DEF Key!Next

-----------------------------------------------------------------------------
(* Zip *)

Largest == Max({EntrySize[e] : e \in Unzip!Entries})

LEMMA ZipEntries ==
  ASSUME Unzip!ZipAssumption
  PROVE  Unzip!Entries = 1 .. Len(EntrySize) /\ Len(EntrySize) \in Nat /\ 1 \in Unzip!Entries
BY DEF Unzip!ZipAssumption, Unzip!Entries

LEMMA ZipSizes ==
  ASSUME Unzip!ZipAssumption
  PROVE  /\ Largest \in Nat
         /\ \A e \in Unzip!Entries : EntrySize[e] \in Nat /\ EntrySize[e] <= Largest
         /\ MaxFaults * Largest <= Capacity
<1>. USE DEF Unzip!ZipAssumption
<1>1. Unzip!Entries = 1 .. Len(EntrySize) /\ 1 \in Unzip!Entries /\ Len(EntrySize) \in Nat
  BY ZipEntries
<1>2. IsFiniteSet(Unzip!Entries)
  BY <1>1, FS_Interval
<1>3. \A e \in Unzip!Entries : EntrySize[e] \in Nat
  BY <1>1
<1>. DEFINE S == {EntrySize[e] : e \in Unzip!Entries}
<1>4. IsFiniteSet(S)
  <2>. DEFINE f == [e \in Unzip!Entries |-> EntrySize[e]]
  <2>1. f \in Surjection(Unzip!Entries, S)
    BY DEF Surjection
  <2>. HIDE DEF f, S
  <2>. QED  BY <1>2, <2>1, FS_Surjection
<1>5. S \in SUBSET Int /\ S # {}
  BY <1>1, <1>3
<1>6. Max(S) \in S /\ \A y \in S : y <= Max(S)
  <2>. HIDE DEF S
  <2>. QED  BY <1>4, <1>5, MaxOfFinite
<1>7. Unzip!Max(S) = Max(S)
  BY DEF Unzip!Max, Max
<1>8. Unzip!Space(Unzip!Entries) \in Nat
  <2>1. EntrySize \in [Unzip!Entries -> Nat]
    BY <1>1, <1>3
  <2>2. MapThenSumSet(LAMBDA e : EntrySize[e], Unzip!Entries) \in Nat
    BY <1>2, <2>1, SumIsNatural
  <2>. QED  BY <2>2 DEF Unzip!Space, Unzip!MapThenSumSet, Unzip!MapThenFoldSet, MapThenSumSet, MapThenFoldSet
<1>9. MaxFaults * Max(S) \in Nat
  BY <1>3, <1>6
<1>10. Capacity >= 2 * Unzip!Space(Unzip!Entries) + Margin + MaxFaults * Max(S)
  BY <1>7
<1>11. MaxFaults * Max(S) <= Capacity
  BY <1>8, <1>9, <1>10
<1>. QED  BY <1>1, <1>3, <1>6, <1>11 DEF Largest

\* The ZIP a process reads entries from, and the entries it has found or made
\* right so far, as long as no ZIP was swapped between audit and opening.
SureOf(x) ==
  /\ zpc[x] \in {"room", "reopen"} => archive = "locked"
  /\ zpc[x] \in {"look", "copy", "publish", "done"} =>
       /\ opened[x] = "locked"
       /\ \A e \in Unzip!Entries : e < zat[x] \/ zpc[x] = "done" => entry[e] = "locked"

ZipInv ==
  /\ Unzip!TypeOK
  /\ Unzip!ManifestVouches
  /\ litter <= faults * Largest
  /\ ~swapped => \A x \in Extractors : SureOf(x)

LEMMA ZipInitial == ASSUME Unzip!ZipAssumption, Unzip!Init PROVE ZipInv
<1>1. 0 \in 0 .. MaxFaults /\ 0 \in 0 .. Capacity /\ Capacity \in Nat
  BY DEF Unzip!ZipAssumption
<1>2. 0 <= 0 * Largest
  BY ZipSizes
<1>. QED  BY <1>1, <1>2, ZipEntries DEF Unzip!Init, ZipInv, SureOf, Unzip!TypeOK, Unzip!ManifestVouches

LEMMA ZipNextEntry ==
  ASSUME Unzip!ZipAssumption, Unzip!TypeOK, NEW x \in Extractors, Unzip!NextEntry(x)
  PROVE  /\ zpc' \in [Extractors -> {"idle", "room", "reopen", "look", "copy", "publish", "done"}]
         /\ zat' \in [Extractors -> Unzip!Entries] /\ opened' = opened
         /\ \A y \in Extractors \ {x} : zpc'[y] = zpc[y] /\ zat'[y] = zat[y]
         /\ \/ zpc'[x] = "look" /\ zat'[x] = zat[x] + 1
            \/ zpc'[x] = "done" /\ \A e \in Unzip!Entries : e <= zat[x]
<1>1. zat[x] \in 1 .. Len(EntrySize) /\ Len(EntrySize) \in Nat
  BY ZipEntries DEF Unzip!TypeOK
<1>2. CASE zat[x] + 1 \in Unzip!Entries
  BY <1>1, <1>2 DEF Unzip!TypeOK, Unzip!NextEntry, Unzip!GoTo
<1>3. CASE zat[x] + 1 \notin Unzip!Entries
  BY <1>1, <1>3, ZipEntries DEF Unzip!TypeOK, Unzip!NextEntry, Unzip!GoTo
<1>. QED  BY <1>2, <1>3

LEMMA ZipEnds ==
  ASSUME Unzip!ZipAssumption, Unzip!TypeOK, NEW x \in Extractors, Unzip!Ends(x)
  PROVE  /\ zpc' \in [Extractors -> {"idle", "room", "reopen", "look", "copy", "publish", "done"}]
         /\ zat' \in [Extractors -> Unzip!Entries]
         /\ opened' \in [Extractors -> {"locked", "other"}]
         /\ zpc'[x] = "idle"
         /\ \A y \in Extractors \ {x} : zpc'[y] = zpc[y] /\ zat'[y] = zat[y] /\ opened'[y] = opened[y]
BY ZipEntries DEF Unzip!TypeOK, Unzip!Ends, Unzip!GoTo

LEMMA ZipStep ==
  ASSUME Unzip!ZipAssumption, ZipInv, Unzip!Next
  PROVE  ZipInv'
<1>. USE DEF ZipInv, SureOf, Unzip!ManifestVouches
<1>0. MaxFaults \in Nat /\ Capacity \in Nat  BY DEF Unzip!ZipAssumption
<1>1. ASSUME NEW x \in Extractors, Unzip!Audit(x) PROVE ZipInv'
  BY <1>1 DEF Unzip!Audit, Unzip!TypeOK, Unzip!GoTo
<1>2. ASSUME NEW x \in Extractors, Unzip!CheckRoom(x) PROVE ZipInv'
  BY <1>2 DEF Unzip!CheckRoom, Unzip!TypeOK, Unzip!GoTo
<1>3. ASSUME NEW x \in Extractors, Unzip!Reopen(x) PROVE ZipInv'
  BY <1>3, ZipEntries DEF Unzip!Reopen, Unzip!TypeOK, Unzip!GoTo
<1>4. ASSUME NEW x \in Extractors, Unzip!Look(x) PROVE ZipInv'
  <2>. UNCHANGED <<archive, entry, vouched, litter, swapped, faults>>
    BY <1>4 DEF Unzip!Look
  <2>1. CASE entry[zat[x]] = "absent" /\ Unzip!GoTo(x, "copy") /\ Unzip!Stays
    BY <2>1, <1>4 DEF Unzip!Look, Unzip!GoTo, Unzip!Stays, Unzip!TypeOK
  <2>2. CASE entry[zat[x]] = opened[x] /\ Unzip!NextEntry(x)
    <3>1. Unzip!TypeOK'  BY <2>2, ZipNextEntry DEF Unzip!TypeOK
    <3>2. ASSUME ~swapped, NEW y \in Extractors PROVE SureOf(y)'
      <4>1. CASE y = x
        BY <1>4, <2>2, <3>2, <4>1, ZipNextEntry, ZipEntries DEF Unzip!TypeOK, Unzip!Look
      <4>2. CASE y # x
        BY <2>2, <3>2, <4>2, ZipNextEntry DEF SureOf
      <4>. QED  BY <4>1, <4>2
    <3>. QED  BY <3>1, <3>2 DEF SureOf
  <2>3. CASE Unzip!Ends(x)
    BY <2>3, ZipEnds DEF Unzip!TypeOK
  <2>. QED  BY <1>4, <2>1, <2>2, <2>3 DEF Unzip!Look
<1>5. ASSUME NEW x \in Extractors, Unzip!Copy(x) PROVE ZipInv'
  <2>. UNCHANGED <<archive, entry, vouched, litter, swapped, faults>>
    BY <1>5 DEF Unzip!Copy
  <2>1. CASE Unzip!GoTo(x, "publish") /\ Unzip!Stays
    BY <2>1, <1>5 DEF Unzip!Copy, Unzip!GoTo, Unzip!Stays, Unzip!TypeOK
  <2>2. CASE Unzip!Ends(x)
    BY <2>2, ZipEnds DEF Unzip!TypeOK
  <2>. QED  BY <1>5, <2>1, <2>2 DEF Unzip!Copy
<1>6. ASSUME NEW x \in Extractors, Unzip!PublishEntry(x) PROVE ZipInv'
  <2>1. /\ zpc[x] = "publish" /\ Unzip!NextEntry(x)
        /\ entry' = [entry EXCEPT ![zat[x]] = opened[x]]
        /\ UNCHANGED <<archive, vouched, litter, swapped, faults>>
    BY <1>6 DEF Unzip!PublishEntry
  <2>2. Unzip!TypeOK'  BY <2>1, ZipNextEntry DEF Unzip!TypeOK
  <2>3. ASSUME ~swapped PROVE opened[x] = "locked" /\ Unzip!ManifestVouches'
    BY <2>1, <2>3 DEF Unzip!TypeOK
  <2>4. ASSUME ~swapped, NEW y \in Extractors PROVE SureOf(y)'
    <3>1. \A e \in Unzip!Entries : entry[e] = "locked" \/ e = zat[x] => entry'[e] = "locked"
      BY <2>1, <2>3, <2>4 DEF Unzip!TypeOK
    <3>2. CASE y = x
      <4>1. zat[x] \in Int /\ \A e \in Unzip!Entries : e \in Int
        BY ZipEntries DEF Unzip!TypeOK
      <4>2. \A e \in Unzip!Entries : e <= zat[x] => entry'[e] = "locked"
        BY <2>1, <2>4, <3>1, <4>1
      <4>3. /\ opened'[x] = "locked"
            /\ \/ zpc'[x] = "look" /\ zat'[x] = zat[x] + 1
               \/ zpc'[x] = "done" /\ \A e \in Unzip!Entries : e <= zat[x]
        BY <2>1, <2>3, <2>4, ZipNextEntry
      <4>. QED  BY <3>2, <4>1, <4>2, <4>3
    <3>3. CASE y # x
      BY <2>1, <2>4, <3>1, <3>3, ZipNextEntry DEF SureOf
    <3>. QED  BY <3>2, <3>3
  <2>. QED  BY <2>1, <2>2, <2>3, <2>4 DEF SureOf
<1>7. ASSUME NEW x \in Extractors, Unzip!WriteManifest(x) PROVE ZipInv'
  BY <1>7, ZipEnds DEF Unzip!WriteManifest, Unzip!TypeOK
<1>8. ASSUME NEW x \in Extractors, Unzip!ExtractorEnds(x) PROVE ZipInv'
  <2>1. /\ Unzip!Ends(x) /\ faults < MaxFaults /\ faults' = faults + 1
        /\ litter' \in {litter, litter + IF zpc[x] = "publish" THEN EntrySize[zat[x]] ELSE 0}
        /\ UNCHANGED <<archive, entry, vouched, swapped>>
    BY <1>8 DEF Unzip!ExtractorEnds, Unzip!Fault
  <2>2. faults \in Nat /\ litter \in Nat /\ zat[x] \in Unzip!Entries
    BY <1>0 DEF Unzip!TypeOK
  <2>3. litter' \in Nat /\ litter' <= litter + Largest
    BY <2>1, <2>2, ZipSizes
  <2>4. litter' <= faults' * Largest
    <3>1. (faults + 1) * Largest = faults * Largest + Largest
      BY <2>2, ZipSizes
    <3>2. faults * Largest \in Nat
      BY <2>2, ZipSizes
    <3>. QED  BY <2>1, <2>2, <2>3, <3>1, <3>2, ZipSizes
  <2>5. faults' * Largest <= MaxFaults * Largest
    <3>1. faults' \in Nat /\ faults' <= MaxFaults
      BY <1>0, <2>1, <2>2
    <3>. QED  BY <1>0, <3>1, ZipSizes, ProductGrows
  <2>6. litter' \in 0 .. Capacity
    <3>1. faults' * Largest \in Int /\ MaxFaults * Largest \in Int
      BY <1>0, <2>1, <2>2, ZipSizes
    <3>. QED  BY <1>0, <2>3, <2>4, <2>5, <3>1, ZipSizes
  <2>7. Unzip!TypeOK'
    BY <1>0, <2>1, <2>2, <2>6, ZipEnds DEF Unzip!TypeOK
  <2>. QED  BY <2>1, <2>4, <2>7, ZipEnds
<1>9. CASE Unzip!ReplaceArchive
  <2>1. Unzip!ReplaceArchive /\ faults \in Nat
    BY <1>9, <1>0 DEF Unzip!TypeOK
  <2>2. litter' <= faults' * Largest
    <3>1. (faults + 1) * Largest = faults * Largest + Largest /\ faults * Largest \in Nat
      BY <2>1, ZipSizes
    <3>. QED  BY <2>1, <3>1, ZipSizes DEF Unzip!ReplaceArchive, Unzip!Fault, Unzip!TypeOK
  <2>3. Unzip!TypeOK'
    BY <2>1, <1>0 DEF Unzip!ReplaceArchive, Unzip!Fault, Unzip!TypeOK
  <2>4. ~swapped' => ~swapped /\ \A x \in Extractors : zpc[x] \notin {"room", "reopen"}
    BY <2>1 DEF Unzip!ReplaceArchive, Unzip!TypeOK
  <2>. QED  BY <2>1, <2>2, <2>3, <2>4 DEF Unzip!ReplaceArchive
<1>10. CASE Unzip!RestoreArchive  BY <1>10 DEF Unzip!RestoreArchive, Unzip!TypeOK
<1>. QED
  BY <1>1, <1>2, <1>3, <1>4, <1>5, <1>6, <1>7, <1>8, <1>9, <1>10
  DEF Unzip!Next, Unzip!Working, Unzip!Extraction

-----------------------------------------------------------------------------
(* Images *)

LEMMA ImageLists ==
  ASSUME Images!ImagesAssumption
  PROVE  /\ \A r \in Images!Role :
              /\ Len(Images!List(r)) \in Nat \ {0}
              /\ Images!ToSet(Images!List(r)) =
                   {Images!List(r)[i] : i \in 1 .. Len(Images!List(r))}
              /\ Images!ToSet(Images!List(r)) \subseteq Images!Image
         /\ NoImage \notin Images!Image
         /\ Images!Image = Images!ToSet(BaseImages) \cup Images!ToSet(DonorImages)
<1>. USE DEF Images!ImagesAssumption
<1>1. /\ Len(BaseImages) \in Nat \ {0} /\ DOMAIN BaseImages = 1 .. Len(BaseImages)
      /\ Len(DonorImages) \in Nat \ {0} /\ DOMAIN DonorImages = 1 .. Len(DonorImages)
  OBVIOUS
<1>2. /\ Images!ToSet(BaseImages) = {BaseImages[i] : i \in 1 .. Len(BaseImages)}
      /\ Images!ToSet(DonorImages) = {DonorImages[i] : i \in 1 .. Len(DonorImages)}
  BY <1>1 DEF Images!ToSet
<1>3. Images!Image = Images!ToSet(BaseImages) \cup Images!ToSet(DonorImages)
  <2>. DEFINE S == Images!ToSet(BaseImages) \cup Images!ToSet(DonorImages)
              both == BaseImages \o DonorImages
  <2>1. BaseImages \in Seq(S) /\ DonorImages \in Seq(S)
    BY <1>2
  <2>2. /\ both \in Seq(S) /\ Len(both) = Len(BaseImages) + Len(DonorImages)
        /\ \A i \in 1 .. Len(BaseImages) : both[i] = BaseImages[i]
        /\ \A i \in 1 .. Len(DonorImages) : both[Len(BaseImages) + i] = DonorImages[i]
    <3>. HIDE DEF S
    <3>. QED  BY <2>1
  <2>3. DOMAIN both = 1 .. Len(BaseImages) + Len(DonorImages)
    BY <2>2
  <2>4. \A i \in DOMAIN both : both[i] \in S
    BY <2>2, <2>3
  <2>5. \A i \in 1 .. Len(BaseImages) : i \in DOMAIN both
    BY <1>1, <2>3
  <2>6. \A i \in 1 .. Len(DonorImages) : Len(BaseImages) + i \in DOMAIN both
    BY <1>1, <2>3
  <2>7. Images!ToSet(both) = {both[i] : i \in DOMAIN both}
    BY DEF Images!ToSet
  <2>8. Images!ToSet(both) \subseteq S
    BY <2>4, <2>7
  <2>9. S \subseteq Images!ToSet(both)
    <3>. HIDE DEF both
    <3>. QED  BY <1>2, <2>2, <2>5, <2>6, <2>7
  <2>. QED  BY <2>8, <2>9 DEF Images!Image
<1>. QED  BY <1>1, <1>2, <1>3 DEF Images!List, Images!Image, Images!Role

\* The images the loop of the script has been at are published; a finished
\* child of a live script has published the base image it was started for.
LoopInv ==
  /\ pc \in {"image", "child", "move", "tidy", "verify"} =>
       \A i \in 1 .. at - 1 : Images!List(mode)[i] \in images
  /\ pc = "extract" => at = 1
  /\ pc \in {"tidy", "verify"} => Images!Current \in images
  /\ pc = "child" /\ child = NoImage /\ mode = "base" => Images!Current \in images
  /\ pc = "report" => Images!Materialized(mode)
  /\ pc \in {"prune", "consume"} /\ mode = "donor" => imagesReport

ImagesInv == Images!TypeOK /\ Images!SourceGoesLast /\ Images!OneWriter /\ LoopInv

LEMMA ImagesInitial == ASSUME Images!ImagesAssumption, Images!Init PROVE ImagesInv
<1>1. 0 \in 0 .. MaxFaults  BY DEF Images!ImagesAssumption
<1>2. 1 \in 1 .. Len(Images!List("base"))  BY ImageLists DEF Images!Role
<1>3. Images!TypeOK
  BY <1>1, <1>2 DEF Images!Init, Images!TypeOK, Images!PC, Images!Role
<1>. QED
  BY <1>3 DEF Images!Init, ImagesInv, LoopInv, Images!SourceGoesLast, Images!OneWriter, Images!Role

\* The image the script is at is one of its role, and the last one completes
\* the role.
LEMMA ImageAt ==
  ASSUME Images!ImagesAssumption, Images!TypeOK
  PROVE  /\ Images!Current \in Images!ToSet(Images!List(mode))
         /\ Images!Current \in Images!Image /\ Images!Current # NoImage
         /\ mode = "base" => Images!Current \in Images!ToSet(BaseImages)
         /\ mode = "donor" => /\ Images!Current \in Images!ToSet(DonorImages)
                             /\ Images!Current \notin Images!ToSet(BaseImages)
         /\ (\A i \in 1 .. at : Images!List(mode)[i] \in images) /\ ~(at < Len(Images!List(mode)))
              => Images!Materialized(mode)
<1>1. /\ mode \in Images!Role /\ at \in 1 .. Len(Images!List(mode))
      /\ Len(Images!List(mode)) \in Nat
  BY ImageLists DEF Images!TypeOK
<1>2. Images!Current \in Images!ToSet(Images!List(mode))
  BY <1>1, ImageLists DEF Images!Current
<1>3. Images!Current \in Images!Image /\ Images!Current # NoImage
  BY <1>1, <1>2, ImageLists
<1>4. /\ mode = "base" => Images!Current \in Images!ToSet(BaseImages)
      /\ mode = "donor" => /\ Images!Current \in Images!ToSet(DonorImages)
                          /\ Images!Current \notin Images!ToSet(BaseImages)
  BY <1>2 DEF Images!List, Images!ImagesAssumption
<1>5. ASSUME \A i \in 1 .. at : Images!List(mode)[i] \in images, ~(at < Len(Images!List(mode)))
      PROVE  Images!Materialized(mode)
  BY <1>1, <1>5, ImageLists DEF Images!Materialized
<1>. QED  BY <1>2, <1>3, <1>4, <1>5

LEMMA ImagesStep ==
  ASSUME Images!ImagesAssumption, ImagesInv, Images!Next
  PROVE  ImagesInv'
<1>. USE DEF ImagesInv, LoopInv, Images!SourceGoesLast, Images!OneWriter
<1>0. MaxFaults \in Nat /\ mode \in Images!Role /\ at \in 1 .. Len(Images!List(mode))
  BY DEF Images!ImagesAssumption, Images!TypeOK
<1>1. ASSUME NEW r \in Images!Role, NEW c \in BOOLEAN, Images!Start(r, c) PROVE ImagesInv'
  BY <1>1, ImageLists DEF Images!Start, Images!TypeOK, Images!Materialized, Images!PC
<1>2. CASE Images!Extract
  BY <1>2, <1>0, ImageLists DEF Images!Extract, Images!TypeOK, Images!Materialized, Images!PC, Images!Current
<1>3. CASE Images!ReuseImage
  BY <1>3, <1>0 DEF Images!ReuseImage, Images!TypeOK, Images!Materialized, Images!PC, Images!Current
<1>4. CASE Images!StartChild
  BY <1>4, <1>0, ImageAt DEF Images!StartChild, Images!TypeOK, Images!Materialized, Images!PC, Images!Current
<1>5. CASE Images!ChildPublishes
  BY <1>5, <1>0, ImageAt, ImageLists DEF Images!ChildPublishes, Images!TypeOK, Images!Materialized, Images!PC, Images!Current
<1>6. CASE Images!ChildFails
  BY <1>6, <1>0 DEF Images!ChildFails, Images!Fault, Images!TypeOK, Images!Materialized, Images!PC, Images!Current
<1>7. CASE Images!ChildReturns
  BY <1>7, <1>0 DEF Images!ChildReturns, Images!TypeOK, Images!Materialized, Images!PC, Images!Current
<1>8. CASE Images!Move
  BY <1>8, <1>0, ImageAt DEF Images!Move, Images!TypeOK, Images!Materialized, Images!PC, Images!Current
<1>9. CASE Images!Tidy
  BY <1>9, <1>0 DEF Images!Tidy, Images!TypeOK, Images!Materialized, Images!PC, Images!Current
<1>10. CASE Images!Verify
  BY <1>10, <1>0, ImageAt DEF Images!Verify, Images!TypeOK, Images!Materialized, Images!PC, Images!Current
<1>11. CASE Images!Report
  BY <1>11, <1>0, ImageLists DEF Images!Report, Images!TypeOK, Images!Materialized, Images!PC, Images!Current
<1>12. CASE Images!Prune
  BY <1>12, <1>0 DEF Images!Prune, Images!TypeOK, Images!Materialized, Images!PC, Images!Current
<1>13. CASE Images!Consume
  BY <1>13, <1>0 DEF Images!Consume, Images!TypeOK, Images!Materialized, Images!PC, Images!Current
<1>14. CASE Images!Kill
  BY <1>14, <1>0 DEF Images!Kill, Images!Fault, Images!TypeOK, Images!Materialized, Images!PC, Images!Current
<1>. QED
  BY <1>1, <1>2, <1>3, <1>4, <1>5, <1>6, <1>7, <1>8, <1>9, <1>10, <1>11, <1>12, <1>13, <1>14
  DEF Images!Next, Images!Step

-----------------------------------------------------------------------------
(* Roots *)

LEMMA RootList ==
  ASSUME Extract!RootsAssumption
  PROVE  /\ Len(Roots) \in Nat \ {0}
         /\ Extract!Root = {Roots[i] : i \in 1 .. Len(Roots)}
<1>1. Len(Roots) \in Nat \ {0} /\ DOMAIN Roots = 1 .. Len(Roots)
  BY DEF Extract!RootsAssumption
<1>. QED  BY <1>1 DEF Extract!Root, Extract!ToSet

\* The roots the loop of the extractor has been at are marked, and what
\* inspect-inputs looks at is the whole selection and its list.
ExtractorInv ==
  /\ pc \in {"root", "dump", "publish", "mark"} => \A i \in 1 .. at - 1 : Roots[i] \in marker
  /\ pc = "dump" => Extract!Current \notin marker
  /\ pc = "mark" => Extract!Current \in root
  /\ pc = "inspect" => /\ selected = Selection
                       /\ Extract!Files(Selection, {}) \subseteq list
                       /\ list \subseteq Extract!Files(Selection, partials)

RootsInv ==
  /\ Extract!TypeOK /\ Extract!MarkerVouches /\ Extract!OneOfEach /\ Extract!GateIsEarned
  /\ ExtractorInv

\* The more is in place and left over, the more is there to be listed.
LEMMA FilesMonotonic ==
  \A whole, left : \A more \in SUBSET whole, fewer \in SUBSET left :
    Extract!Files(more, fewer) \subseteq Extract!Files(whole, left)
BY DEF Extract!Files

LEMMA RootsInitial == ASSUME Extract!RootsAssumption, Extract!Init PROVE RootsInv
<1>1. 0 \in 0 .. MaxFaults /\ 1 \in 1 .. Len(Roots)
  BY RootList DEF Extract!RootsAssumption
<1>2. Extract!TypeOK
  BY <1>1 DEF Extract!Init, Extract!TypeOK, Extract!PC
<1>. QED
  BY <1>2 DEF Extract!Init, RootsInv, ExtractorInv, Extract!MarkerVouches, Extract!OneOfEach,
              Extract!GateIsEarned

LEMMA RootsStep ==
  ASSUME Extract!RootsAssumption, RootsInv, Extract!Next
  PROVE  RootsInv'
<1>. USE DEF RootsInv, ExtractorInv, Extract!TypeOK, Extract!MarkerVouches, Extract!OneOfEach,
             Extract!GateIsEarned, Extract!PC, Extract!Current
<1>0. /\ MaxFaults \in Nat /\ at \in 1 .. Len(Roots) /\ Roots[at] \in Extract!Root
      /\ \A x \in Extract!Root : \E i \in 1 .. Len(Roots) : x = Roots[i]
      /\ Len(Roots) \in Nat \ {0}
  BY RootList DEF Extract!RootsAssumption
<1>1. CASE Extract!Start  BY <1>1, <1>0 DEF Extract!Start
<1>2. CASE Extract!ReuseRoot
  <2>1. CASE Extract!Current \in marker /\ at < Len(Roots)
    BY <1>2, <2>1, <1>0 DEF Extract!ReuseRoot, Extract!NextRoot
  <2>2. CASE Extract!Current \in marker /\ ~(at < Len(Roots))
    <3>1. \A i \in 1 .. Len(Roots) : i \in 1 .. at - 1 \/ i = at
      BY <2>2, <1>0
    <3>2. marker = Extract!Root
      BY <1>2, <2>2, <3>1, <1>0, ZenonT(30) DEF Extract!ReuseRoot
    <3>. QED  BY <1>2, <2>2, <3>2, <1>0 DEF Extract!ReuseRoot, Extract!NextRoot
  <2>3. CASE Extract!Current \notin marker
    BY <1>2, <2>3, <1>0 DEF Extract!ReuseRoot
  <2>. QED  BY <2>1, <2>2, <2>3
<1>3. CASE Extract!StartDump  BY <1>3, <1>0 DEF Extract!StartDump
<1>4. CASE Extract!DumpEnds  BY <1>4, <1>0 DEF Extract!DumpEnds
<1>5. CASE Extract!Publish  BY <1>5, <1>0 DEF Extract!Publish
<1>6. CASE Extract!WriteMarker  BY <1>6, <1>0 DEF Extract!WriteMarker, Extract!NextRoot
<1>7. CASE Extract!StartSelection  BY <1>7, <1>0 DEF Extract!StartSelection
<1>8. CASE Extract!Inspect  BY <1>8, <1>0 DEF Extract!Inspect
<1>9. ASSUME NEW x \in Selection, Extract!Select(x) PROVE RootsInv'
  BY <1>9, <1>0 DEF Extract!Select
<1>10. CASE Extract!SelectionEnds
  BY <1>10, <1>0, FilesMonotonic DEF Extract!SelectionEnds
<1>11. CASE Extract!SelectionFails
  <2>1. partials \subseteq partials' /\ partials' \in SUBSET Selection
    BY <1>11 DEF Extract!SelectionFails
  <2>2. Extract!Files(Selection, partials) \subseteq Extract!Files(Selection, partials')
    BY <2>1, FilesMonotonic
  <2>3. /\ selectors > 0 /\ selectors' = selectors - 1 /\ faults' \in 0 .. MaxFaults
        /\ pc' = IF pc = "wait" THEN "idle" ELSE pc
        /\ UNCHANGED <<root, marker, selected, list, gate, at, dumper>>
    BY <1>11, <1>0 DEF Extract!SelectionFails, Extract!Fault
  <2>. QED  BY <2>1, <2>2, <2>3, <1>0
<1>12. CASE Extract!Kill  BY <1>12, <1>0 DEF Extract!Kill, Extract!Fault
<1>13. CASE Extract!DumpFails
  <2>1. pc' = "idle" /\ dumper' = FALSE /\ faults' \in 0 .. MaxFaults
    BY <1>13, <1>0 DEF Extract!DumpFails, Extract!Fault
  <2>. QED  BY <1>13, <2>1 DEF Extract!DumpFails
<1>. QED
  BY <1>1, <1>2, <1>3, <1>4, <1>5, <1>6, <1>7, <1>8, <1>9, <1>10, <1>11, <1>12, <1>13
  DEF Extract!Next, Extract!Extractor, Extract!Selector

-----------------------------------------------------------------------------
(* Build: what BuildTree_proofs says, of the instance of Stages *)

Built == INSTANCE BuildTree_proofs

LEMMA BuildIsBuilt ==
  /\ Build!BuildAssumption <=> Built!BuildAssumption
  /\ Build!Init <=> Built!Init
  /\ Build!Next <=> Built!Next
  /\ Build!vars = Built!vars
BY DEF Build!BuildAssumption, Built!BuildAssumption, Build!Init, Built!Init, Build!vars, Built!vars,
  Build!Next, Built!Next, Build!Step, Built!Step, Build!Begin, Built!Begin,
  Build!StageBase, Built!StageBase, Build!RecordStaged, Built!RecordStaged, Build!Check, Built!Check,
  Build!Remove, Built!Remove, Build!Cleared, Built!Cleared, Build!Link, Built!Link,
  Build!NextCopy, Built!NextCopy, Build!Linked, Built!Linked,
  Build!RecordTransplanted, Built!RecordTransplanted, Build!PatchDraft, Built!PatchDraft,
  Build!PatchPublish, Built!PatchPublish, Build!RecordPatched, Built!RecordPatched,
  Build!SignDraft, Built!SignDraft, Build!SignSave, Built!SignSave, Build!SignPublish, Built!SignPublish,
  Build!SignPreserve, Built!SignPreserve, Build!RecordSigned, Built!RecordSigned,
  Build!Verify, Built!Verify, Build!VerifyAccepts, Built!VerifyAccepts, Build!Fault, Built!Fault,
  Build!Kill, Built!Kill, Build!Raise, Built!Raise, Build!Present, Built!Present,
  Build!Plan, Built!Plan, Build!Last, Built!Last, Build!Resume, Built!Resume,
  Build!BaseTree, Built!BaseTree, Build!Record, Built!Record

LEMMA BuildProperties ==
  /\ Built!TypeOK => Build!TypeOK
  /\ Built!PhaseIsEarned => Build!PhaseIsEarned
BY DEF Build!TypeOK, Built!TypeOK, Build!Phase, Built!Phase, Build!Content, Built!Content,
  Build!PC, Built!PC, Build!Last, Built!Last, Build!Plan, Built!Plan,
  Build!PhaseIsEarned, Built!PhaseIsEarned, Build!Expected, Built!Expected,
  Build!WithPatches, Built!WithPatches, Build!Transplanted, Built!Transplanted,
  Build!BaseTree, Built!BaseTree

-----------------------------------------------------------------------------
(* The programs side by side *)

\* The tree and the phase of a build that is not run stay what they are.
BuildAsleep == phase = "none" /\ \A f \in Path : tree[f] = "absent"

IInv ==
  /\ tool = "drive"  => DriveInv
  /\ tool = "parts"  => PartsInv
  /\ tool = "key"    => KeyInv
  /\ tool = "zip"    => ZipInv
  /\ tool = "images" => ImagesInv
  /\ tool = "roots"  => RootsInv
  /\ tool = "build"  => Built!IInv
  /\ tool # "build"  => BuildAsleep

LEMMA InitIInv == ASSUME Assumption, Init PROVE IInv
<1>1. Built!BuildAssumption /\ Built!Init
  BY BuildIsBuilt DEF Assumption, Init
<1>2. Built!IInv
  BY <1>1, Built!InitIInv
<1>3. BuildAsleep
  BY DEF Init, Build!Init, BuildAsleep
<1>. QED
  BY <1>2, <1>3, DriveInitial, PartsInitial, KeyInitial, ZipInitial, ImagesInitial, RootsInitial
  DEF Init, Assumption, IInv

\* Another program's step leaves everything of a program alone.
LEMMA NextIInv == ASSUME Assumption, IInv, [Next]_vars PROVE IInv'
<1>. USE DEF IInv, Assumption
<1>1. CASE OfDrive(Drive!Next)
  BY <1>1, DriveStep DEF OfDrive, BuildAsleep, buildOnly
<1>2. CASE OfParts(Parts!Next)
  BY <1>2, PartsStep DEF OfParts, BuildAsleep, buildOnly
<1>3. CASE OfKey(Key!Next)
  BY <1>3, KeyStep DEF OfKey, BuildAsleep, buildOnly
<1>4. CASE OfZip(Unzip!Next)
  BY <1>4, ZipStep DEF OfZip, BuildAsleep, buildOnly
<1>5. CASE OfImages(Images!Next)
  BY <1>5, ImagesStep DEF OfImages, BuildAsleep, buildOnly
<1>6. CASE OfRoots(Extract!Next)
  BY <1>6, RootsStep DEF OfRoots, BuildAsleep, buildOnly
<1>7. CASE OfBuild(Build!Next)
  <2>1. Built!BuildAssumption /\ Built!Next /\ tool = "build" /\ tool' = tool
    BY <1>7, BuildIsBuilt DEF OfBuild
  <2>2. Built!IInv'
    BY <2>1, Built!NextIInv
  <2>. QED  BY <2>1, <2>2
<1>8. CASE UNCHANGED vars
  <2>1. Built!IInv => Built!IInv'
    <3>1. UNCHANGED Built!vars
      BY <1>8 DEF vars, buildOnly, Built!vars
    <3>. QED  BY <3>1, BuildIsBuilt, Built!NextIInv
  <2>2. DriveInv => DriveInv'
    BY <1>8 DEF vars, driveOnly, DriveInv, Drive!TypeOK, Drive!PublishedIsRight
  <2>3. PartsInv => PartsInv'
    BY <1>8 DEF vars, partsOnly, PartsInv, Parts!TypeOK, Parts!AssembledIsRight
  <2>4. KeyInv => KeyInv'
    BY <1>8 DEF vars, keyOnly, KeyInv, PlaceOf, Running, Key!TypeOK, Key!PairAgrees
  <2>5. ZipInv => ZipInv'
    BY <1>8 DEF vars, zipOnly, ZipInv, SureOf, Unzip!TypeOK, Unzip!ManifestVouches
  <2>6. ImagesInv => ImagesInv'
    BY <1>8 DEF vars, imagesOnly, ImagesInv, LoopInv, Images!TypeOK, Images!SourceGoesLast,
                Images!OneWriter, Images!Materialized, Images!Current, Images!List
  <2>7. RootsInv => RootsInv'
    BY <1>8 DEF vars, rootsOnly, RootsInv, ExtractorInv, Extract!TypeOK, Extract!MarkerVouches,
                Extract!OneOfEach, Extract!GateIsEarned, Extract!Current
  <2>8. BuildAsleep => BuildAsleep'
    BY <1>8 DEF vars, buildOnly, BuildAsleep
  <2>. QED  BY <1>8, <2>1, <2>2, <2>3, <2>4, <2>5, <2>6, <2>7, <2>8 DEF vars
<1>. QED  BY <1>1, <1>2, <1>3, <1>4, <1>5, <1>6, <1>7, <1>8 DEF Next

-----------------------------------------------------------------------------
(* The theorems *)

\* Every reachable state of every program satisfies its invariant.
THEOREM IInvHolds == Spec => []IInv
<1>1. Init => IInv  BY Assumption, InitIInv
<1>2. IInv /\ [Next]_vars => IInv'  BY Assumption, NextIInv
<1>. QED  BY <1>1, <1>2, PTL DEF Spec

\* The variables of the program that runs keep the types its code gives them;
\* so the disk always has the room portctl extract asked for.
THEOREM TypesKept == Spec => []TypeOK
<1>1. IInv => TypeOK
  BY BuildProperties
  DEF IInv, TypeOK, DriveInv, PartsInv, KeyInv, ZipInv, ImagesInv, RootsInv, Built!IInv
<1>. QED  BY <1>1, IInvHolds, PTL

\* Downloads, assembled parts and extracted entries are the locked ones, with
\* any number of assemblers, extractors and kills, and whoever was killed.
THEOREM SourcesRight == Spec => []SourcesAreRight
<1>1. IInv => SourcesAreRight
  BY DEF IInv, SourcesAreRight, DriveInv, PartsInv, ZipInv
<1>. QED  BY <1>1, IInvHolds, PTL

\* The key and the certificate of init-dev-key belong together, and reported
\* ones stay, as long as no two runs overlap.
THEOREM PairsAgree == Spec => []PairAgrees
<1>1. IInv => PairAgrees
  BY DEF IInv, PairAgrees, KeyInv
<1>. QED  BY <1>1, IInvHolds, PTL

\* materialize-case4-images.sh removes a layer or a source only after all
\* images made of it are published, for any lists of images.
THEOREM SourcesGoLast == Spec => []SourceGoesLast
<1>1. IInv => SourceGoesLast
  BY DEF IInv, SourceGoesLast, ImagesInv
<1>. QED  BY <1>1, IInvHolds, PTL

\* A script and what a killed one left running never work on the same thing.
THEOREM ScriptsApart == Spec => []ScriptsExclude
<1>1. IInv => ScriptsExclude
  BY DEF IInv, ScriptsExclude, ImagesInv, RootsInv
<1>. QED  BY <1>1, IInvHolds, PTL

\* Markers of extract-case4-roots.sh stand for whole roots, and the input gate
\* for all roots and the selection.
THEOREM InputsVouched == Spec => []InputsAreVouched
<1>1. IInv => InputsAreVouched
  BY DEF IInv, InputsAreVouched, RootsInv
<1>. QED  BY <1>1, IInvHolds, PTL

\* The phase buildctl records is earned by the tree, for any profile.
THEOREM PhasesEarned == Spec => []PhaseIsEarned
<1>1. IInv => PhaseIsEarned
  BY BuildProperties DEF IInv, PhaseIsEarned, Built!IInv
<1>. QED  BY <1>1, IInvHolds, PTL

\* A complete tree is never changed and a development signature never lost or
\* made again.
THEOREM SignaturesKept == Spec => SignaturesStay
<1>. DEFINE Stays == /\ phase = "complete" => tree' = tree /\ phase' = "complete"
                     /\ \A f \in Platform :
                          tree[f] = "signed" => tree'[f] = "signed" /\ draft' # f
<1>1. ASSUME IInv, [Next]_vars PROVE [Stays]_(Build!vars)
  <2>1. CASE tool = "build" /\ Next
    <3>1. Built!BuildAssumption /\ Built!IInv /\ Built!Next
      BY <1>1, <2>1, Assumption, BuildIsBuilt
      DEF IInv, Next, Assumption, OfDrive, OfParts, OfKey, OfZip, OfImages, OfRoots, OfBuild
    <3>2. [Stays]_(Built!vars)
      BY <3>1, Built!SignatureStep
    <3>. QED  BY <3>2 DEF Build!vars, Built!vars
  <2>2. CASE tool # "build" /\ Next
    <3>1. Platform \subseteq Path
      BY Assumption DEF Assumption, Build!BuildAssumption
    <3>2. BuildAsleep
      BY <1>1, <2>2 DEF IInv
    <3>. QED  BY <3>1, <3>2 DEF BuildAsleep
  <2>3. CASE UNCHANGED vars
    BY <2>3 DEF vars, buildOnly, Build!vars
  <2>. QED  BY <1>1, <2>1, <2>2, <2>3
<1>. QED  BY <1>1, IInvHolds, PTL DEF Spec, SignaturesStay, Build!SignaturesStay

\* The recorded phases are the stages of a durable pipeline, whichever program
\* runs beside it.
THEOREM PhasesImplemented == Spec => ImplementsPhases
<1>1. /\ Build!Phases!Init <=> Built!Phases!Init
      /\ Build!Phases!Next <=> Built!Phases!Next
  BY DEF Build!Phases!Init, Built!Phases!Init, Build!Phases!Next, Built!Phases!Next,
         Build!Phases!Stages, Built!Phases!Stages, Build!Phases!Record, Built!Phases!Record,
         Build!Phases!LoseTail, Built!Phases!LoseTail, Build!PhaseOrder, Built!PhaseOrder,
         Build!Reached, Built!Reached
<1>2. ASSUME Init PROVE Build!Phases!Init
  <2>1. \A k \in 1 .. 6 : ~Build!Reached(k)
    BY <1>2 DEF Init, Build!Init, Build!Reached, Build!PhaseOrder
  <2>. QED  BY <2>1 DEF Build!Phases!Init, Build!Phases!Stages, Build!PhaseOrder
<1>3. ASSUME IInv, [Next]_vars
      PROVE  [Build!Phases!Next]_(Built!Recorded)
  <2>1. CASE tool = "build" /\ Next
    <3>1. Built!BuildAssumption /\ Built!IInv /\ Built!Next
      BY <1>3, <2>1, Assumption, BuildIsBuilt
      DEF IInv, Next, Assumption, OfDrive, OfParts, OfKey, OfZip, OfImages, OfRoots, OfBuild
    <3>. QED  BY <3>1, <1>1, Built!PhasesStep
  <2>2. CASE UNCHANGED phase
    BY <2>2 DEF Built!Recorded, Built!Reached
  <2>3. CASE tool # "build" /\ Next
    BY <2>2, <2>3 DEF Next, buildOnly, OfDrive, OfParts, OfKey, OfZip, OfImages, OfRoots, OfBuild
  <2>4. CASE UNCHANGED vars
    BY <2>2, <2>4 DEF vars, buildOnly
  <2>. QED  BY <1>3, <2>1, <2>3, <2>4
<1>. QED
  BY <1>2, <1>3, IInvHolds, PTL
  DEF Spec, ImplementsPhases, Build!ImplementsPhases, Build!Phases!Spec, Built!Recorded,
      Built!PhaseOrder, Build!PhaseOrder, Built!Reached, Build!Reached
=============================================================================
