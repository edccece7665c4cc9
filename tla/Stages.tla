-------------------------------- MODULE Stages --------------------------------
(***************************************************************************)
(* The programs that bring the sources and execute the stages of the       *)
(* runner: DriveDownload, SourceParts, DevKey, ZipExtract,                 *)
(* MaterializeImages, ExtractRoots and BuildTree.  They share no state, so *)
(* they stand side by side: a behavior is one of one of them.              *)
(***************************************************************************)
EXTENDS Integers, Sequences

CONSTANTS
  Tools,     \* those to check: "drive", "parts", "key", "zip", "images", "roots", "build"
  ExpectedSize, Source, N, Assembler,                               \* sources
  Runs, None,                                                       \* key
  Extractors, EntrySize, Capacity, Margin,                          \* zip
  BaseImages, DonorImages, NoImage, Roots, Selection,               \* images, roots
  Path, System, Base, Donor, Protected, Retained, Replaced, Chosen, \* build
  Selected, Duplicate, Preopt, Patched, Apk, Platform, LockedFrom, NoPath,
  MaxFaults

VARIABLES
  tool,
  destination, partial, misled, curls,                              \* DriveDownload
  parts, manifest, output, prefix, part, got, apc, which, found,    \* SourceParts
  key, certificate, keyPc, sawKey, report, worker, overlapped,      \* DevKey
  archive, entry, vouched, litter, zpc, zat, opened, swapped,       \* ZipExtract
  source, layer, images, lp, imagesReport, mode, consume, child,    \* MaterializeImages
  root, marker, selected, partials, list, gate, dumper, selectors,  \* ExtractRoots
  phase, standalone, tree, signed, junk, draft, todo,               \* BuildTree
  pc, at, faults    \* of the tool; the faults of all

driveOnly  == <<destination, partial, misled, curls>>
partsOnly  == <<parts, manifest, output, prefix, part, got, apc, which, found>>
keyOnly    == <<key, certificate, keyPc, sawKey, report, worker, overlapped>>
zipOnly    == <<archive, entry, vouched, litter, zpc, zat, opened, swapped>>
imagesOnly == <<source, layer, images, lp, imagesReport, mode, consume, child>>
rootsOnly  == <<root, marker, selected, partials, list, gate, dumper, selectors>>
buildOnly  == <<phase, standalone, tree, signed, junk, draft, todo>>
vars == <<tool, driveOnly, partsOnly, keyOnly, zipOnly, imagesOnly, rootsOnly, buildOnly,
          pc, at, faults>>

Drive   == INSTANCE DriveDownload
Parts   == INSTANCE SourceParts WITH at <- part
Key     == INSTANCE DevKey WITH pc <- keyPc
Unzip   == INSTANCE ZipExtract
Images  == INSTANCE MaterializeImages WITH report <- imagesReport
Extract == INSTANCE ExtractRoots
Build   == INSTANCE BuildTree

ASSUME Assumption ==
  /\ Drive!DriveAssumption /\ Parts!PartsAssumption /\ Key!KeyAssumption
  /\ Unzip!ZipAssumption
  /\ Images!ImagesAssumption /\ Extract!RootsAssumption /\ Build!BuildAssumption

\* Where it does not matter, every assembler is at the same source.
Init ==
  /\ tool \in Tools
  /\ Drive!Init /\ Parts!Init /\ Key!Init /\ Unzip!Init /\ Images!Init /\ Extract!Init /\ Build!Init
  /\ tool # "parts" => /\ prefix = CHOOSE s \in Source : TRUE
                       /\ \A a \in Assembler : which[a] = prefix

OfDrive(A) ==
  /\ tool = "drive" /\ A
  /\ UNCHANGED <<tool, partsOnly, keyOnly, zipOnly, imagesOnly, rootsOnly, buildOnly, at>>
OfParts(A) ==
  /\ tool = "parts" /\ A
  /\ UNCHANGED <<tool, driveOnly, keyOnly, zipOnly, imagesOnly, rootsOnly, buildOnly, at>>
OfKey(A) ==
  /\ tool = "key" /\ A
  /\ UNCHANGED <<tool, driveOnly, partsOnly, zipOnly, imagesOnly, rootsOnly, buildOnly, pc, at>>
OfZip(A) ==
  /\ tool = "zip" /\ A
  /\ UNCHANGED <<tool, driveOnly, partsOnly, keyOnly, imagesOnly, rootsOnly, buildOnly, pc, at>>
OfImages(A) ==
  /\ tool = "images" /\ A
  /\ UNCHANGED <<tool, driveOnly, partsOnly, keyOnly, zipOnly, rootsOnly, buildOnly>>
OfRoots(A) ==
  /\ tool = "roots" /\ A
  /\ UNCHANGED <<tool, driveOnly, partsOnly, keyOnly, zipOnly, imagesOnly, buildOnly>>
OfBuild(A) ==
  /\ tool = "build" /\ A
  /\ UNCHANGED <<tool, driveOnly, partsOnly, keyOnly, zipOnly, imagesOnly, rootsOnly>>

Next ==
  \/ OfDrive(Drive!Next) \/ OfParts(Parts!Next) \/ OfKey(Key!Next)
  \/ OfZip(Unzip!Next) \/ OfImages(Images!Next)
  \/ OfRoots(Extract!Next) \/ OfBuild(Build!Next)

Spec == Init /\ [][Next]_vars

\* The scheduler runs scripts and their children, and the server answers.
\* Somebody starts downloads, assemblies and builds again, some extraction
\* goes on or its source ZIP is put back, and an attempt to
\* materialize is repeated until the images of its role are there (the stage
\* that materialize_images of tools/case5ctl.py executes); nobody has to start
\* an extractor.
LiveSpec ==
  /\ Spec
  /\ WF_vars(OfDrive(Drive!Script)) /\ WF_vars(OfDrive(Drive!Curl))
  /\ SF_vars(OfDrive(Drive!Start))
  /\ WF_vars(OfParts(Parts!Download))
  /\ \A s \in Source : SF_vars(OfParts(Parts!Start(s)))
  /\ \A a \in Assembler :
       /\ WF_vars(OfParts(Parts!Assemble(a)))
       /\ \A s \in Source : SF_vars(OfParts(Parts!Discover(a, s)))
  /\ WF_vars(OfZip(Unzip!Working))
  /\ WF_vars(OfImages(Images!Step))
  /\ WF_vars(OfImages(Images!ChildPublishes))
  /\ \A r \in Images!Role : SF_vars(OfImages(Images!Again(r)))
  /\ WF_vars(OfRoots(Extract!Extractor))
  /\ WF_vars(OfRoots(Extract!DumpEnds))
  /\ WF_vars(OfRoots(Extract!Selector))
  /\ WF_vars(OfBuild(Build!Step)) /\ WF_vars(OfBuild(Build!Begin))

\* The variables of the program that runs have the types its code gives them.
TypeOK ==
  /\ tool = "drive"  => Drive!TypeOK
  /\ tool = "parts"  => Parts!TypeOK
  /\ tool = "key"    => Key!TypeOK
  /\ tool = "zip"    => Unzip!TypeOK
  /\ tool = "images" => Images!TypeOK
  /\ tool = "roots"  => Extract!TypeOK
  /\ tool = "build"  => Build!TypeOK

\* Drive!PublishedIsRight of download-drive-file.sh, and Parts!AssembledIsRight
\* of download-drive-parts.sh and portctl assemble: both ways to a source ZIP
\* publish the right one only.  Unzip!ManifestVouches of portctl extract: so
\* does the extraction with the entries of the ZIP.
SourcesAreRight ==
  /\ tool = "drive" => Drive!PublishedIsRight
  /\ tool = "parts" => Parts!AssembledIsRight
  /\ tool = "zip"   => Unzip!ManifestVouches

\* Drive!Downloads, Parts!Assembles and Unzip!Extracts: repeated attempts
\* publish the ZIP and its entries.
SourcesArrive ==
  /\ tool = "drive" => Drive!Downloads
  /\ tool = "parts" => Parts!Assembles
  /\ tool = "zip"   => Unzip!Extracts

\* Key!PairAgrees of buildctl.py init-dev-key.
PairAgrees == tool = "key" => Key!PairAgrees

\* Key!KeyIsPersistent of buildctl.py init-dev-key, run by case5ctl.py.
KeyIsPersistent == tool = "key" => Key!KeyIsPersistent

\* Images!SourceGoesLast of materialize-case4-images.sh.
SourceGoesLast == tool = "images" => Images!SourceGoesLast

\* Images!BaseMaterializes of materialize-case4-images.sh.
BaseMaterializes == tool = "images" => Images!BaseMaterializes

\* Images!DonorMaterializes of materialize-case4-images.sh.
DonorMaterializes == tool = "images" => Images!DonorMaterializes

\* Images!OneWriter of materialize-case4-images.sh, and Extract!OneOfEach of
\* extract-case4-roots.sh and extract-case3-selection.sh: the locks keep the
\* scripts and the children of killed ones apart.
ScriptsExclude ==
  /\ tool = "images" => Images!OneWriter
  /\ tool = "roots" => Extract!OneOfEach

\* Extract!MarkerVouches and Extract!GateIsEarned of extract-case4-roots.sh:
\* a marker stands for a whole root, the input gate for all roots and the
\* selection.
InputsAreVouched ==
  tool = "roots" => Extract!MarkerVouches /\ Extract!GateIsEarned

\* Extract!PublishedWithMarker of extract-case4-roots.sh.
PublishedWithMarker == tool = "roots" => Extract!PublishedWithMarker

\* Extract!LocksAreReleased of extract-case4-roots.sh and the selection script.
LocksAreReleased == tool = "roots" => Extract!LocksAreReleased

\* Build!PhaseIsEarned of buildctl.py build.
PhaseIsEarned == tool = "build" => Build!PhaseIsEarned

\* Build!SignaturesStay of buildctl.py build.
SignaturesStay == Build!SignaturesStay

\* Build!ImplementsPhases of buildctl.py build: it refines DurablePipeline.
ImplementsPhases == Build!ImplementsPhases

\* Build!BuildCompletes of buildctl.py build.
BuildCompletes == tool = "build" => Build!BuildCompletes

\* Build!ManifestOfProfileOnly of buildctl.py _tree_manifest.
ManifestOfProfileOnly == tool = "build" => Build!ManifestOfProfileOnly
==============================================================================
