# Verification of the XOS lavender port tooling

This directory holds TLA+ models of the programs that turn two vendor firmware
ZIPs into a development-signed Android root for the lavender device
(`tools/*.py`, `scripts/*.sh`), TLC configurations that check them on small
instances, and TLAPS proofs of every safety property the runs check.  Paths
below are relative to the repository's sources.

1. [The system](#1-the-system): components, state, operations, interaction
2. [What is hard](#2-what-is-hard-and-what-correct-means)
3. [The modules](#3-the-modules)
4. [The runs](#4-the-runs), their bounds, fairness and findings
5. [The proofs](#5-the-proofs)
6. [What is not modelled](#6-what-is-not-modelled)
7. [Plan](#7-plan)

## 1. The system

The port is assembled by twelve stages that take hours and tens of gigabytes on
one machine.  Everything durable is a file; nothing is kept in a server or a
database.  What makes the tooling interesting is that every one of these
programs may be killed at any point and must be able to be started again.

| Component | Source | State it keeps | Operations |
|---|---|---|---|
| Case 5.1 runner | `tools/case5ctl.py` 1-395, 945-1181 | `state/case5-1.json` (status, active stage, completed stages with results, worker pid, failure), the run lock, processes | `start` (launch a detached worker), `run` (foreground or worker), `status` (read only) |
| Case 5.1 stages | `tools/case5ctl.py` 398-942 | reports, evidence and checkpoint files | the actions of the twelve stages, `create_checkpoint`, `verify_checkpoint` |
| Development key | `tools/buildctl.py` `command_init_key`, `tools/apksign.py` `initialize_key` | a key and a certificate file | create the pair or verify it |
| Source download | `scripts/download-drive-file.sh` | destination, `.partial` file, lock | resume, verify, publish |
| Source parts | `scripts/prepare-parts.sh`, `scripts/download-drive-parts.sh`, `tools/portctl.py` `assemble` | part files, their checksum manifest, the joined ZIP | split, fetch part by part, join |
| ZIP extraction and audit | `tools/portctl.py` | the extracted layer, its manifest, temporary files | audit, extract with reuse |
| Image materialization | `scripts/materialize-case4-images.sh` | ZIPs, extracted layers, five images, `.lp-ID` directories, `images.json`, lock | materialize base or donor, prune, consume, verify |
| Image formats | `tools/imagectl.py` | open readers, temporary output files | parse and read sparse images, read logical partition metadata and extract partitions, convert block transfer lists |
| Root and selection extraction | `scripts/extract-case4-roots.sh`, `scripts/extract-case3-selection.sh` | roots with completion markers, selected files and their list, the input gate, two locks | dump, publish, mark, select, inspect |
| Development root build | `tools/buildctl.py` | output tree, build state file with its phase, temporary files inside the tree | stage the base, transplant, patch, sign, verify |
| APK signatures | `tools/apksign.py` | none | sign and verify one APK |
| Ext4 metadata | `tools/metactl.py` | queue, found entries, attributes read | walk an image, read attributes in batches, build and verify a snapshot |
| Compatibility inspector | `tools/compatctl.py` | none | inspect images, packages, APEX and dex files against a profile |
| Profiles, wrappers, tests, CI | `config/*.toml`, `scripts/case5-local.sh`, `Makefile`, `tests/` | none | |

How they interact.  The runner calls the others, in process (key, snapshots,
checkpoint) or as subprocesses whose exit status it checks (`_run`).  The
locked order is `preflight`, `development_key`, `base_images`, `donor_images`,
`case4_inputs`, `development_root`, `output_verification`, four `metadata_*`
stages and `checkpoint`.  Stages communicate through files only: images are
made by the materialization, dumped into roots by the extraction, transplanted
by the build and walked by the metadata stages.  Concurrency is between
processes: `start` and the worker it launches share a `flock`; each script has
a lock of its own whose descriptor its children inherit; `assemble` runs
without a lock while a download publishes parts.  Atomicity comes from one
idiom, used everywhere: write a temporary file beside the destination, `fsync`,
rename.

## 2. What is hard, and what correct means

The hazards are listed in `PROJECT.json`, each at its line.  They are of these
kinds.

* **Kill and restart anywhere.**  A recorded stage or phase must have been
  earned, a resumed one must not repeat or skip work, no interrupted attempt
  may leave what every later attempt refuses.
* **Children that outlive a killed parent.**  They do or do not hold the lock,
  depending on whether they inherited its descriptor, and finish their work
  beside the next attempt.
* **Copies of shared state.**  The runner works on its own copy of the state
  file; a failing write leaves a copy that is ahead of the file, and the
  exception handler then writes the copy.
* **Power cuts.**  Only the content of the state file is synced, neither its
  directory nor what the stages make: after a power cut an older state file may
  come back beside newer artifacts, or a newer one beside artifacts that are
  lost.
* **Evidence that ages.**  Each stage verifies what it uses and records what it
  saw; the checkpoint is made of these records hours later, when files may have
  been replaced, lost or put back, and it trusts some records without looking
  again (`images.json`, extraction manifests, the identity of a file, the report
  on the development root).
* **Space.**  Temporary files of killed processes are never removed, and the
  extraction asks for room for files that exist already.
* **Order of deletions.**  The ZIPs and layers are removed to save space; too
  early, and an interrupted attempt can never be completed.
* **Boundaries in the formats.**  Chunk, extent, range and batch boundaries;
  phases of fill patterns; tables that overlap or leave gaps; the borders of the
  three sections a signature covers.
* **Damaged input.**  Cyclic directories must not make the walk run for ever.

What makes each component correct, in short: the *runner* keeps a state file
every later run can load, continue and finish, never records a stage before its
artifact is there, and commits each stage once, in order; the *key* and the
certificate in place are of one pair; a *source ZIP* that is published is the
right one, and so are the files an *extraction* manifest vouches for; an *image*
is published whole, by one writer, and its source goes last; a *root* marker vouches for a complete root; a *build* that is complete
is exactly the tree its profile calls for; the *checkpoint* says what the stages
recorded, certifies only what was verified, and is verified only while the
files are still those; a *signature* that is accepted was made of exactly these
bytes; *readers* of image formats return the bytes the format defines and accept only metadata that can be acted on; a
*metadata* walk finds everything below its roots and ends.

## 3. The modules

Every component has a module with its state as variables, one action per
operation or step between two accesses of shared state, and the properties at
its end.  `map` in `PROJECT.json` gives the lines of each definition.  Comments
in the modules name the functions.  A definition named `X_Y` and commented
"Mutant" or "Plausible bug" is a broken variant of `X`; it is no part of the
specification and shows that a property can fail.

| Module | Models | Abstracted |
|---|---|---|
| `DurablePipeline` | abstract: what a state file of ordered stages promises | who commits, and how often it was tried |
| `Case5Runner` | `start`, `run`, workers, `_process_is_live`, `load_state`, `execute_stage`, `run_pipeline` | what a stage does (an artifact in `made`), time stamps, log, attempt counter |
| `Checkpoint` | the actions of the stages, `_source_identity`, `_verify_all_images`, `create_checkpoint`, `verify_checkpoint`; their children: `init-dev-key`, both scripts, `buildctl build` and `verify-output`, `compatctl verify-images`, `metactl snapshot` | contents (right or wrong), keys (a name), file identities (a number), both roots as one, the phases of the build; tooling digests |
| `BuildTree` | `build_tree`: phases, staging, transplant, patches, signing, `verify_output` | bytes, modes, certificates; a path is a file or a directory treated as a whole |
| `DevKey` | `command_init_key`, `initialize_key`, `verify_key_pair` | key material |
| `MaterializeImages` | the script with its calls of `portctl extract`, `ota-image`, `lp-extract` | formats, hashes; a full disk is a failing child |
| `ZipExtract` | `extract_source`, `audit_zip`, `atomic_extract_entry`, `write_manifest_once` | contents (of the locked ZIP or of another), names; what the audit finds wrong |
| `ExtractRoots` | both extraction scripts, their locks and children | contents, left-over temporary directories of roots |
| `DriveDownload` | the script and its curl | bytes: a length and whether they are right |
| `SourceParts` | part download and `assemble`; `prepare-parts.sh` as the initial state | bytes |
| `SparseImage` | `_parse`, `_segments`, `_fill_bytes`, `read_at`, `copy_range` | header fields that are constant |
| `LpImage` | geometry and metadata with backup copies, the table checks, `extract_lp_partitions` | checksums, magics and names of groups (an action `Damaged`) |
| `SdatImage` | `parse_transfer_list`, `convert_sdat` | text syntax; one byte stands for a block |
| `ApkSigning` | `sign_apk`, `verify_apk`: sections, v1 records, signing block, chunked digest | DER, key files, openssl; an APK is a sequence of units |
| `DexResolution` | `_object_descriptor`, `dex_inventory`, `archive_dex_inventory`, `dex_resolution_report` | string tables; descriptors are values |
| `MetadataScan` | `scan_entries`, `capture_entries`, `read_xattrs` batches | decoding of attribute values; debugfs is external |
| `Stages` | the programs of the stages side by side: `DriveDownload`, `SourceParts`, `DevKey`, `ZipExtract`, `MaterializeImages`, `ExtractRoots`, `BuildTree` | any interplay |
| `Formats` | the programs of the formats side by side: `SparseImage`, `LpImage`, `SdatImage`, `ApkSigning`, `DexResolution` | any interplay |

`MCCase5Runner`, `MCCheckpoint`, `MCStages`, `MCFormats` and `MCMetadataScan`
give the constants their values for TLC.  The modules named `..._proofs` hold
the theorems, and `DataLemmas` what they need of numbers, sums and sequences.

State corresponds to code as follows where it is not evident.

* `Case5Runner`: `disk` is the state file, `mem[p]` the `state` dictionary of
  process `p`, `durable` the files a power cut leaves, `seen` a history of what
  the state file ever showed.  `pc[p]` is where the process stands between two
  accesses of a shared thing.  `role[p]` is what its command line says, which
  is what `_process_is_live` looks at: process ids are used again, so a stale
  pid may name a live process of another role.
* `BuildTree`: `Plan` is `_transplant` as a table of copies and removals in
  the code's order.  `junk` are temporaries of killed attempts, `signed` the
  `.case4-signed.partial` files, `draft` the temporary being written.
* `DevKey`: key and certificate are named by the run that made them; `worker` is
  the run a live worker waits for, so that a run under way that is not it is
  the orphan of a killed one.  `PairAgrees` is claimed while runs do not
  overlap (`overlapped`, a history); `KeyIsPersistent` drops that condition and
  is violated.
* `Checkpoint`: `done` and `result` are `completed_stages` and `stage_results`,
  `got` is what the worker has read and not yet written.  `child[k]` is the
  subprocess of the worker that was (or will be) killed as number k + 1, with its
  program and place; the live worker's is `child[kills]`, and that of a killed
  one goes on beside it, perhaps in the same stage.  A child has a step for each
  access to what outlives it: the two renames of a key pair, each image, the
  rename of a root and its marker, the begin and the end of a tree, a report, a
  snapshot.  It may also die (`ChildDies`) between any two of them.  `Locked(k)`
  is the flock of the two scripts and of the build; `init-dev-key`,
  `verify-output` and `metactl` take none.  A ZIP has a content and an identity
  (`device`, `inode`, `mtime_ns`), the number of the change that made it.
  `since`, `stale` and `edited` are histories: when an image went wrong, what
  was wrong already when a verification began, which reports somebody changed.
  Hash and identity of a ZIP are read in one step.
* `ExtractRoots`: `partials` are members of the selection of which a failed or
  killed `dump_file` or `dump_directory` left a `.partial` file or directory.
  Nothing removes them, and `find base donor -type f` lists them with the rest
  (`Files`).
* `MetadataScan`: `Batch` is the slice of the sorted inodes that begins at
  `offset`; `MoreBatches` is the end of `range`.
* `ZipExtract`: `opened[x]` is the ZIP behind the descriptor of process `x`,
  which may no longer be the one at the path (`archive`); `litter` is the space
  of temporary files nobody will publish.
* `ApkSigning`: the offsets and sizes in the file count units.  A hash is what
  it is taken of, so no two contents collide, and only `Sign` and the origin of
  an APK make signatures; `signed` remembers of what.
* `MaterializeImages`, `ExtractRoots`, `DriveDownload`: a process is its `pc`;
  its child is a variable of its own (`child`, `dumper`, `selectors`, `curls`)
  because it goes on when the script is killed.  A lock is free when nobody who
  holds the descriptor is left, so it is a condition on these variables.
* `SparseImage`, `LpImage`, `SdatImage` reveal their input as they parse it:
  each step chooses the next header or line freely, so that every well-formed
  and malformed file within the bounds is parsed.  A read of an open sparse
  image is an operator, compared with a definition from the format alone.

Composition.  `DurablePipeline` is instantiated twice, with a refinement
mapping from the runner's `stage_results` (`ImplementsPipeline`) and from the
builder's `phase` (`ImplementsPhases`).  `Checkpoint` composes the stages: the
worker, the children it runs and the evidence.  Each child has the steps between
which a kill leaves something that later attempts meet; the steps between those
are in the module of the program (`DevKey`, `MaterializeImages`, `ExtractRoots`,
`BuildTree`, `MetadataScan`).  `Stages` and `Formats` put components
side by side that share no state.  A behaviour of such a module is a behaviour
of one component, chosen in the initial state; what is checked and proved of it
is what separate modules would show of each, and nothing is claimed about an
interplay.

## 4. The runs

| Run | Instance | Distinct states | What it shows |
|---|---|---|---|
| `Case5Runner` | 3 processes, 3 stages, 2 results, 3 faults | 140 000 | types, `Loadable`, `CompletedIsMade`, `CopyIsCurrent`, `FailureNamesResumeStage`, `OnlyUncommittedRepeats`, refinement of `DurablePipeline`, `PipelineCompletes` |
| `Case5RunnerPower` | 3 processes, 2 stages, power cuts, 3 faults | 905 000 | `Loadable`, refinement of `DurablePipeline`, where a tail of stages may be lost |
| `Checkpoint` | 2 images with a snapshot and 1 without; 1 kill, 1 dying child and 2 changes of files, 3 together | 1 310 000 | `CheckpointIsRecorded`, `AcceptedIsRight`, `PublishedImagesWereHashed`, `CheckpointReached` |
| `Stages` | a file of 4 units; 2 sources of 2 parts, 1 assembler; 3 key runs; 2 entries, 2 extractors, a disk of 13 units; 2 + 3 images; 2 roots, 3 selected; 11 paths, one of each kind `config/pipeline.toml` distinguishes; 3 faults | 106 000 | `SourcesAreRight`, `SourcesArrive`, `PairAgrees`, `SourceGoesLast`, `ScriptsExclude`, `BaseMaterializes`, `InputsAreVouched`, `LocksAreReleased`, `PhaseIsEarned`, `SignaturesStay`, the refinement, `BuildCompletes` |
| `Formats` | 3 chunks, 3 blocks of 4 bytes; 5 table entries; 3 list lines of 2 ranges; an APK of 2 units and 2 entries, 1 changed place; 1 provider and 2 packages of 2 members | 1 090 000 | `AcceptedIsSound`, `RangeIsSlice`, `PartitionIsMapped`, `ImageIsTransferred`, `SigningIsStable`, `AcceptedIsSigned`, `ResolutionIsExact` |
| `MetadataScan` | 3 directories, 1 file, 2 names, 5 root lists, 3 choices of ".", batches of 2 | 825 000 | `ScanIsComplete`, `AttributesOfAll`, `ScanEnds` |

The six other runs each refute one statement of the repository's documents;
see the findings below.

**Why the bounds are enough.**  With three processes there are a `start`, the
worker it launched and one more of either kind, so that a stale pid can be used
again and a second worker can wait.  With three stages there are a committed, an
active and a later one.  With three faults an attempt can fail while it repairs
what two others left, which reaches every pair of crash points and any third;
without a bound on faults no liveness property could hold.  The tree in `MCStages` has one
path for each combination of rules that meet in the locked profile, so a path
that two rules touch in the wrong order shows.  In `Formats` three chunks put one
between two others (a checksum, a hole, a fill), `Buffer` = 3 does not divide a
block and is out of phase with the four-byte pattern; two extents make a
partition with a boundary and a tail, and two sectors an extent that may be
shorter than its device; two devices an extent that is not on the super device; three lines of two ranges let ranges of different lines overlap; a payload of two
units and a directory of two entries give a section of one chunk and one that
ends inside a chunk, and a payload that may itself look like an entry, a block or
an end record after one change.  (With two changed places, and a directory of
one entry, both APK properties hold as well, over six million states.)
In `Checkpoint` two snapshots are a first and a later one, of images of
different sources, and one image without a snapshot is the vendor image; a kill
leaves a child beside the next worker and that one's child, one child may die at
any place of either, and two changes replace a file and put it back.  In `ZipExtract` the disk holds both entries twice, the margin and what
three faults may leave, as `ZipAssumption` says.
In `MetadataScan` every graph over three directories is an image: cycles, hard
links, a root below another, a directory entered twice; in batches of two, one to
four inodes end with a full one or a short one.

**Symmetry** is used for process ids and results in the runs of `Case5Runner`
that check no liveness.  `Case5Runner`, which does, has none.

**Fairness.**  Each process, script, child and parser is a program the
scheduler runs: weak fairness of its steps.  A worker blocked in `flock` gets
a lock that is released again and again: strong fairness of `WorkerLock`, which
the kernel's queue of waiters justifies.  And somebody starts again what failed,
which the documents ask of the operator ("a stopped worker resumes"): strong
fairness of `StartLock` in `Case5Runner`, of `Again(role)` in
`MaterializeImages` (the stage that calls the script), of `Start` and `Discover`
in the download modules, weak fairness of `Begin` in `BuildTree` and in
`Checkpoint` (there the worker, whose lock excludes others, is one process; its
steps and those of each child are weakly fair, too).  Of
`ZipExtract` it is only assumed that some extraction goes on, or the ZIP is put
back, as long as the entries are not there.  Nothing is assumed of the root
extractor's starts, and no fault is ever forced.

**Deadlock** is checked in the runs of `Case5Runner` and `Checkpoint`, where
some action is always possible.  It is not in `Stages` (all key runs may have
ended), `Formats` and `MetadataScan` (a parser ends).

**What the passing runs tell beyond their names.**
`PipelineCompletes` depends on `_process_is_live` looking at the command line:
when it looks at the pid only, a reused pid keeps `start` from launching a
worker for ever.  `BuildCompletes` depends on the transplant starting over with
the removal of `/system`: continued where it stopped, it would be refused by
its own checks for packages that are gone.  `ImageIsTransferred` depends on the
overlap check over all lines of a transfer list; the checks within a line are
not enough.  `BaseMaterializes` holds only as long as nobody consumed the ZIP,
which `SourceGoesLast` allows only when the images are there.
`PublishedImagesWereHashed` holds although `create_checkpoint` does not hash the
images it lists: each was hashed by the stage that captured its metadata, and
only the vendor image, which has no snapshot, by `create_checkpoint` itself.
`CheckpointReached` depends on `verify_checkpoint` hashing a ZIP whose identity
has changed: without that a ZIP that was touched would be refused for ever; and
on each child taking up what an earlier one left, a pair of keys for one.  It
says that kills and dying children cost the checkpoint only through one of the
four states of `Refused`, each of which the run needs: half a pair or a mixed
one, a pair that replaced the one that was reported, an image that `lp-extract`
left in its own directory, a root without a marker.
`Extracts` depends on the size of the disk: with 10 units in place of 13 the
extraction is refused for ever although all entries are there, because room for
all of them is asked for and killed processes have left temporary files.
(`docs/CASE-4-REPORT.md:113` tells of a donor extraction that "exhausted
temporary storage".)

Some properties have exceptions, and these are what the code does.
`AcceptedIsRight`: a ZIP that was replaced by another of the same size before
the stage recorded its identity is certified and accepted when an extraction
manifest stands for its hash (`_source_identity`).  `ManifestVouches` of
`ZipExtract`: a ZIP that is replaced between the audit and the second opening is
not noticed.  `Assembles` of `SourceParts`: a torn checksum manifest (below).
`CheckpointIsRecorded`: the report on the development root is compared with
nothing, so that a checkpoint names the tree an edited report names; the report
on the key is compared with the pair in place only, so that both may be changed
together.  (What children of killed workers write late is no exception: a tree
never changes its key, and a snapshot or a pair is compared.)  `CompletedIsMade`
holds without power cuts only.  `GateIsEarned` of `ExtractRoots`: beside the
selection the list may name what failed attempts left of it.

### Findings

Each is the violated property of a run, and a place where a document promises
more than the code does.

1. `Case5RunnerDuplicate`: a `start` that is killed between launching its
   worker and recording the pid leaves pid None; the next `start` launches a
   second worker.  (A wasted process, no damage: the workers exclude each
   other by the lock, and the second goes on where the first ended.)
2. `StagesKey`: the subprocess of a killed worker does not hold the run lock and
   goes on with a stage that the next worker executes too.  The scripts and the
   build have locks of their own (`ScriptsExclude`), so that the second
   one fails and does no damage; `init-dev-key` has none.  Two of them may both
   see that there is no key, and their four renames leave the key of one with
   the certificate of the other, which every later run refuses.
3. `BuildTreeManifest`: temporary files inside the output tree that a killed
   attempt leaves are counted in the "deterministic" tree manifest.
4. `StagesDonor`: killed between `lp-extract` and `mv`, the donor's stage fails
   until someone deletes the left-over output.
5. `StagesMarker`: killed between the rename of a root and its marker, the root
   is published without one and refused by every later run.

6. `CheckpointEarly`: `create_checkpoint` publishes a checkpoint that calls both
   source archives preserved, and only then `verify_checkpoint` looks for them.
   When one was deleted after its stage, the stage fails but the checkpoint,
   with status `verified`, stays.

More, seen while modelling and not kept as runs:

* after a power cut an older state file may come back (`os.replace` without an
  `fsync` of the directory, `tools/case5ctl.py:210`), so that a stage that was
  recorded is repeated; or the state file, whose content is synced, records a
  stage whose artifact is lost, because `scripts/extract-case4-roots.sh:157`
  syncs a directory and not the files below it, and
  `scripts/extract-case3-selection.sh:84-90` nothing.  `OnlyUncommittedRepeats`
  and `CompletedIsMade` are therefore claimed and proved only without power
  cuts;
* `development-root-verified.json` is read again by `create_checkpoint`
  (`tools/case5ctl.py:781`) and published (lines 839-844) without being compared
  with the result of its stage, as the other reports and the snapshots are;
* `scripts/extract-case3-selection.sh:142-144` lists the `.partial` files of
  failed and killed selections in `selection-files.sha256`, and they stay in the
  donor's tree;
* a key without its certificate, left by a kill between two renames, is refused
  by every later `init-dev-key` (`tools/apksign.py:159`,
  `tools/buildctl.py:1525`);
* a checksum manifest torn by a kill inside `cp` is never replaced
  (`scripts/download-drive-parts.sh:122`), which is why `Assembles` excepts it;
* the checkpoint does not compare the certificate of the verified tree with the
  one it names: when the key pair is replaced before the build and put back
  before the checkpoint, the two differ (`tools/case5ctl.py:831-844`).

## 5. The proofs

TLAPS checks these for every value of the constants that satisfies the
assumptions stated in the modules: any number of stages, processes, results and
faults, with or without power cuts; any captured images, kills and changes to
files; any sources, parts, entries, disk, lists of images and roots, and any
profile of a build; images, transfer lists and archives of any size; any finite
set of directories, any files, names and roots and any batch size.  Every
invariant and every `[][...]_vars` that a passing run checks is a theorem, and so are
both refinements; `theorems` in `PROJECT.json` lists them.

`Case5Runner_proofs`, from `NAssumption` to `MaxFaultsAssumption`:

| Theorem | Property |
|---|---|
| `Invariance` | `[]IInv` |
| `TypeCorrect` | `TypeOK` |
| `LockExclusion` | `LockIsExclusive`: inside a critical section exactly while owning the lock |
| `StateLoads` | `Loadable` |
| `CompletionIsEarned` | `CompletedIsMade`, from `~PowerCuts` |
| `CopiesAreCurrent` | `CopyIsCurrent` |
| `FailureIsResumeStage` | `FailureNamesResumeStage` |
| `NoCommittedStageRepeats` | `OnlyUncommittedRepeats`, from `~PowerCuts` |
| `PipelineImplemented` | `ImplementsPipeline` |

None of the properties is inductive.  The invariant `IInv` is `TypeOK`,
`LockIsExclusive` and three parts.  `DiskInv` says that the state file is
`Sound` (it loads, "complete" is earned, and both the active stage and the
failure name the stage at which the pipeline resumes) and that recorded stages
are made, where the machine keeps its power (`Backed`).  The clause about the *active* stage is what makes the failure clause
inductive: the handler copies one into the other, perhaps from an attempt that
was killed long ago.  `DurableInv` says that the state file a power cut restores
is `Sound` and agrees with the present one on the results it has; of the
artifacts it says nothing, since nothing orders them.  `CopyInv(p)` ties a
copy to the file: the same results, except in the handler, where the copy may
be one stage ahead (`OneAhead`) because the write of a commit failed.  The
handler's write then *is* the commit, which is why it maps to a `Record` step
of `DurablePipeline` and not to a stutter.  The lock clause makes one process
own its copy at a time, so that a write by one does not invalidate the copy of
another.

`Checkpoint_proofs`, from `CheckpointAssumption`, for any list of captured
images, any number of kills, of children that die and of changes to files:

| Theorem | Property |
|---|---|
| `TypeCorrect` | `TypeOK` |
| `IInvHolds` | `[]IInv` |
| `CheckpointRecorded` | `CheckpointIsRecorded` |
| `AcceptedRight` | `AcceptedIsRight` |
| `PublishedHashed` | `PublishedImagesWereHashed` |

`StageAt` and `AtIndex` say which stage comes after how many completed ones.
`EveryStep` says, once for all actions, which of them can change which variable
(`Changes`) and lead the worker to which place (`Moves`); `ChildChange` says the
same of the places of a child, and `AwaitedChild` that a worker that waits, waits
for a child of its own stage.  So each part of the invariant only looks at the few
actions that can break it.  Types need two facts more to be inductive: a commit
has a stage left, and what a child is about to write is fit for its file.  `IInv`
then has these parts:

* `OrderInv`: where the worker can be, by the number of stages completed and
  whether there is a checkpoint;
* `KeyInv`: the result of the key stage is what development-key.json says, until
  somebody edits that; a pair that a late `init-dev-key` puts in place is then
  refused, not recorded;
* `TreeInv`: a tree never changes the certificate it was begun with, so that
  every child that verifies one, a late one too, writes the report the stage has
  read, until somebody edits it;
* `RecordInv`: what `create_checkpoint` has read again is what the stages
  returned;
* `VerdictInv`: what a step of `verify_checkpoint` has excluded stays excluded,
  or the change takes it out of `stale`;
* `HashInv`, the reason that `images.json` may be believed: between the hash of
  an image by a child, its capture, the result and the checkpoint, an image that
  is wrong has become so at the stage of its capture or later.

`BuildTree_proofs`, from `BuildAssumption`, for any sets of paths the profile
may name (disjoint or not, as the assumption allows) and any number of faults:

| Theorem | Property |
|---|---|
| `TypeCorrect` | `TypeOK` |
| `IInvHolds` | `[]IInv` |
| `PhasesEarned` | `PhaseIsEarned` |
| `SignaturesKept` | `SignaturesStay` |
| `PhasesImplemented` | `ImplementsPhases` |

`Stages` reaches `BuildTree` by `INSTANCE`, so its assumption is a definition,
which each theorem here takes and `Stages` assumes of its instance.  The
difficult part is the transplant, seven copies with overlapping
destinations that an attempt may leave at any entry.  `Copied(k, f)` says of
each path `f` what the first `k` copies made of it: the last of them that clears
`f` (`IsLast`) decides, and a path that none clears is as staged, which below
`/system` means as an earlier attempt left it.  The first copy clears all of
`/system`, so nothing is left of that (`CopyMore`), and seven copies make
`Transplanted` (`AllCopied`).  A killed attempt falls back to `Copied(0, f)`,
which every removal and link keeps (`CopyStep`).  The rest of `IInv` is
`PlaceInv` (the phase by the place), `DraftInv` and `SignedInv` (what is being
written is still to do, and what has a signature is not), `TodoInv` (what is no
longer to do is patched, or signed) and `PhaseIsEarned` itself.

`Stages_proofs`, from `Assumption` of `Stages`, which is the assumptions of the
seven programs:

| Theorem | Property | of |
|---|---|---|
| `IInvHolds` | `[]IInv` | all |
| `TypesKept` | `TypeOK` | all |
| `SourcesRight` | `SourcesAreRight` | `DriveDownload`, `SourceParts`, `ZipExtract` |
| `PairsAgree` | `PairAgrees` | `DevKey` |
| `SourcesGoLast` | `SourceGoesLast` | `MaterializeImages` |
| `ScriptsApart` | `ScriptsExclude` | `MaterializeImages`, `ExtractRoots` |
| `InputsVouched` | `InputsAreVouched` | `ExtractRoots` |
| `PhasesEarned`, `SignaturesKept`, `PhasesImplemented` | `PhaseIsEarned`, `SignaturesStay`, `ImplementsPhases` | `BuildTree` |

`IInv` has one part for each program.

* `DriveInv`: while a curl of a killed script writes, the lock is not free, so
  there is one at most and nobody writes to what has been verified.
* `PartsInv`: an assembler that is about to commit has found every part.
* `KeyInv`: while runs do not overlap only one is under way, and `PlaceOf` says
  what the pair on disk is at each of its places, between the two renames above
  all.  Which run is that of the live worker has to be part of it.
* `ZipInv`: `SureOf` says what a process has open and which entries it has
  passed, as long as no ZIP was replaced between audit and opening; what killed
  processes leave is at most one of the largest entry for each fault.
* `ImagesInv`: `LoopInv` says which images are there at each place of the script
  and `OneWriter` that the child of a killed script excludes the next one.
* `RootsInv`: every root before the one at hand has its marker, and the marker
  of this one is written only when the root is published.

The build contributes `IInv` of `BuildTree_proofs`, through an instance of that
module with the state of `Stages`.

`Images_proofs` and `Formats_proofs`, from `Assumption` of `Formats`:

| Theorem | Property | of |
|---|---|---|
| `FormatsInvariant` | `[]FormatsInv` | all |
| `TypesHold` | `TypeOK` | all |
| `AcceptedIsWhole` | `AcceptedIsSound` | `SparseImage`, `LpImage` |
| `RangesSliced` | `RangeIsSlice` | `SparseImage` |
| `PartitionsMapped` | `PartitionIsMapped` | `LpImage` |
| `ImagesTransferred` | `ImageIsTransferred` | `SdatImage` |
| `SigningStable`, `AcceptedWasSigned` | `SigningIsStable`, `AcceptedIsSigned` | `ApkSigning` |
| `ResolutionExact` | `ResolutionIsExact` | `DexResolution` |

The assumptions are weak: of `LpImage` that sizes and numbers are natural
numbers (how many tables, devices, extents and partitions, and of how many
sectors, are constants), of `DexResolution` that no two providers and no two
packages have one identifier, which is what `_named_paths` refuses.

* `LpInv` keeps what each table check has established, so that the extents of an
  accepted partition exist and fit; while one is copied, what has been written,
  padded, is the image of the extents before the present one (`Copied`).
* `SdatInv`: the d-th block of the data goes to `Place`, the d-th block of the
  ranges laid end to end.  Because final ranges do not overlap, `Place` hits no
  block twice (`Transferred`), and the blocks that are not zero can be counted.
* `SparseInv`: the chunks read so far are `Described` by the image they expand
  to.  A reader looks for the chunk of a byte, cuts what it copies at the ends
  of chunks and each segment into buffers.  `SegmentsReach` shows by induction
  over the segments that, joined, they are the slice; `PiecesAreData` that the
  pieces of a segment are its data, whatever `Buffer` is;
  `Rotated` that a fill pattern is in phase wherever a piece starts.
* `ApkInv`: every signature in a file, wherever it has got to, is one somebody
  made (`Fine`), of sections that a file can have (`Vouched`).  The digest takes
  the chunks of the sections as one list; that it determines the borders of the
  sections all the same, because the end record tells where the directory
  starts, is `DigestDetermines`.  `SigningIs` says where everything
  lies in a signed file, and `LaidIsAccepted` that such a file is accepted.
* `DexInv`: between two archives, the providers of a class are those among the
  archives read, and no provider is read after a package.

`MetadataScan_proofs`, from `ScanAssumption`: `Invariance`, `TypeCorrect`
(`TypeOK`), `WalkIsComplete` (`ScanIsComplete`), `AttributesComplete`
(`AttributesOfAll`).  The invariant
says of an unfinished walk what the property says of a finished one: a directory
that is no longer queued has all its entries found (`WalkIsClosed` is what is left
of that at the end), a root no longer to do is found, and the queue is empty when
the walk ends.  `FoundInv` adds that each
entry found has the inode its path resolves to (`RightInode`), that it hangs on
found directories up to a root (`Connected`), and that no two found directories
have one inode (`Addable`).  The last bounds the length of a path below a root
by the number of directories, which is where the assumption that these are
finite is used.  That every path which exists is found is an induction over its
length.  Of the attributes the invariant says that those read are the ones of the
inodes whose position in the sorted list is below `offset` (`AttributesKept`);
that no position is at or above the number of inodes (`PositionBound`) makes the
end of the range the end of the list.

`DataLemmas` has the induction all these need.  The induction theorems of the
library take a predicate, which the provers cannot instantiate; `SetInduction`
speaks of a set of numbers instead, and each use defines the set of those that
have the property at hand.  Sums over finite sets (`SumFolds`), sequences of
sequences (`FlattenIs`, `FlattenConcat`) and sequences cut into pieces
(`CutAndFlattened`) are treated so, by choosing the function that the fold of the
library defines and showing that it exists and is unique.

Only model-checked: the liveness properties `PipelineCompletes`,
`CheckpointReached`, `SourcesArrive`, `BaseMaterializes`, `LocksAreReleased`,
`BuildCompletes` and `ScanEnds` (fairness and `ENABLED` are out of the
prover's reach), and the statements of the documents that six runs refute.

## 6. What is not modelled

* What `verify_snapshot` checks of each entry of a snapshot (one predicate,
  `Valid`), the tooling digests in state and checkpoint, what the reports of
  `case4_inputs` and of the build say beside their status.
* Power cuts under the stages: `Case5Runner` has them for the state file and the
  artifacts, `Checkpoint` and `Stages` do not.
* What the ZIP audit may find wrong (one refusal), DER and openssl, the Brotli
  binding, the decoding of attribute values.
* `compatctl.py` apart from the dex resolution and the hash of an image: binary
  XML, string pools, APEX, kernel and VINTF inspection decode one file into one
  report; they keep no state and their difficulty is in formats that the unit
  tests compare with fixtures.  The profiles are constant data.
* Free disk space, except in `ZipExtract`, is a nondeterministic failure.
* Inode identity: output files of the build are hard links to the inputs; every
  writer of the build replaces files by rename.
* `init-dev-key` by hand beside the runner; it does what the run of a killed
  worker does beside the next one.
* Drift of inputs between attempts (the identity checks of `build_tree`), which
  only refuses an attempt.
* `BuildTree`: within one copy all removals precede the links, while the code
  treats one configured directory after the other; an interrupted transplant
  clears `/system` and starts over, so no later step can tell.

## 7. Plan

Done, in this order: `DurablePipeline` and `Case5Runner` with its proofs;
`BuildTree` with its proofs; the scripts the stages run; the downloads; the
image formats; the metadata walk with its proofs; the evidence and the
checkpoint with their proofs; the ZIP extraction; APK signatures; the dex
resolution; the proofs of `Stages`, of `Formats` and of `ScanIsComplete`.

Next, most important first:

1. An abstract specification of a stage as "refused or published whole", which
   the materialization, the extraction of roots and the assembly implement, with
   the refinements proved.
2. What a stage reads and what an earlier one published, as one composition:
   the build over roots that the extraction may be replacing.
