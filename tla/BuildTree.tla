------------------------------- MODULE BuildTree ------------------------------
(***************************************************************************)
(* build_tree of tools/buildctl.py: the resumable construction of the      *)
(* development root from the base root and the donor roots.  The phases    *)
(*                                                                         *)
(*   initializing -> staged -> transplanted -> patched -> signed ->        *)
(*   complete                                                              *)
(*                                                                         *)
(* are recorded in a state file; an attempt that is killed or fails in any *)
(* place leaves the output tree as it is, and the next attempt goes on     *)
(* with the recorded phase.  The build lock is taken without waiting, so   *)
(* that there is one attempt at a time: `pc` is where it is.               *)
(*                                                                         *)
(* A path stands for a file, or for a directory that is treated as a       *)
(* whole; its content is where it comes from ("base", "donor": a hard link *)
(* to the input) or what the build made of it ("patched", "signed").       *)
(* Abstracted: bytes, modes, certificates and the inventory reports. Where *)
(* the code goes through a sorted list of paths and treats each path alone *)
(* (the removals, the links of one copy, the patches, the APKs), the model *)
(* takes them in any order; a copy makes all its removals before its       *)
(* links, which only an interrupted transplant could tell apart, and that  *)
(* one clears /system and starts over.                                     *)
(***************************************************************************)
EXTENDS Integers, FiniteSets, Sequences

CONSTANTS
  Path,
  System,      \* paths under /system, where everything but cleanup happens
  Base,        \* paths of the base root
  Donor,       \* paths of the donor's /system
  Protected,   \* paths at or below protected_base_paths
  Retained,    \* directories of APKs with a retained shared UID
  Replaced,    \* directories of the packages that are replaced
  Chosen,      \* paths at or below the selected directories
  Selected,    \* paths the donor partitions offer there
  Duplicate,   \* LOCKED_REMOVALS
  Preopt,      \* oat directories, .art, .odex and .vdex files
  Patched,     \* the three policy files the build patches
  Apk,         \* APK files
  Platform,    \* those with a platform certificate
  LockedFrom,  \* the origin of each other file whose digest is locked
  NoPath,
  MaxFaults    \* bound on kills and exceptions of a behavior

BuildAssumption ==
  /\ System \subseteq Path /\ Base \subseteq Path
  /\ Donor \subseteq System /\ Protected \subseteq System
  /\ Retained \subseteq System /\ Replaced \subseteq System
  /\ Chosen \subseteq System /\ Selected \subseteq Chosen
  /\ Duplicate \subseteq System /\ Patched \subseteq System
  /\ Preopt \subseteq Path /\ NoPath \notin Path
  /\ Platform \subseteq Apk /\ Apk \subseteq Path
  /\ Apk \cap (Patched \cup Preopt) = {} /\ Patched \cap (Preopt \cup Duplicate) = {}
  /\ DOMAIN LockedFrom \subseteq Path \ (Apk \cup Patched)
  /\ \A f \in DOMAIN LockedFrom : LockedFrom[f] \in {"base", "donor"}
  /\ \E f \in Base : f \notin Preopt
  /\ MaxFaults \in Nat

VARIABLES
  phase,       \* phase of the state file, "none" where there is no file
  standalone,  \* the APKs whose digests the state file has as standalone
  tree,        \* the output root
  signed,      \* APKs with a .case4-signed.partial beside them
  junk,        \* paths with a left-over mkstemp file beside them
  draft,       \* the path whose mkstemp file is being written
  pc,          \* where the attempt is
  at,          \* the copy of the transplant it executes
  todo,        \* paths it has yet to patch or sign
  faults       \* faults so far

vars == <<phase, standalone, tree, signed, junk, draft, pc, at, todo, faults>>

Phase   == {"none", "initializing", "staged", "transplanted", "patched",
            "signed", "complete"}
Content == {"absent", "base", "donor", "patched", "signed"}
PC      == {"idle", "stage", "check", "clear", "link", "patch", "sign", "verify"}

Present(S) == {f \in S : tree[f] # "absent"}

\* _transplant: its copies and removals in their order.  A copy removes the
\* destination (clear), then links what the source offers; "needs" must be
\* there or the attempt is refused.
Plan ==
  <<[clear |-> System,    link |-> Donor,            from |-> "donor", needs |-> {}],
    [clear |-> Protected, link |-> Protected \cap Base, from |-> "base", needs |-> {}],
    [clear |-> Retained,  link |-> Retained \cap Base, from |-> "base", needs |-> {}],
    [clear |-> Replaced,  link |-> {},               from |-> "donor", needs |-> Replaced],
    [clear |-> Chosen,    link |-> Selected,         from |-> "donor", needs |-> {}],
    [clear |-> Duplicate, link |-> {},               from |-> "donor", needs |-> Duplicate],
    [clear |-> Preopt,    link |-> {},               from |-> "donor", needs |-> {}]>>

Last == Len(Plan)

TypeOK ==
  /\ phase \in Phase
  /\ standalone \in SUBSET Apk
  /\ tree \in [Path -> Content]
  /\ signed \in SUBSET Platform
  /\ junk \in SUBSET Path
  /\ draft \in Path \cup {NoPath}
  /\ pc \in PC
  /\ at \in 1 .. Last
  /\ todo \in SUBSET Path
  /\ faults \in 0 .. MaxFaults

Init ==
  /\ phase = "none"
  /\ standalone = {}
  /\ tree = [f \in Path |-> "absent"]
  /\ signed = {} /\ junk = {} /\ todo = {}
  /\ draft = NoPath
  /\ pc = "idle"
  /\ at = 1
  /\ faults = 0

-----------------------------------------------------------------------------
\* The content of the tree _stage_base publishes.
BaseTree == [f \in Path |-> IF f \in Base THEN "base" ELSE "absent"]

\* Where an attempt goes on that finds, or has recorded, phase p.
Resume(p) ==
  /\ at' = 1
  /\ CASE p = "initializing" -> pc' = "stage" /\ todo' = {}
       [] p = "staged"       -> pc' = "check" /\ todo' = {}
       [] p = "transplanted" -> pc' = "patch" /\ todo' = Patched
       [] p = "patched"      -> pc' = "sign" /\ todo' = Present(Apk)
       [] OTHER              -> pc' = "verify" /\ todo' = {}

\* An attempt takes the lock and reads the state file, or writes a first one.
Begin ==
  /\ pc = "idle"
  /\ phase = "none" => Present(Path) = {}
  /\ phase' = IF phase = "none" THEN "initializing" ELSE phase
  /\ Resume(phase')
  /\ UNCHANGED <<standalone, tree, signed, junk, draft, faults>>

\* _write_state with the next phase.
Record(p) ==
  /\ phase' = p
  /\ Resume(p)

-----------------------------------------------------------------------------
(* initializing: _stage_base *)

\* The base is linked into a temporary directory beside the output root and
\* renamed, unless an earlier attempt has published it.
StageBase ==
  /\ pc = "stage"
  /\ Present(Path) = {}
  /\ tree' = BaseTree
  /\ UNCHANGED <<phase, standalone, signed, junk, draft, pc, at, todo, faults>>

RecordStaged ==
  /\ pc = "stage"
  /\ Present(Path) # {}
  /\ Record("staged")
  /\ UNCHANGED <<standalone, tree, signed, junk, draft, faults>>

-----------------------------------------------------------------------------
(* staged: _transplant *)

\* The removals of packages first look for what they are to remove.
Check ==
  /\ pc = "check"
  /\ Plan[at].needs \subseteq Present(Path)
  /\ pc' = "clear"
  /\ UNCHANGED <<phase, standalone, tree, signed, junk, draft, at, todo, faults>>

\* _remove_path, one entry after the other.
Remove(f) ==
  /\ pc = "clear"
  /\ f \in Present(Plan[at].clear)
  /\ tree' = [tree EXCEPT ![f] = "absent"]
  /\ UNCHANGED <<phase, standalone, signed, junk, draft, pc, at, todo, faults>>

Cleared ==
  /\ pc = "clear"
  /\ Present(Plan[at].clear) = {}
  /\ pc' = "link"
  /\ UNCHANGED <<phase, standalone, tree, signed, junk, draft, at, todo, faults>>

\* _copy_path links one entry after the other.
Link(f) ==
  /\ pc = "link"
  /\ f \in Plan[at].link \ Present(Path)
  /\ tree' = [tree EXCEPT ![f] = Plan[at].from]
  /\ UNCHANGED <<phase, standalone, signed, junk, draft, pc, at, todo, faults>>

Linked == pc = "link" /\ Plan[at].link \subseteq Present(Path)

NextCopy ==
  /\ Linked
  /\ at < Last
  /\ at' = at + 1
  /\ pc' = "check"
  /\ UNCHANGED <<phase, standalone, tree, signed, junk, draft, todo, faults>>

\* Mutant: the phase is recorded when the selected packages are there.
RecordTransplanted_Early ==
  /\ Linked
  /\ at >= 5
  /\ Record("transplanted")
  /\ UNCHANGED <<standalone, tree, signed, junk, draft, faults>>

\* Mutant: the state file of a transplanted tree already says "patched".
RecordTransplanted_Skips ==
  /\ Linked
  /\ at = Last
  /\ Selected \cap Apk \subseteq Present(Path)
  /\ Record("patched")
  /\ UNCHANGED <<standalone, tree, signed, junk, draft, faults>>

\* _verify_replacement_outputs has seen the selected APKs, and the removals
\* of the locked duplicates.
RecordTransplanted ==
  /\ Linked
  /\ at = Last
  /\ Selected \cap Apk \subseteq Present(Path)
  /\ Record("transplanted")
  /\ UNCHANGED <<standalone, tree, signed, junk, draft, faults>>

-----------------------------------------------------------------------------
(* transplanted: _patch_tree; each patch replaces its file (_atomic_bytes) *)

PatchDraft(f) ==
  /\ pc = "patch"
  /\ draft = NoPath
  /\ f \in todo
  /\ draft' = f
  /\ UNCHANGED <<phase, standalone, tree, signed, junk, pc, at, todo, faults>>

PatchPublish ==
  /\ pc = "patch"
  /\ draft # NoPath
  /\ tree' = [tree EXCEPT ![draft] = "patched"]
  /\ todo' = todo \ {draft}
  /\ draft' = NoPath
  /\ UNCHANGED <<phase, standalone, signed, junk, pc, at, faults>>

\* Mutant: the phase is recorded before the last patch.
RecordPatched_Early ==
  /\ pc = "patch"
  /\ draft = NoPath
  /\ Cardinality(todo) <= 1
  /\ Record("patched")
  /\ UNCHANGED <<standalone, tree, signed, junk, draft, faults>>

RecordPatched ==
  /\ pc = "patch"
  /\ draft = NoPath
  /\ todo = {}
  /\ Record("patched")
  /\ UNCHANGED <<standalone, tree, signed, junk, draft, faults>>

-----------------------------------------------------------------------------
(* patched: _sign_output_apks *)

\* Mutant: every platform APK is signed, a signed one again.
SignDraft_Again(f) ==
  /\ pc = "sign"
  /\ draft = NoPath
  /\ f \in todo \cap Platform
  /\ f \notin signed
  /\ draft' = f
  /\ UNCHANGED <<phase, standalone, tree, signed, junk, pc, at, todo, faults>>

\* sign_apk writes a mkstemp file beside the signing temporary ...
SignDraft(f) ==
  /\ pc = "sign"
  /\ draft = NoPath
  /\ f \in todo \cap Platform
  /\ tree[f] # "signed"
  /\ f \notin signed
  /\ draft' = f
  /\ UNCHANGED <<phase, standalone, tree, signed, junk, pc, at, todo, faults>>

\* ... and renames it to .case4-signed.partial.
SignSave ==
  /\ pc = "sign"
  /\ draft # NoPath
  /\ signed' = signed \cup {draft}
  /\ draft' = NoPath
  /\ UNCHANGED <<phase, standalone, tree, junk, pc, at, todo, faults>>

\* The temporary, this attempt's or one a killed attempt left, is verified
\* and replaces the APK.
SignPublish(f) ==
  /\ pc = "sign"
  /\ draft = NoPath
  /\ f \in todo \cap signed
  /\ tree' = [tree EXCEPT ![f] = "signed"]
  /\ signed' = signed \ {f}
  /\ todo' = todo \ {f}
  /\ UNCHANGED <<phase, standalone, junk, draft, pc, at, faults>>

\* A development signature, or a standalone APK, which stays as it is.
SignPreserve(f) ==
  /\ pc = "sign"
  /\ draft = NoPath
  /\ f \in todo
  /\ f \notin Platform \/ tree[f] = "signed"
  /\ todo' = todo \ {f}
  /\ UNCHANGED <<phase, standalone, tree, signed, junk, draft, pc, at, faults>>

RecordSigned ==
  /\ pc = "sign"
  /\ draft = NoPath
  /\ todo = {}
  /\ standalone' = Present(Apk) \ Platform
  /\ Record("signed")
  /\ UNCHANGED <<tree, signed, junk, draft, faults>>

-----------------------------------------------------------------------------
(* signed, complete: verify_output *)

\* What verify_output asks of the tree: APK by APK (signer, digests of the
\* standalone ones), the packages that must be there or must be gone, no
\* preopt residue, the patches, and the files with a locked digest (runtime
\* dependencies, classpath providers, VINTF, policy markers).  Of any other
\* file it asks nothing.
VerifyAccepts ==
  /\ Present(Apk) # {}
  /\ \A f \in Present(Platform) : tree[f] = "signed"
  /\ Present(Apk) \ Platform = standalone
  /\ Selected \cap Apk \subseteq Present(Path)
  /\ Present(Preopt \cup Duplicate) = {}
  /\ \A f \in Patched : tree[f] = "patched"
  /\ \A f \in DOMAIN LockedFrom : tree[f] = LockedFrom[f]

Verify ==
  /\ pc = "verify"
  /\ VerifyAccepts
  /\ phase' = "complete"
  /\ pc' = "idle"
  /\ UNCHANGED <<standalone, tree, signed, junk, draft, at, todo, faults>>

-----------------------------------------------------------------------------
Fault == faults < MaxFaults /\ faults' = faults + 1

\* The attempt is killed: a half-written mkstemp file stays in the tree.
Kill ==
  /\ pc # "idle"
  /\ Fault
  /\ pc' = "idle"
  /\ junk' = junk \cup ({draft} \ {NoPath})
  /\ draft' = NoPath
  /\ at' = 1 /\ todo' = {}
  /\ UNCHANGED <<phase, standalone, tree, signed>>

\* Something raises (a full disk): the mkstemp file is removed.
Raise ==
  /\ pc # "idle"
  /\ Fault
  /\ pc' = "idle"
  /\ draft' = NoPath
  /\ at' = 1 /\ todo' = {}
  /\ UNCHANGED <<phase, standalone, tree, signed, junk>>

Step ==
  \/ StageBase \/ RecordStaged
  \/ Check \/ Cleared \/ NextCopy \/ RecordTransplanted
  \/ PatchPublish \/ RecordPatched
  \/ SignSave \/ RecordSigned
  \/ Verify
  \/ \E f \in Path : \/ Remove(f) \/ Link(f)
                     \/ PatchDraft(f)
                     \/ SignDraft(f) \/ SignPublish(f) \/ SignPreserve(f)

Next == Begin \/ Step \/ Kill \/ Raise

Spec == Init /\ [][Next]_vars

-----------------------------------------------------------------------------
(* Properties *)

\* The tree the profile calls for, path by path.
Transplanted ==
  [f \in Path |->
     CASE f \in Preopt \cup Duplicate -> "absent"
       [] f \in Chosen \ (Preopt \cup Duplicate) ->
            IF f \in Selected THEN "donor" ELSE "absent"
       [] f \in Replaced \ (Chosen \cup Preopt \cup Duplicate) -> "absent"
       [] f \in (Protected \cup Retained) \
               (Replaced \cup Chosen \cup Preopt \cup Duplicate) ->
            IF f \in Base THEN "base" ELSE "absent"
       [] f \in System \ (Protected \cup Retained \cup Replaced \cup Chosen
                          \cup Preopt \cup Duplicate) ->
            IF f \in Donor THEN "donor" ELSE "absent"
       [] OTHER -> IF f \in Base THEN "base" ELSE "absent"]

WithPatches == [f \in Path |-> IF f \in Patched THEN "patched" ELSE Transplanted[f]]

Expected ==
  [f \in Path |-> IF f \in Platform /\ WithPatches[f] # "absent"
                    THEN "signed" ELSE WithPatches[f]]

\* What a recorded phase says of the tree: the work of the phase is done,
\* and what differs from it is work of the next phase.  A complete build is
\* the tree the profile calls for, whatever was killed on the way and
\* wherever the later attempts went on; verify_output looks at a part of it
\* only.
PhaseIsEarned ==
  /\ phase = "transplanted" =>
       \A f \in Path : tree[f] \in {Transplanted[f], WithPatches[f]}
  /\ phase = "patched" =>
       \A f \in Path : tree[f] \in {WithPatches[f], Expected[f]}
  /\ phase \in {"signed", "complete"} => tree = Expected /\ signed = {}

\* "A completed invocation re-runs all output verifiers instead of mutating
\* the tree", and signing is resumed "without re-signing an already verified
\* development APK".
SignaturesStay ==
  [][/\ phase = "complete" => tree' = tree /\ phase' = "complete"
     /\ \A f \in Platform : tree[f] = "signed" => tree'[f] = "signed" /\ draft' # f]_vars

\* The phases are the stages of a durable pipeline: recorded one at a time, in
\* their order, and never lost.
PhaseOrder == <<"initializing", "staged", "transplanted", "patched", "signed", "complete">>
Reached(k) == \E j \in k .. Len(PhaseOrder) : phase = PhaseOrder[j]
Phases == INSTANCE DurablePipeline
            WITH N <- Len(PhaseOrder), Result <- {"done"}, NoResult <- "pending",
                 MayLoseTail <- FALSE,
                 recorded <- [k \in 1 .. Len(PhaseOrder) |->
                                IF Reached(k) THEN "done" ELSE "pending"]
ImplementsPhases == Phases!Spec

\* "The deterministic development-tree manifest": the files of a complete
\* tree are those the profile calls for and no other.
ManifestOfProfileOnly == phase = "complete" => junk \cup signed = {}

-----------------------------------------------------------------------------
(* Liveness *)

\* An attempt goes on; somebody starts another one after a failed one.
LiveSpec == Spec /\ WF_vars(Step) /\ WF_vars(Begin)

\* With finitely many faults the build is complete some day and stays so: no
\* attempt leaves behind what every later one refuses, a package to remove
\* that is gone already or a tree verify_output does not accept.
BuildCompletes == <>[](phase = "complete")
=============================================================================
