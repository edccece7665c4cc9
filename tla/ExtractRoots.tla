----------------------------- MODULE ExtractRoots ----------------------------
(***************************************************************************)
(* scripts/extract-case4-roots.sh and the script it ends with,             *)
(* scripts/extract-case3-selection.sh: full roots with a completion marker *)
(* each, then a selection of files and directories, then the input gate.   *)
(*                                                                         *)
(* Each script has a lock of its own, taken without waiting on descriptor  *)
(* 9.  A child inherits the descriptor: debugfs, outliving a killed        *)
(* extractor, keeps its lock.  The selection script opens descriptor 9     *)
(* anew, and so gives up the extractor's lock: when the extractor is       *)
(* killed, a new one may run beside the old selection.                     *)
(*                                                                         *)
(* Abstracted: the contents (debugfs either succeeds or fails), free disk  *)
(* space (Fail), and the temporary directories of killed extractors; what  *)
(* a failed selection leaves in the selection is kept: it gets listed.     *)
(***************************************************************************)
EXTENDS Integers, Sequences, FiniteSets, SequencesExt

CONSTANTS
  Roots,      \* the roots in the order of extraction
  Selection,  \* what the selection script extracts
  MaxFaults   \* bound on kills and failures of a behavior

RootsAssumption ==
  /\ Roots \in Seq(ToSet(Roots)) /\ Roots # <<>> /\ IsInjective(Roots)
  /\ MaxFaults \in Nat

VARIABLES
  root,       \* published roots
  marker,     \* roots with a completion marker
  selected,   \* published members of the selection
  partials,   \* members of which a failed selection left a .partial
  list,       \* what selection-files.sha256 lists ({} where it is absent)
  gate,       \* has inspect-inputs written case4-inputs.json?
  pc, at,     \* of the extractor; at is its place in Roots
  dumper,     \* does a debugfs of an extractor run?
  selectors,  \* selection scripts that hold or took the selection's lock
  faults

vars == <<root, marker, selected, partials, list, gate, pc, at, dumper, selectors,
          faults>>

Root    == ToSet(Roots)
PC      == {"idle", "root", "dump", "publish", "mark", "select", "wait", "inspect"}
Current == Roots[at]

\* What find lists below base and donor when whole members are in place and
\* left is what failed attempts left of members.
Files(whole, left) == (whole \X {"whole"}) \cup (left \X {"partial"})

TypeOK ==
  /\ root \in SUBSET Root /\ marker \in SUBSET Root
  /\ selected \in SUBSET Selection /\ partials \in SUBSET Selection
  /\ list \in SUBSET Files(Selection, Selection)
  /\ gate \in BOOLEAN
  /\ pc \in PC /\ at \in 1 .. Len(Roots)
  /\ dumper \in BOOLEAN /\ selectors \in Nat
  /\ faults \in 0 .. MaxFaults

Init ==
  /\ root = {} /\ marker = {} /\ selected = {} /\ partials = {} /\ list = {}
  /\ gate = FALSE
  /\ pc = "idle" /\ at = 1
  /\ dumper = FALSE /\ selectors = 0
  /\ faults = 0

Fault == faults < MaxFaults /\ faults' = faults + 1

-----------------------------------------------------------------------------
(* extract-case4-roots.sh *)

\* The lock is free and the five images pass.
Start ==
  /\ pc = "idle" /\ ~dumper
  /\ pc' = "root" /\ at' = 1
  /\ UNCHANGED <<root, marker, selected, partials, list, gate, dumper, selectors, faults>>

NextRoot ==
  IF at < Len(Roots) THEN pc' = "root" /\ at' = at + 1
                     ELSE pc' = "select" /\ UNCHANGED at

\* A published root is reused with its marker and refused without.
ReuseRoot ==
  /\ pc = "root"
  /\ Current \in root
  /\ IF Current \in marker THEN NextRoot ELSE pc' = "idle" /\ UNCHANGED at
  /\ UNCHANGED <<root, marker, selected, partials, list, gate, dumper, selectors, faults>>

\* debugfs dumps into a temporary directory beside the root.
StartDump ==
  /\ pc = "root"
  /\ Current \notin root /\ Current \notin marker
  /\ pc' = "dump" /\ dumper' = TRUE
  /\ UNCHANGED <<root, marker, selected, partials, list, gate, at, selectors, faults>>

\* Mutant: the extractor waits for debugfs whoever started it.
DumpEnds_ForExtractor ==
  /\ dumper /\ pc = "dump"
  /\ dumper' = FALSE
  /\ pc' = "publish"
  /\ UNCHANGED <<root, marker, selected, partials, list, gate, at, selectors, faults>>

DumpEnds ==
  /\ dumper
  /\ dumper' = FALSE
  /\ pc' = IF pc = "dump" THEN "publish" ELSE pc
  /\ UNCHANGED <<root, marker, selected, partials, list, gate, at, selectors, faults>>

\* Mutant: the marker is written before the root is renamed.
Publish_MarkerFirst ==
  /\ pc = "publish"
  /\ marker' = marker \cup {Current}
  /\ pc' = "mark"
  /\ UNCHANGED <<root, selected, partials, list, gate, at, dumper, selectors, faults>>

Publish ==
  /\ pc = "publish"
  /\ root' = root \cup {Current}
  /\ pc' = "mark"
  /\ UNCHANGED <<marker, selected, partials, list, gate, at, dumper, selectors, faults>>

WriteMarker ==
  /\ pc = "mark"
  /\ marker' = marker \cup {Current}
  /\ NextRoot
  /\ UNCHANGED <<root, selected, partials, list, gate, dumper, selectors, faults>>

\* The selection script starts, or finds its lock taken and ends at once,
\* and the extractor with it.
StartSelection ==
  /\ pc = "select"
  /\ IF selectors = 0 THEN selectors' = 1 /\ pc' = "wait"
                      ELSE UNCHANGED selectors /\ pc' = "idle"
  /\ UNCHANGED <<root, marker, selected, partials, list, gate, at, dumper, faults>>

\* inspect-inputs, and the end of the script.
Inspect ==
  /\ pc = "inspect"
  /\ gate' = TRUE
  /\ pc' = "idle"
  /\ UNCHANGED <<root, marker, selected, partials, list, at, dumper, selectors, faults>>

-----------------------------------------------------------------------------
(* extract-case3-selection.sh; what exists is reused *)

Select(x) ==
  /\ selectors > 0
  /\ x \in Selection \ selected
  /\ selected' = selected \cup {x}
  /\ UNCHANGED <<root, marker, partials, list, gate, pc, at, dumper, selectors, faults>>

\* It lists the digests of all files, those failed attempts left included,
\* and returns to its extractor.
SelectionEnds ==
  /\ selectors > 0
  /\ selected = Selection
  /\ list' = Files(selected, partials)
  /\ selectors' = selectors - 1
  /\ pc' = IF pc = "wait" THEN "inspect" ELSE pc
  /\ UNCHANGED <<root, marker, selected, partials, gate, at, dumper, faults>>

\* The selection fails or is killed, and an extractor that waits ends.  What
\* debugfs has written of a member stays under its temporary name.
SelectionFails ==
  /\ selectors > 0
  /\ Fault
  /\ selectors' = selectors - 1
  /\ pc' = IF pc = "wait" THEN "idle" ELSE pc
  /\ \/ UNCHANGED partials
     \/ \E x \in Selection \ selected : partials' = partials \cup {x}
  /\ UNCHANGED <<root, marker, selected, list, gate, at, dumper>>

-----------------------------------------------------------------------------
\* The extractor is killed; its debugfs or its selection script lives on.
Kill ==
  /\ pc # "idle"
  /\ Fault
  /\ pc' = "idle"
  /\ UNCHANGED <<root, marker, selected, partials, list, gate, at, dumper, selectors>>

\* debugfs fails, and the extractor that waits for it removes its output.
DumpFails ==
  /\ dumper
  /\ Fault
  /\ dumper' = FALSE
  /\ pc' = IF pc = "dump" THEN "idle" ELSE pc
  /\ UNCHANGED <<root, marker, selected, partials, list, gate, at, selectors>>

Extractor ==
  ReuseRoot \/ StartDump \/ Publish \/ WriteMarker \/ StartSelection \/ Inspect

Selector == SelectionEnds \/ \E x \in Selection : Select(x)

Next ==
  \/ Start \/ Extractor \/ DumpEnds \/ Selector
  \/ SelectionFails \/ Kill \/ DumpFails

Spec == Init /\ [][Next]_vars

-----------------------------------------------------------------------------
(* Properties *)

\* A marker vouches for a root that was dumped to its end and is in place;
\* only the root being published may be without its marker while an
\* extractor lives.
MarkerVouches ==
  /\ marker \subseteq root
  /\ pc \in {"select", "wait", "inspect"} => marker = Root
  /\ pc \in {"publish", "mark"} => Current \notin marker /\ ~dumper

\* Whatever was killed, one debugfs writes a root and one script the
\* selection.
OneOfEach ==
  /\ dumper => pc \in {"idle", "dump"}
  /\ selectors <= 1
  /\ pc = "wait" => selectors = 1

\* The input gate has been passed only with all roots marked and with the
\* whole selection in place and listed; what else is listed was left by
\* failed attempts.
GateIsEarned ==
  gate => /\ marker = Root /\ selected = Selection
          /\ Files(Selection, {}) \subseteq list
          /\ list \subseteq Files(Selection, partials)

\* "Each full root is atomically published with an image-bound completion
\* marker": with nobody at work there is no root without one.
PublishedWithMarker == pc = "idle" /\ ~dumper => root = marker

-----------------------------------------------------------------------------
(* Liveness *)

\* Whatever is killed, no lock is held for ever: an extractor ends, and so
\* does what it leaves behind.
LocksAreReleased == []<>(pc = "idle" /\ ~dumper /\ selectors = 0)
=============================================================================
