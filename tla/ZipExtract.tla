------------------------------ MODULE ZipExtract ------------------------------
(***************************************************************************)
(* `extract` of tools/portctl.py: the approved entries of a source ZIP     *)
(* become files beside a manifest that vouches for them.                   *)
(*                                                                         *)
(* The ZIP is audited as a whole, the disk must have room for all entries, *)
(* then the ZIP is opened again by its path.  An entry is written to a     *)
(* temporary file, verified and renamed; one that exists is only verified. *)
(* No lock is taken, and a killed process leaves its temporary file for    *)
(* ever.  An open ZIP stays what it was when another one takes its place.  *)
(*                                                                         *)
(* Abstracted: contents (of the locked ZIP or of another one that has the  *)
(* same names), names of entries, and what the audit finds wrong.          *)
(***************************************************************************)
EXTENDS Integers, Sequences, FiniteSetsExt

CONSTANTS
  Extractors,   \* processes that run extract
  EntrySize,    \* space each entry needs, in the order of extract_entries
  Capacity,     \* space of the disk
  Margin,       \* what must be free beyond the entries
  MaxFaults     \* bound on kills, failures and replacements of a behavior

VARIABLES
  archive,      \* the ZIP at the path: "locked" or "other"
  entry,        \* each destination: "absent", "locked" or "other"
  vouched,      \* whether extraction-manifest.json exists
  litter,       \* space of temporary files that nobody will publish
  zpc, zat,     \* each process: where it is, the entry it is at
  opened,       \* the ZIP it reads the entries from
  swapped,      \* the ZIP was replaced between an audit and its second opening
  faults

vars == <<archive, entry, vouched, litter, zpc, zat, opened, swapped, faults>>

Entries == DOMAIN EntrySize
Space(E) == MapThenSumSet(LAMBDA e : EntrySize[e], E)

\* Room for every entry, the margin and what the bounded faults may leave.
ZipAssumption ==
  /\ MaxFaults \in Nat /\ Margin \in Nat /\ Capacity \in Nat
  /\ EntrySize \in Seq(Nat \ {0}) /\ EntrySize # <<>>
  /\ Capacity >= 2 * Space(Entries) + Margin
                   + MaxFaults * Max({EntrySize[e] : e \in Entries})

TypeOK ==
  /\ archive \in {"locked", "other"}
  /\ entry \in [Entries -> {"absent", "locked", "other"}]
  /\ vouched \in BOOLEAN /\ litter \in 0..Capacity
  /\ zpc \in [Extractors -> {"idle", "room", "reopen", "look", "copy", "publish", "done"}]
  /\ zat \in [Extractors -> Entries]
  /\ opened \in [Extractors -> {"locked", "other"}]
  /\ swapped \in BOOLEAN /\ faults \in 0..MaxFaults

Init ==
  /\ archive = "locked" /\ entry = [e \in Entries |-> "absent"]
  /\ vouched = FALSE /\ litter = 0
  /\ zpc = [x \in Extractors |-> "idle"] /\ zat = [x \in Extractors |-> 1]
  /\ opened = [x \in Extractors |-> "locked"]
  /\ swapped = FALSE /\ faults = 0

\* A temporary file holds its space until it is renamed.
Writing == {x \in Extractors : zpc[x] = "publish"}
Used == litter + Space({e \in Entries : entry[e] # "absent"})
          + MapThenSumSet(LAMBDA x : EntrySize[zat[x]], Writing)
Free == Capacity - Used

Fault == faults < MaxFaults /\ faults' = faults + 1
GoTo(x, place) == zpc' = [zpc EXCEPT ![x] = place]
\* A process that is not there has no place in the entries and no open ZIP.
Ends(x) ==
  /\ GoTo(x, "idle")
  /\ zat' = [zat EXCEPT ![x] = 1] /\ opened' = [opened EXCEPT ![x] = "locked"]
Stays == UNCHANGED <<zat, opened>>

-----------------------------------------------------------------------------
(* extract_source *)

\* audit_zip refuses every ZIP but the locked one.
Audit(x) ==
  /\ zpc[x] = "idle" /\ archive = "locked"
  /\ GoTo(x, "room")
  /\ UNCHANGED <<archive, entry, vouched, litter, zat, opened, swapped, faults>>

\* The space of all entries is asked for, whichever of them exist.
CheckRoom(x) ==
  /\ zpc[x] = "room"
  /\ GoTo(x, IF Free >= Space(Entries) + Margin THEN "reopen" ELSE "idle")
  /\ UNCHANGED <<archive, entry, vouched, litter, zat, opened, swapped, faults>>

\* Mutant: the manifest is written before the entries.
Reopen_ManifestFirst(x) ==
  /\ zpc[x] = "reopen"
  /\ GoTo(x, "look")
  /\ opened' = [opened EXCEPT ![x] = archive] /\ zat' = [zat EXCEPT ![x] = 1]
  /\ vouched' = TRUE
  /\ UNCHANGED <<archive, entry, litter, swapped, faults>>

Reopen(x) ==
  /\ zpc[x] = "reopen"
  /\ GoTo(x, "look")
  /\ opened' = [opened EXCEPT ![x] = archive] /\ zat' = [zat EXCEPT ![x] = 1]
  /\ UNCHANGED <<archive, entry, vouched, litter, swapped, faults>>

NextEntry(x) ==
  /\ IF zat[x] + 1 \in Entries THEN zat' = [zat EXCEPT ![x] = @ + 1] /\ GoTo(x, "look")
                               ELSE UNCHANGED zat /\ GoTo(x, "done")
  /\ UNCHANGED opened

\* Mutant: a destination that exists is an error.
Look_FreshOnly(x) ==
  /\ zpc[x] = "look"
  /\ IF entry[zat[x]] = "absent" THEN GoTo(x, "copy") /\ Stays ELSE Ends(x)
  /\ UNCHANGED <<archive, entry, vouched, litter, swapped, faults>>

\* atomic_extract_entry: what exists is verified against the open ZIP.
Look(x) ==
  /\ zpc[x] = "look"
  /\ \/ entry[zat[x]] = "absent" /\ GoTo(x, "copy") /\ Stays
     \/ entry[zat[x]] = opened[x] /\ NextEntry(x)
     \/ entry[zat[x]] \notin {"absent", opened[x]} /\ Ends(x)
  /\ UNCHANGED <<archive, entry, vouched, litter, swapped, faults>>

\* The temporary file is written, or the disk is full and it is removed.
Copy(x) ==
  /\ zpc[x] = "copy"
  /\ IF Free >= EntrySize[zat[x]] THEN GoTo(x, "publish") /\ Stays ELSE Ends(x)
  /\ UNCHANGED <<archive, entry, vouched, litter, swapped, faults>>

\* Verified and renamed, over what another process may have published.
PublishEntry(x) ==
  /\ zpc[x] = "publish"
  /\ entry' = [entry EXCEPT ![zat[x]] = opened[x]]
  /\ NextEntry(x)
  /\ UNCHANGED <<archive, vouched, litter, swapped, faults>>

\* write_manifest_once: what it says comes from the audit.
WriteManifest(x) ==
  /\ zpc[x] = "done"
  /\ vouched' = TRUE /\ Ends(x)
  /\ UNCHANGED <<archive, entry, litter, swapped, faults>>

Extraction(x) ==
  \/ CheckRoom(x) \/ Reopen(x) \/ Look(x) \/ Copy(x) \/ PublishEntry(x) \/ WriteManifest(x)

-----------------------------------------------------------------------------
(* Faults *)

\* An exception removes the temporary file, a kill does not.
ExtractorEnds(x) ==
  /\ zpc[x] # "idle" /\ Fault
  /\ Ends(x)
  /\ litter' \in {litter, litter + IF zpc[x] = "publish" THEN EntrySize[zat[x]] ELSE 0}
  /\ UNCHANGED <<archive, entry, vouched, swapped>>

\* Another file is put in the place of the ZIP ...
ReplaceArchive ==
  /\ archive = "locked" /\ Fault
  /\ archive' = "other"
  /\ swapped' = (swapped \/ \E x \in Extractors : zpc[x] \in {"room", "reopen"})
  /\ UNCHANGED <<entry, vouched, litter, zpc, zat, opened>>

\* ... and the right one is put back.
RestoreArchive ==
  /\ archive = "other" /\ archive' = "locked"
  /\ UNCHANGED <<entry, vouched, litter, zpc, zat, opened, swapped, faults>>

\* What goes on as long as somebody wants the entries.
Working ==
  \/ \E x \in Extractors : Audit(x) \/ Extraction(x)
  \/ RestoreArchive

Next == Working \/ ReplaceArchive \/ \E x \in Extractors : ExtractorEnds(x)

Spec == Init /\ [][Next]_vars

-----------------------------------------------------------------------------
(* Properties *)

\* The manifest vouches for all entries, and no file of another ZIP is ever
\* found right, unless the ZIP was replaced just between the audit and the
\* second opening: extract_source compares neither what it opens nor what it
\* writes with the audit.
ManifestVouches ==
  ~swapped => \A e \in Entries : entry[e] # "other" /\ (vouched => entry[e] = "locked")

\* Processes that are started again extract everything, whatever was killed
\* and however often they were refused for want of room, which they ask for
\* again although the entries are there.
Extracts == <>(vouched \/ swapped)
==============================================================================
