----------------------------- MODULE SourceParts -----------------------------
(***************************************************************************)
(* The source ZIPs travel in parts: split by scripts/prepare-parts.sh,     *)
(* fetched by scripts/download-drive-parts.sh, one source at a time, and   *)
(* put together again by `assemble` of tools/portctl.py.                   *)
(*                                                                         *)
(* Downloaders lock the directory; `assemble` takes no lock and may run    *)
(* while parts arrive.  A part is published by renaming a verified file.   *)
(* One checksum manifest lists the parts of all sources; it is copied (cp) *)
(* at the end of the first download, and is torn while it is copied and    *)
(* when the copy is killed.                                                *)
(*                                                                         *)
(* Abstracted: bytes (a part is right or not there, a fetched file right   *)
(* or wrong), names and numbering widths.                                  *)
(***************************************************************************)
EXTENDS Integers

CONSTANTS
  Source,      \* the ZIPs; their part prefixes
  N,           \* number of parts of each
  Assembler,   \* processes that run assemble
  MaxFaults    \* bound on kills and failures of a behavior

PartsAssumption == N \in Nat \ {0} /\ MaxFaults \in Nat

VARIABLES
  parts,     \* published parts of each source
  manifest,  \* SHA256SUMS-parts.txt beside them: "absent", "torn" or "whole"
  output,    \* each ZIP: "absent", "right" or "wrong"
  pc, prefix, at,  \* of the downloader: the source and the part it is at
  got,       \* what curl has fetched for it
  apc,       \* where each assembler is
  which,     \* the source it assembles
  found,     \* the parts of it that it has discovered
  faults

vars == <<parts, manifest, output, pc, prefix, at, got, apc, which, found, faults>>

\* prepare-parts.sh numbers the parts from zero.
Part == 0 .. N - 1

TypeOK ==
  /\ parts \in [Source -> SUBSET Part]
  /\ manifest \in {"absent", "torn", "whole"}
  /\ output \in [Source -> {"absent", "right", "wrong"}]
  /\ pc \in {"idle", "part", "fetched", "manifest", "copy"}
  /\ prefix \in Source /\ at \in 0 .. N
  /\ got \in {"nothing", "right", "wrong"}
  /\ apc \in [Assembler -> {"idle", "verify", "join", "commit"}]
  /\ which \in [Assembler -> Source] /\ found \in [Assembler -> SUBSET Part]
  /\ faults \in 0 .. MaxFaults

Init ==
  /\ parts = [s \in Source |-> {}]
  /\ manifest = "absent"
  /\ output = [s \in Source |-> "absent"]
  /\ pc = "idle" /\ prefix \in Source /\ at = 0 /\ got = "nothing"
  /\ apc = [a \in Assembler |-> "idle"]
  /\ which \in [Assembler -> Source]
  /\ found = [a \in Assembler |-> {}]
  /\ faults = 0

Fault == faults < MaxFaults /\ faults' = faults + 1

-----------------------------------------------------------------------------
(* download-drive-parts.sh; everything else stays as it is *)
Downloading == UNCHANGED <<output, apc, which, found>>

Start(s) ==
  /\ pc = "idle"
  /\ pc' = "part" /\ prefix' = s /\ at' = 0 /\ got' = "nothing"
  /\ UNCHANGED <<parts, manifest, faults>> /\ Downloading

\* A part that is there is verified.
SkipExisting ==
  /\ pc = "part"
  /\ at \in parts[prefix]
  /\ at' = at + 1
  /\ UNCHANGED <<parts, manifest, pc, prefix, got, faults>> /\ Downloading

\* curl asks for the file, then if need be with the confirmation token of
\* the page it got instead; a file of its own holds the answer.
Fetch ==
  /\ pc = "part"
  /\ at \in Part \ parts[prefix]
  /\ pc' = "fetched"
  /\ \/ got' = "right" /\ UNCHANGED faults
     \/ got' = "wrong" /\ Fault
  /\ UNCHANGED <<parts, manifest, prefix, at>> /\ Downloading

\* A wrong file ends the script.
PublishPart ==
  /\ pc = "fetched"
  /\ IF got = "right"
       THEN /\ parts' = [parts EXCEPT ![prefix] = @ \cup {at}]
            /\ pc' = "part" /\ at' = at + 1
       ELSE pc' = "idle" /\ UNCHANGED <<parts, at>>
  /\ got' = "nothing"
  /\ UNCHANGED <<manifest, prefix, faults>> /\ Downloading

\* The manifest is copied unless it is there; one that differs is refused.
StartManifest ==
  /\ pc = "part"
  /\ at = N
  /\ IF manifest = "absent" THEN manifest' = "torn" /\ pc' = "copy"
                            ELSE pc' = "idle" /\ UNCHANGED manifest
  /\ UNCHANGED <<parts, prefix, at, got, faults>> /\ Downloading

CopyManifest ==
  /\ pc = "copy"
  /\ manifest' = "whole"
  /\ pc' = "idle"
  /\ UNCHANGED <<parts, prefix, at, got, faults>> /\ Downloading

\* Killed, or curl fails.
Kill ==
  /\ pc # "idle"
  /\ Fault
  /\ pc' = "idle"
  /\ got' = "nothing"
  /\ UNCHANGED <<parts, manifest, prefix, at>> /\ Downloading

-----------------------------------------------------------------------------
(* portctl.py assemble *)
Assembling == UNCHANGED <<parts, pc, prefix, at, got>>

\* discover_parts: numbered from zero without a gap.  A missing tail does
\* not show.
discover_parts(S) == \E n \in 1 .. N : S = 0 .. n - 1

Discover(a, s) ==
  /\ apc[a] = "idle"
  /\ discover_parts(parts[s])
  /\ which' = [which EXCEPT ![a] = s]
  /\ found' = [found EXCEPT ![a] = parts[s]]
  /\ apc' = [apc EXCEPT ![a] = "verify"]
  /\ UNCHANGED <<manifest, output, faults>> /\ Assembling

\* verify_parts against the manifest; in a torn one the lines of the parts
\* may be missing.
VerifyParts(a) ==
  /\ apc[a] = "verify"
  /\ \/ manifest = "whole" /\ apc' = [apc EXCEPT ![a] = "join"]
     \/ manifest = "torn" /\ apc' \in {[apc EXCEPT ![a] = l] : l \in {"join", "idle"}}
     \/ manifest = "absent" /\ apc' = [apc EXCEPT ![a] = "idle"]
  /\ UNCHANGED <<manifest, output, which, found, faults>> /\ Assembling

\* An output that exists is verified and returned.  Otherwise the parts are
\* joined in a mkstemp file, which must have the size and digest of the
\* source: a missing tail shows now.
Join(a) ==
  /\ apc[a] = "join"
  /\ apc' = [apc EXCEPT ![a] =
               IF output[which[a]] = "absent" /\ found[a] = Part THEN "commit" ELSE "idle"]
  /\ UNCHANGED <<manifest, output, which, found, faults>> /\ Assembling

Commit(a) ==
  /\ apc[a] = "commit"
  /\ output' = [output EXCEPT ![which[a]] = IF found[a] = Part THEN "right" ELSE "wrong"]
  /\ apc' = [apc EXCEPT ![a] = "idle"]
  /\ UNCHANGED <<manifest, which, found, faults>> /\ Assembling

KillAssembler(a) ==
  /\ apc[a] # "idle"
  /\ Fault
  /\ apc' = [apc EXCEPT ![a] = "idle"]
  /\ UNCHANGED <<manifest, output, which, found>> /\ Assembling

-----------------------------------------------------------------------------
Download == SkipExisting \/ Fetch \/ PublishPart \/ StartManifest \/ CopyManifest

Assemble(a) == VerifyParts(a) \/ Join(a) \/ Commit(a)

Next ==
  \/ \E s \in Source : Start(s)
  \/ Download \/ Kill
  \/ \E a \in Assembler : \/ \E s \in Source : Discover(a, s)
                          \/ Assemble(a) \/ KillAssembler(a)

Spec == Init /\ [][Next]_vars

-----------------------------------------------------------------------------
(* Properties *)

\* An assembled ZIP is the source, although assemblers run while parts are
\* still arriving, may see the manifest of both sources when only the parts
\* of the other one are complete, and do not notice that the last ones are
\* missing before they have joined what there is.
AssembledIsRight == \A s \in Source : output[s] # "wrong"

-----------------------------------------------------------------------------
(* Liveness *)

\* Every source is there some day, unless a download was killed while it
\* copied the manifest: a torn manifest is never replaced, and whether an
\* assembler gets by with it depends on where it is torn.
Assembles ==
  (\A s \in Source : <>(output[s] = "right")) \/ <>[](manifest = "torn")
=============================================================================
