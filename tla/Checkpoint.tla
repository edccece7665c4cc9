------------------------------ MODULE Checkpoint ------------------------------
(***************************************************************************)
(* The evidence the stages of tools/case5ctl.py leave behind and the       *)
(* checkpoint that is made of it: the key pair, the images, the extracted  *)
(* roots, the development root, the metadata snapshots, the reports on     *)
(* them, the results in the state file.                                    *)
(*                                                                         *)
(* Each stage runs a child (a script, buildctl, metactl), verifies what it *)
(* uses and records what it saw; hours later create_checkpoint puts the    *)
(* records together.  In between the files may change (the code calls it   *)
(* drift), a child may die half way, and the worker may be killed: its     *)
(* child goes on, beside the children of later attempts (`child`, one per  *)
(* attempt), and may leave what no later attempt accepts.                  *)
(*                                                                         *)
(* Abstracted: a content is "right" (the locked one) or "wrong"; key and   *)
(* certificate are named by the attempt that made them; the file identity  *)
(* of a source ZIP (device, inode, mtime) is the number of the change that *)
(* made it; the two extracted roots are one.  Lock, state file and status  *)
(* are in Case5Runner.  DevKey, MaterializeImages, ExtractRoots, BuildTree *)
(* and MetadataScan have the steps of each child in detail.                *)
(***************************************************************************)
EXTENDS Integers, Sequences, SequencesExt

CONSTANTS
  Snapped,     \* the images whose metadata is captured, in the order of the stages
  Vendor,      \* the image that is preserved as it is
  RoleOf,      \* the source an image is made of
  None,
  MaxKills,    \* bound on the kills of workers of a behavior,
  MaxDeaths,   \* on the children that die,
  MaxDrifts,   \* on the changes to files
  MaxFaults    \* and on all of them together

Role  == {"base", "donor"}
Captured == ToSet(Snapped)
Image == Captured \cup {Vendor}
Of(r) == {i \in Image : RoleOf[i] = r}

\* STAGES
First == <<"preflight", "key", "base", "donor", "inputs", "root", "verification">>
Stage == First \o Snapped \o <<"checkpoint">>
N == Len(Stage)

VARIABLES
  source,      \* each ZIP: its content and its file identity
  vouched,     \* does extraction-manifest.json of a role exist?
  image,
  listed,      \* does images.json exist?
  leftover,    \* images lp-extract has left in its own directory
  key, certificate,    \* by the attempt that made them
  roots,       \* the extracted roots, and their completion markers
  begun, tree, \* the certificate in the build's state file, the pair the tree is signed with
  keyReport, treeReport,   \* the pairs that development-key.json and
                           \* development-root-verified.json name
  snapshot,
  checkpoint,
  done, result,        \* the state file: number of stages completed, their results
  pc, got,             \* of the worker; got is what it has read so far
  child, kills,        \* child[k] is the child of the worker that was killed as number k + 1
  (* What the properties observe *)
  verdict,     \* of the last verify_checkpoint
  since,       \* the number of stages completed when an image went wrong
  stale,       \* what was wrong when create_ or verify_checkpoint began and has not
               \* changed since
  deaths, drifts,      \* children that died, changes to files
  spoiled,     \* were there others than to a ZIP?
  edited       \* the reports that were changed

files  == <<source, vouched, image, listed, leftover>>
made   == <<key, certificate, roots, begun, tree>>
notes  == <<keyReport, treeReport, snapshot, checkpoint>>
world  == <<files, made, notes>>
worker == <<done, result, pc, got, kills, verdict>>
ghosts == <<since, deaths, drifts, spoiled, edited>>
vars   == <<world, worker, child, stale, ghosts>>

Attempt    == 0 .. MaxKills
Other      == MaxKills + 1     \* a pair from elsewhere
Pair       == Attempt \cup {Other, None}
Content    == {"none", "right", "wrong", "torn"}
Change     == 0 .. MaxDrifts
Results    == [source : [Role -> Change \cup {None}], pair : Pair, tree : Pair,
               snapshot : [Captured -> Content]]
NoResult   == [source |-> [r \in Role |-> None], pair |-> None, tree |-> None,
               snapshot |-> [i \in Captured |-> "none"]]
Programs   == {"key", "base", "donor", "inputs", "root", "verification", "checkpoint"}
ChildPC    == {"check", "begin", "make", "second", "capture", "verify", "write", "done", "failed"}
ChildState == [of : Programs \cup Captured \cup {None}, pc : ChildPC,
               saw : Content, pair : Pair]
NoChild    == [of |-> None, pc |-> "done", saw |-> "none", pair |-> None]
Parts      == Role \cup {"pair"} \cup Captured

\* An image is no stage of another kind, and None is nothing else.
ASSUME CheckpointAssumption ==
  /\ Snapped \in Seq(Captured) /\ IsInjective(Snapped)
  /\ (Captured \cup {None}) \cap (Range(First) \cup {"checkpoint", "pair"} \cup Role) = {}
  /\ RoleOf \in [Image -> Role]
  /\ None \notin Image \cup Results \cup Int
  /\ {MaxKills, MaxDeaths, MaxDrifts, MaxFaults} \subseteq Nat

TypeOK ==
  /\ source \in [Role -> [content : {"right", "wrong", "gone"}, id : Change]]
  /\ vouched \in [Role -> BOOLEAN]
  /\ image \in [Image -> Content \ {"torn"}]
  /\ listed \in BOOLEAN /\ leftover \in SUBSET Image
  /\ {key, certificate, keyReport, begun, tree, treeReport} \subseteq Pair
  /\ roots \in {"none", "unmarked", "marked"}
  /\ snapshot \in [Captured -> Content]
  /\ checkpoint \in Results \cup {None}
  /\ done \in 0 .. N /\ result \in Results
  /\ pc \in {"idle", "work", "wait", "identity", "report", "vendor", "evidence", "publish",
             "verify", "verify key", "verify snapshots", "commit"}
  /\ got \in Results
  /\ child \in [Attempt -> ChildState]
  /\ kills \in Attempt /\ verdict \in {"none", "accepted", "refused"}
  /\ since \in [Image -> 0 .. N] /\ stale \in SUBSET Parts
  /\ deaths \in 0 .. MaxDeaths /\ drifts \in Change
  /\ spoiled \in BOOLEAN /\ edited \in SUBSET {"key", "tree"}

Init ==
  /\ source = [r \in Role |-> [content |-> "right", id |-> 0]]
  /\ vouched = [r \in Role |-> FALSE]
  /\ image = [i \in Image |-> "none"] /\ listed = FALSE /\ leftover = {}
  /\ key = None /\ certificate = None
  /\ roots = "none" /\ begun = None /\ tree = None
  /\ keyReport = None /\ treeReport = None
  /\ snapshot = [i \in Captured |-> "none"]
  /\ checkpoint = None
  /\ done = 0 /\ result = NoResult
  /\ pc = "idle" /\ got = NoResult
  /\ child = [k \in Attempt |-> NoChild] /\ kills = 0
  /\ verdict = "none" /\ stale = {}
  /\ since = [i \in Image |-> 0] /\ deaths = 0 /\ drifts = 0
  /\ spoiled = FALSE /\ edited = {}

At(s) == done < N /\ Stage[done + 1] = s /\ pc # "idle"

\* A failed _require ends the worker.
GoesIf(condition, p) == pc' = IF condition THEN p ELSE "idle"

\* verify_key_pair
HavePair == key # None /\ key = certificate

-----------------------------------------------------------------------------
(* The worker: run_pipeline *)

\* start or run, at the first stage that is not completed.
Begin ==
  /\ pc = "idle"
  /\ pc' = IF done < N THEN "work" ELSE "verify"
  /\ verdict' = "none" /\ got' = result
  /\ stale' = {}
  /\ UNCHANGED <<world, done, result, child, kills, ghosts>>

Commit ==
  /\ pc = "commit"
  /\ done' = done + 1
  /\ result' = IF At("checkpoint") THEN result ELSE got
  /\ pc' = IF done' < N THEN "work" ELSE "verify"
  /\ got' = result'
  /\ UNCHANGED <<world, child, kills, verdict, stale, ghosts>>

\* preflight looks at the sizes of the ZIPs.
Preflight ==
  /\ At("preflight") /\ pc = "work"
  /\ GoesIf(\A r \in Role : source[r].content # "gone", "commit")
  /\ UNCHANGED <<world, done, result, got, child, kills, verdict, stale, ghosts>>

\* _run starts a program and waits for it ...
Starts(program, at) ==
  /\ child' = [child EXCEPT ![kills] = [NoChild EXCEPT !.of = program, !.pc = at]]
  /\ pc' = "wait"

\* ... which is all that some stages do ...
Launch(s) ==
  /\ At(s) /\ pc = "work"
  /\ Starts(s, "check")
  /\ UNCHANGED <<world, done, result, got, kills, verdict, stale, ghosts>>

\* ... before they read what it reports.  A child that failed ends the worker.
Returns(s, condition, p) ==
  /\ At(s) /\ pc = "wait" /\ child[kills].pc \in {"done", "failed"}
  /\ GoesIf(child[kills].pc = "done" /\ condition, p)
  /\ child' = [child EXCEPT ![kills] = NoChild]
  /\ UNCHANGED <<world, done, result, kills, verdict, stale, ghosts>>

\* initialize_key reads the output of init-dev-key ...
ReadKey ==
  /\ Returns("key", TRUE, "report")
  /\ got' = [got EXCEPT !.pair = child[kills].pair]

\* ... and keeps it as its report.
ReportKey ==
  /\ pc = "report"
  /\ keyReport' = got.pair
  /\ pc' = "commit"
  /\ UNCHANGED <<files, made, treeReport, snapshot, checkpoint,
                 done, result, got, child, kills, verdict, stale, ghosts>>

\* materialize_images, when the images of the role are there: their hashes ...
ReuseImages(r) ==
  /\ At(r) /\ pc = "work"
  /\ \A i \in Of(r) : image[i] # "none"
  /\ GoesIf(\A i \in Of(r) : image[i] = "right", "identity")
  /\ UNCHANGED <<world, done, result, got, child, kills, verdict, stale, ghosts>>

\* ... and otherwise the script.
RunScript(r) == Launch(r) /\ \E i \in Of(r) : image[i] = "none"

EndScript(r) == Returns(r, TRUE, "identity") /\ UNCHANGED got

\* _source_identity: an extraction manifest stands for the hash of the ZIP.
SourceIdentity(r) ==
  /\ At(r) /\ pc = "identity"
  /\ GoesIf(source[r].content = "right" \/ (vouched[r] /\ source[r].content = "wrong"), "commit")
  /\ got' = [got EXCEPT !.source[r] = source[r].id]
  /\ UNCHANGED <<world, done, result, child, kills, verdict, stale, ghosts>>

\* extract_case4_inputs and build_development_root: their reports name nothing
\* that is used later.
EndStage(s) == Returns(s, TRUE, "commit") /\ UNCHANGED got

ReadTreeReport ==
  /\ Returns("verification", treeReport # None, "commit")
  /\ got' = [got EXCEPT !.tree = treeReport]

Valid(i) == snapshot[i] \in {"right", "wrong"}

ReadSnapshot(i) ==
  /\ Returns(i, Valid(i), "commit")
  /\ got' = [got EXCEPT !.snapshot[i] = snapshot[i]]

-----------------------------------------------------------------------------
(* create_checkpoint *)

\* _verify_all_images: images.json, or else every image is hashed and listed.
ListImages ==
  /\ At("checkpoint") /\ pc = "work" /\ checkpoint = None
  /\ IF listed THEN pc' = "vendor" /\ UNCHANGED child
               ELSE Starts("checkpoint", "verify")
  /\ stale' = {r \in Role : source[r].content # "right"}
  /\ UNCHANGED <<world, done, result, got, kills, verdict, ghosts>>

ReadList == Returns("checkpoint", TRUE, "vendor") /\ UNCHANGED got

\* Mutant: images.json is believed for the vendor image too.
HashVendor_Believed ==
  /\ pc = "vendor"
  /\ pc' = "evidence"
  /\ UNCHANGED <<world, done, result, got, child, kills, verdict, stale, ghosts>>

HashVendor ==
  /\ pc = "vendor"
  /\ GoesIf(image[Vendor] = "right", "evidence")
  /\ UNCHANGED <<world, done, result, got, child, kills, verdict, stale, ghosts>>

\* Mutant: the snapshots are verified, but not compared with the results.
ReadEvidence_Uncompared ==
  /\ pc = "evidence"
  /\ GoesIf(/\ {keyReport, treeReport} \subseteq Pair \ {None}
            /\ HavePair /\ certificate = keyReport
            /\ \A i \in Captured : Valid(i), "publish")
  /\ got' = [result EXCEPT !.pair = certificate, !.tree = treeReport, !.snapshot = snapshot]
  /\ UNCHANGED <<world, done, result, child, kills, verdict, stale, ghosts>>

\* The reports, the pair and the snapshots are read again.  The pair is compared
\* with its report, a snapshot with what its stage returned, the report on the
\* tree with nothing.
ReadEvidence ==
  /\ pc = "evidence"
  /\ GoesIf(/\ {keyReport, treeReport} \subseteq Pair \ {None}
            /\ HavePair /\ certificate = keyReport
            /\ \A i \in Captured : Valid(i) /\ snapshot[i] = result.snapshot[i], "publish")
  /\ got' = [result EXCEPT !.pair = certificate, !.tree = treeReport, !.snapshot = snapshot]
  /\ UNCHANGED <<world, done, result, child, kills, verdict, stale, ghosts>>

Publish ==
  /\ pc = "publish"
  /\ checkpoint' = got
  /\ pc' = "verify"
  /\ UNCHANGED <<files, made, keyReport, treeReport, snapshot,
                 done, result, got, child, kills, verdict, stale, ghosts>>

FindCheckpoint ==
  /\ At("checkpoint") /\ pc = "work" /\ checkpoint # None
  /\ pc' = "verify"
  /\ UNCHANGED <<world, done, result, got, child, kills, verdict, stale, ghosts>>

-----------------------------------------------------------------------------
(* verify_checkpoint, in the stage and at the end of every run *)

PairStands == key = checkpoint.pair /\ certificate = checkpoint.pair

Wrong == {r \in Role : source[r].content # "right"}
         \cup (IF PairStands THEN {} ELSE {"pair"})
         \cup {i \in Captured : snapshot[i] # checkpoint.snapshot[i]}

Verdict(v, p) == verdict' = v /\ pc' = p

\* Mutant: a ZIP of the right size is never hashed again.
SourceStands_BySize(r) == source[r].content # "gone"

\* A ZIP with the identity the checkpoint names is not hashed again.
SourceStands(r) ==
  \/ source[r].content = "right"
  \/ source[r].content = "wrong" /\ source[r].id = checkpoint.source[r]

VerifySources ==
  /\ pc = "verify"
  /\ stale' = Wrong
  /\ IF \A r \in Role : SourceStands(r) THEN Verdict("none", "verify key")
                                        ELSE Verdict("refused", "idle")
  /\ UNCHANGED <<world, done, result, got, child, kills, ghosts>>

VerifyKey ==
  /\ pc = "verify key"
  /\ IF HavePair /\ PairStands THEN Verdict("none", "verify snapshots")
                               ELSE Verdict("refused", "idle")
  /\ UNCHANGED <<world, done, result, got, child, kills, stale, ghosts>>

\* Mutant: the final verification completes a stage, too.
VerifySnapshots_Commits ==
  /\ pc = "verify snapshots"
  /\ IF \A i \in Captured : Valid(i) /\ snapshot[i] = checkpoint.snapshot[i]
       THEN Verdict("accepted", "commit")
       ELSE Verdict("refused", "idle")
  /\ UNCHANGED <<world, done, result, got, child, kills, stale, ghosts>>

VerifySnapshots ==
  /\ pc = "verify snapshots"
  /\ IF \A i \in Captured : Valid(i) /\ snapshot[i] = checkpoint.snapshot[i]
       THEN Verdict("accepted", IF done < N THEN "commit" ELSE "idle")
       ELSE Verdict("refused", "idle")
  /\ UNCHANGED <<world, done, result, got, child, kills, stale, ghosts>>

-----------------------------------------------------------------------------
(* The children *)

Is(k, program, at) == child[k].of = program /\ child[k].pc = at

\* How a child ends is seen by a worker that waits for it, and by nobody else.
Awaited(k) == k = kills /\ pc = "wait"

Becomes(k, p, c, g) ==
  child' = [child EXCEPT ![k] =
              IF p \in {"done", "failed"} /\ ~Awaited(k)
                THEN NoChild ELSE [of |-> @.of, pc |-> p, saw |-> c, pair |-> g]]

Goes(k, p) == Becomes(k, p, "none", None)

\* The two scripts and the build lock their output as long as they run, the
\* materializing script for both roles, and refuse to start without the lock.
Locked(k) ==
  \E j \in Attempt \ {k} :
    /\ child[j].pc \in {"make", "second", "verify", "write"}
    /\ child[j].of = child[k].of \/ {child[j].of, child[k].of} \subseteq Role

\* Mutant: a pair that is there is refused like half a pair.
LookForKey_FreshOnly(k) ==
  /\ Is(k, "key", "check")
  /\ Goes(k, IF key = None /\ certificate = None THEN "make" ELSE "failed")
  /\ UNCHANGED <<world, worker, stale, ghosts>>

\* init-dev-key: half a pair is refused, a pair is verified, and otherwise one is
\* made; no lock keeps a second maker away.
LookForKey(k) ==
  /\ Is(k, "key", "check")
  /\ Goes(k, CASE key = None /\ certificate = None -> "make"
               [] key # None /\ certificate # None -> "verify"
               [] OTHER                            -> "failed")
  /\ UNCHANGED <<world, worker, stale, ghosts>>

RenameKey(k) ==
  /\ Is(k, "key", "make")
  /\ key' = k
  /\ stale' = stale \ {"pair"}
  /\ Goes(k, "second")
  /\ UNCHANGED <<files, certificate, roots, begun, tree, notes, worker, ghosts>>

RenameCertificate(k) ==
  /\ Is(k, "key", "second")
  /\ certificate' = k
  /\ stale' = stale \ {"pair"}
  /\ Goes(k, "verify")
  /\ UNCHANGED <<files, key, roots, begun, tree, notes, worker, ghosts>>

VerifyPair(k) ==
  /\ Is(k, "key", "verify")
  /\ IF HavePair THEN Becomes(k, "done", "none", certificate) ELSE Goes(k, "failed")
  /\ UNCHANGED <<world, worker, stale, ghosts>>

\* materialize-case4-images.sh: the lock, then verify-source and extract ...
ExtractSource(k, r) ==
  /\ Is(k, r, "check")
  /\ IF ~Locked(k) /\ source[r].content = "right"
       THEN vouched' = [vouched EXCEPT ![r] = TRUE] /\ Goes(k, "make")
       ELSE UNCHANGED vouched /\ Goes(k, "failed")
  /\ UNCHANGED <<source, image, listed, leftover, made, notes, worker, stale, ghosts>>

\* ... then the images that are missing, ...
MakeImage(k, i) ==
  /\ Is(k, RoleOf[i], "make")
  /\ image[i] = "none" /\ i \notin leftover
  /\ image' = [image EXCEPT ![i] = "right"]
  /\ UNCHANGED <<source, vouched, listed, leftover, made, notes, worker, child, stale, ghosts>>

\* ... unless one is refused: by verify_one, or by lp-extract, whose output is there.
RefuseImage(k, i) ==
  /\ Is(k, RoleOf[i], "make")
  /\ image[i] = "wrong" \/ (image[i] = "none" /\ i \in leftover)
  /\ Goes(k, "failed")
  /\ UNCHANGED <<world, worker, stale, ghosts>>

ImagesMade(k, r) ==
  /\ Is(k, r, "make")
  /\ \A i \in Of(r) : image[i] = "right"
  /\ Goes(k, IF r = "donor" THEN "verify" ELSE "done")
  /\ UNCHANGED <<world, worker, stale, ghosts>>

\* compatctl verify-images, of the donor's script or of create_checkpoint.
VerifyImages(k) ==
  /\ Is(k, "donor", "verify") \/ Is(k, "checkpoint", "verify")
  /\ Goes(k, IF \A i \in Image : image[i] = "right" THEN "write" ELSE "failed")
  /\ UNCHANGED <<world, worker, stale, ghosts>>

WriteList(k) ==
  /\ Is(k, "donor", "write") \/ Is(k, "checkpoint", "write")
  /\ listed' = TRUE
  /\ Goes(k, "done")
  /\ UNCHANGED <<source, vouched, image, leftover, made, notes, worker, stale, ghosts>>

\* extract-case4-roots.sh: the lock, the images, and no root without its marker.
CheckRoots(k) ==
  /\ Is(k, "inputs", "check")
  /\ Goes(k, IF /\ ~Locked(k) /\ roots # "unmarked"
                /\ \A i \in Image : image[i] = "right" THEN "make" ELSE "failed")
  /\ UNCHANGED <<world, worker, stale, ghosts>>

MoveRoot(k) ==
  /\ Is(k, "inputs", "make") /\ roots = "none"
  /\ roots' = "unmarked"
  /\ Goes(k, "second")
  /\ UNCHANGED <<files, key, certificate, begun, tree, notes, worker, stale, ghosts>>

MarkRoot(k) ==
  /\ Is(k, "inputs", "second")
  /\ roots' = "marked"
  /\ Goes(k, "make")
  /\ UNCHANGED <<files, key, certificate, begun, tree, notes, worker, stale, ghosts>>

\* The selection and inspect-inputs.
SelectInputs(k) ==
  /\ Is(k, "inputs", "make") /\ roots = "marked"
  /\ Goes(k, "done")
  /\ UNCHANGED <<world, worker, stale, ghosts>>

\* buildctl build reads the pair and the roots, ...
ReadPair(k) ==
  /\ Is(k, "root", "check")
  /\ IF HavePair /\ roots # "none" THEN Becomes(k, "begin", "none", certificate)
                                   ELSE Goes(k, "failed")
  /\ UNCHANGED <<world, worker, stale, ghosts>>

\* ... locks the output and begins or resumes a tree, ...
BeginTree(k) ==
  /\ Is(k, "root", "begin")
  /\ IF ~Locked(k) /\ begun \in {None, child[k].pair}
       THEN begun' = child[k].pair /\ Goes(k, "make")
       ELSE UNCHANGED begun /\ Goes(k, "failed")
  /\ UNCHANGED <<files, key, certificate, roots, tree, notes, worker, stale, ghosts>>

\* ... signs it, unless it is complete, with the pair that is there then, and
\* verifies it.  A pair that was replaced meanwhile has signed all of it, or a part.
CompleteTree(k) ==
  /\ Is(k, "root", "make")
  /\ \/ /\ IF tree = None THEN HavePair ELSE tree = certificate
        /\ tree' = certificate /\ Goes(k, "done")
     \/ /\ IF tree = None THEN ~HavePair \/ certificate # begun ELSE tree # certificate
        /\ UNCHANGED tree /\ Goes(k, "failed")
  /\ UNCHANGED <<files, key, certificate, roots, begun, notes, worker, stale, ghosts>>

\* verify-output wants a complete tree, begun and signed with the certificate.
CheckTree(k) ==
  /\ Is(k, "verification", "check")
  /\ IF certificate # None /\ begun = certificate /\ tree = certificate
       THEN Becomes(k, "write", "none", certificate) ELSE Goes(k, "failed")
  /\ UNCHANGED <<world, worker, stale, ghosts>>

WriteTreeReport(k) ==
  /\ Is(k, "verification", "write")
  /\ treeReport' = child[k].pair
  /\ Goes(k, "done")
  /\ UNCHANGED <<files, made, keyReport, snapshot, checkpoint, worker, stale, ghosts>>

\* metactl snapshot: first the hash of the image ...
HashImage(k, i) ==
  /\ Is(k, i, "check")
  /\ Goes(k, IF image[i] = "right" THEN "capture" ELSE "failed")
  /\ UNCHANGED <<world, worker, stale, ghosts>>

\* ... then a snapshot that is there is verified, or its entries are captured.
Capture(k, i) ==
  /\ Is(k, i, "capture")
  /\ CASE snapshot[i] = "none" -> Becomes(k, "write", image[i], None)
       [] Valid(i)             -> Goes(k, "done")
       [] OTHER                -> Goes(k, "failed")
  /\ UNCHANGED <<world, worker, stale, ghosts>>

WriteSnapshot(k, i) ==
  /\ Is(k, i, "write")
  /\ snapshot' = [snapshot EXCEPT ![i] = child[k].saw]
  /\ stale' = stale \ {i}
  /\ Goes(k, "done")
  /\ UNCHANGED <<files, made, keyReport, treeReport, checkpoint, worker, ghosts>>

-----------------------------------------------------------------------------
(* What worker and children do not do *)

Fault == kills + deaths + drifts < MaxFaults

\* Its child lives on.
Kill ==
  /\ pc # "idle" /\ kills < MaxKills /\ Fault
  /\ kills' = kills + 1
  /\ pc' = "idle"
  /\ child' = IF child[kills].pc \in {"done", "failed"}
                THEN [child EXCEPT ![kills] = NoChild] ELSE child
  /\ UNCHANGED <<world, done, result, got, verdict, stale, ghosts>>

\* A child is killed or fails: between the two renames of a key, of a root and
\* its marker, or after lp-extract and before mv.
ChildDies(k) ==
  /\ child[k].pc \notin {"done", "failed"} /\ deaths < MaxDeaths /\ Fault
  /\ deaths' = deaths + 1
  /\ leftover' \in {leftover} \cup
       {leftover \cup {i} : i \in {j \in Of("donor") : Is(k, "donor", "make") /\ image[j] = "none"}}
  /\ Goes(k, "failed")
  /\ UNCHANGED <<source, vouched, image, listed, made, notes, worker, stale,
                 since, drifts, spoiled, edited>>

Drift(part) ==
  /\ drifts < MaxDrifts /\ Fault
  /\ drifts' = drifts + 1
  /\ stale' = stale \ {part}
  /\ UNCHANGED <<vouched, listed, leftover, roots, begun, tree, checkpoint,
                 worker, child, deaths>>

\* A ZIP is replaced, deleted, put back or touched.
SourceDrifts(r, content) ==
  /\ Drift(r)
  /\ {source[r].content, content} # {"gone"}
  /\ source' = [source EXCEPT ![r] = [content |-> content, id |-> drifts']]
  /\ UNCHANGED <<image, key, certificate, keyReport, treeReport, snapshot,
                 since, spoiled, edited>>

ImageDrifts(i) ==
  /\ Drift(None)
  /\ image[i] # "none"
  /\ image' = [image EXCEPT ![i] = IF @ = "right" THEN "wrong" ELSE "right"]
  /\ since' = [since EXCEPT ![i] = done]
  /\ spoiled' = TRUE
  /\ UNCHANGED <<source, key, certificate, keyReport, treeReport, snapshot, edited>>

\* The pair is replaced by another one, or put back.
PairDrifts(p) ==
  /\ Drift("pair")
  /\ key # None /\ certificate # None /\ p \notin {None, key}
  /\ key' = p /\ certificate' = p
  /\ spoiled' = TRUE
  /\ UNCHANGED <<source, image, keyReport, treeReport, snapshot, since, edited>>

SnapshotDrifts(i, content) ==
  /\ Drift(i)
  /\ snapshot[i] # "none" /\ snapshot[i] # content
  /\ snapshot' = [snapshot EXCEPT ![i] = content]
  /\ spoiled' = TRUE
  /\ UNCHANGED <<source, image, key, certificate, keyReport, treeReport, since, edited>>

\* A report is edited to name another pair.
KeyReportDrifts ==
  /\ Drift(None)
  /\ keyReport # None /\ keyReport' = Other
  /\ spoiled' = TRUE /\ edited' = edited \cup {"key"}
  /\ UNCHANGED <<source, image, key, certificate, treeReport, snapshot, since>>

TreeReportDrifts ==
  /\ Drift(None)
  /\ treeReport # None /\ treeReport' = Other
  /\ spoiled' = TRUE /\ edited' = edited \cup {"tree"}
  /\ UNCHANGED <<source, image, key, certificate, keyReport, snapshot, since>>

Worker ==
  \/ Commit \/ Preflight
  \/ Launch("key") \/ ReadKey \/ ReportKey
  \/ \E r \in Role : ReuseImages(r) \/ RunScript(r) \/ EndScript(r) \/ SourceIdentity(r)
  \/ \E s \in {"inputs", "root"} : Launch(s) \/ EndStage(s)
  \/ Launch("verification") \/ ReadTreeReport
  \/ \E i \in Captured : Launch(i) \/ ReadSnapshot(i)
  \/ ListImages \/ ReadList \/ HashVendor \/ ReadEvidence \/ Publish \/ FindCheckpoint
  \/ VerifySources \/ VerifyKey \/ VerifySnapshots

Child(k) ==
  \/ LookForKey(k) \/ RenameKey(k) \/ RenameCertificate(k) \/ VerifyPair(k)
  \/ \E r \in Role : ExtractSource(k, r) \/ ImagesMade(k, r)
  \/ \E i \in Image : MakeImage(k, i) \/ RefuseImage(k, i)
  \/ VerifyImages(k) \/ WriteList(k)
  \/ CheckRoots(k) \/ MoveRoot(k) \/ MarkRoot(k) \/ SelectInputs(k)
  \/ ReadPair(k) \/ BeginTree(k) \/ CompleteTree(k)
  \/ CheckTree(k) \/ WriteTreeReport(k)
  \/ \E i \in Captured : HashImage(k, i) \/ Capture(k, i) \/ WriteSnapshot(k, i)

Environment ==
  \/ Kill \/ \E k \in Attempt : ChildDies(k)
  \/ \E r \in Role, c \in {"right", "wrong", "gone"} : SourceDrifts(r, c)
  \/ \E i \in Image : ImageDrifts(i)
  \/ \E i \in Captured, c \in Content : SnapshotDrifts(i, c)
  \/ \E p \in {Other, result.pair} : PairDrifts(p)
  \/ KeyReportDrifts \/ TreeReportDrifts

Next == Begin \/ Worker \/ (\E k \in Attempt : Child(k)) \/ Environment

Spec == Init /\ [][Next]_vars

\* The scheduler runs worker and children, and somebody starts the runner again.
LiveSpec ==
  /\ Spec
  /\ WF_vars(Begin) /\ WF_vars(Worker)
  /\ \A k \in Attempt : WF_vars(Child(k))

-----------------------------------------------------------------------------
(* Properties *)

\* create_checkpoint trusts an images.json that an early stage wrote.  All the
\* same no image it certifies went wrong before the stage that captured its
\* metadata (the vendor image: before the checkpoint stage) and stayed so.
Index(s) == CHOOSE k \in 1 .. N : Stage[k] = s
PublishedImagesWereHashed ==
  [][checkpoint = None /\ checkpoint' # None =>
       \A i \in Image :
         image[i] = "wrong" => since[i] >= Index(IF i = Vendor THEN "checkpoint" ELSE i) - 1]_vars

\* What the checkpoint says of sources and snapshots is what the stages returned,
\* although it is read from files that drift, that other attempts replace and
\* that children of killed workers write late.  So is what it says of the pair
\* and of the tree, except when somebody edited development-key.json and put the
\* pair it names in place (the one is compared with the other only), or edited
\* development-root-verified.json (which is compared with nothing).
IsRecorded(c) ==
  /\ c.source = result.source /\ c.snapshot = result.snapshot
  /\ c.pair = result.pair \/ "key" \in edited
  /\ c.tree = result.tree \/ "tree" \in edited

CheckpointIsRecorded == checkpoint # None => IsRecorded(checkpoint)

\* verify_checkpoint accepts nothing that was wrong when it began and is wrong
\* still, except a ZIP that was replaced before its identity was recorded,
\* when an extraction manifest stood for its hash.
AcceptedIsRight ==
  verdict = "accepted" =>
    \A part \in stale : part \in Role /\ source[part].id = checkpoint.source[part]

\* "verify and atomically publish the Case 5.1 checkpoint": a checkpoint says
\* that both source archives are preserved, so none is published of a ZIP that
\* has been gone since create_checkpoint began.
PublishedSourcesAreThere ==
  [][checkpoint = None /\ checkpoint' # None =>
       \A r \in stale : source[r].content # "gone"]_vars

\* What no later attempt gets past: half a pair or a mixed one, a pair that
\* replaced the one that was reported, an image lp-extract left where it will
\* not write again, a root without its marker.
Refused ==
  \/ key # certificate
  \/ result.pair # None /\ certificate # result.pair
  \/ \E i \in leftover : image[i] = "none"
  \/ roots = "unmarked"

\* Killed workers, children that outlive them or die half way, and ZIPs that are
\* touched, or lost and put back, do not keep the pipeline from a checkpoint that
\* is accepted, unless they leave one of the four things that stay refused.
CheckpointReached ==
  [](~spoiled) /\ <>[](\A r \in Role : source[r].content = "right")
    => <>(verdict = "accepted") \/ <>[]Refused
=============================================================================
