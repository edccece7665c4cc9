-------------------------- MODULE MaterializeImages --------------------------
(***************************************************************************)
(* scripts/materialize-case4-images.sh, which turns the two source ZIPs    *)
(* into five images, with what it calls: `extract` of tools/portctl.py and *)
(* `ota-image` and `lp-extract` of tools/imagectl.py.                      *)
(*                                                                         *)
(* The script takes its lock without waiting and its children inherit the  *)
(* descriptor, so that a child outliving a killed script keeps the lock.   *)
(* `pc` is where the script is, `child` the image a child process of it,   *)
(* or of a killed one, is writing.  A child writes a mkstemp file and      *)
(* renames it.  A base image is renamed into images/; a donor image goes   *)
(* to a directory .lp-ID of its own, which the script then empties.        *)
(*                                                                         *)
(* Abstracted: the formats, the hashes (the sources are the locked ones,   *)
(* so that a whole image is the right image), disk space (ChildFails), and *)
(* the verify mode, which changes the report only.                         *)
(***************************************************************************)
EXTENDS Integers, Sequences, FiniteSets, SequencesExt

CONSTANTS
  BaseImages,   \* the images of the base in the script's order
  DonorImages,  \* the images of the donor in the script's order
  NoImage,
  MaxFaults     \* bound on kills and failures of a behavior

ImagesAssumption ==
  /\ BaseImages \in Seq(ToSet(BaseImages)) /\ BaseImages # <<>>
  /\ DonorImages \in Seq(ToSet(DonorImages)) /\ DonorImages # <<>>
  /\ ToSet(BaseImages) \cap ToSet(DonorImages) = {}
  /\ NoImage \notin ToSet(BaseImages \o DonorImages)
  /\ MaxFaults \in Nat

VARIABLES
  source,   \* is the role's ZIP still there?
  layer,    \* extracted/ROLE: "absent", "part" or "whole"
  images,   \* published images
  lp,       \* what is in each .lp-ID: a whole image, left-over mkstemp files
  report,   \* does images.json exist?
  pc, mode, consume, at,   \* of the script; at is its place in the list
  child,
  faults

vars == <<source, layer, images, lp, report, pc, mode, consume, at, child, faults>>

Role  == {"base", "donor"}
List(r) == IF r = "base" THEN BaseImages ELSE DonorImages
Image == ToSet(BaseImages \o DonorImages)
PC    == {"idle", "extract", "image", "child", "move", "tidy", "verify",
          "report", "prune", "consume"}

Current  == List(mode)[at]
Materialized(r) == ToSet(List(r)) \subseteq images

TypeOK ==
  /\ source \in [Role -> BOOLEAN]
  /\ layer \in [Role -> {"absent", "part", "whole"}]
  /\ images \in SUBSET Image
  /\ lp \in [ToSet(DonorImages) -> SUBSET {"whole", "junk"}]
  /\ report \in BOOLEAN
  /\ pc \in PC /\ mode \in Role /\ consume \in BOOLEAN
  /\ at \in 1 .. Len(List(mode))
  /\ child \in Image \cup {NoImage}
  /\ faults \in 0 .. MaxFaults

Init ==
  /\ source = [r \in Role |-> TRUE]
  /\ layer = [r \in Role |-> "absent"]
  /\ images = {}
  /\ lp = [i \in ToSet(DonorImages) |-> {}]
  /\ report = FALSE
  /\ pc = "idle" /\ mode = "base" /\ consume = FALSE /\ at = 1
  /\ child = NoImage
  /\ faults = 0

Fault == faults < MaxFaults /\ faults' = faults + 1

-----------------------------------------------------------------------------
\* Mutant: the children do not inherit the lock.
Start_LockNotInherited(r, c) ==
  /\ pc = "idle"
  /\ source[r]
  /\ pc' = "extract" /\ mode' = r /\ consume' = c /\ at' = 1
  /\ UNCHANGED <<source, layer, images, lp, report, child, faults>>

\* Mutant: an extraction that was begun is refused instead of reused.
Start_FreshOnly(r, c) ==
  /\ pc = "idle" /\ child = NoImage
  /\ source[r] /\ layer[r] = "absent"
  /\ pc' = "extract" /\ mode' = r /\ consume' = c /\ at' = 1
  /\ UNCHANGED <<source, layer, images, lp, report, child, faults>>

\* The lock is free: there is no script and no child of a killed one.
Start(r, c) ==
  /\ pc = "idle" /\ child = NoImage
  /\ source[r]
  /\ pc' = "extract" /\ mode' = r /\ consume' = c /\ at' = 1
  /\ UNCHANGED <<source, layer, images, lp, report, child, faults>>

\* portctl extract reuses what is there and adds what is missing.
Extract ==
  /\ pc = "extract"
  /\ layer' = [layer EXCEPT ![mode] = "whole"]
  /\ pc' = "image"
  /\ UNCHANGED <<source, images, lp, report, mode, consume, at, child, faults>>

ReuseImage ==
  /\ pc = "image"
  /\ Current \in images
  /\ pc' = "verify"
  /\ UNCHANGED <<source, layer, images, lp, report, mode, consume, at, child, faults>>

\* imagectl starts; lp-extract refuses an output that exists (_prepare_output)
\* and the script ends with it.
StartChild ==
  /\ pc = "image"
  /\ Current \notin images
  /\ IF mode = "donor" /\ "whole" \in lp[Current]
       THEN pc' = "idle" /\ UNCHANGED child
       ELSE pc' = "child" /\ child' = Current
  /\ UNCHANGED <<source, layer, images, lp, report, mode, consume, at, faults>>

\* The child renames its mkstemp file, whether the script lives or not.
ChildPublishes ==
  /\ child # NoImage
  /\ IF child \in ToSet(BaseImages)
       THEN images' = images \cup {child} /\ UNCHANGED lp
       ELSE lp' = [lp EXCEPT ![child] = @ \cup {"whole"}] /\ UNCHANGED images
  /\ child' = NoImage
  /\ UNCHANGED <<source, layer, report, pc, mode, consume, at, faults>>

\* The child raises and removes its mkstemp file (a full disk), or is killed
\* and leaves it.  A script that waits for it ends.
ChildFails ==
  /\ child # NoImage
  /\ Fault
  /\ \/ UNCHANGED lp
     \/ child \in ToSet(DonorImages) /\ lp' = [lp EXCEPT ![child] = @ \cup {"junk"}]
  /\ child' = NoImage
  /\ pc' = "idle"
  /\ UNCHANGED <<source, layer, images, report, mode, consume, at>>

ChildReturns ==
  /\ pc = "child"
  /\ child = NoImage
  /\ pc' = IF mode = "base" THEN "verify" ELSE "move"
  /\ UNCHANGED <<source, layer, images, lp, report, mode, consume, at, child, faults>>

Move ==
  /\ pc = "move"
  /\ "whole" \in lp[Current]
  /\ images' = images \cup {Current}
  /\ lp' = [lp EXCEPT ![Current] = @ \ {"whole"}]
  /\ pc' = "tidy"
  /\ UNCHANGED <<source, layer, report, mode, consume, at, child, faults>>

\* rmdir fails, and the script with it, when .lp-ID is not empty.
Tidy ==
  /\ pc = "tidy"
  /\ pc' = IF lp[Current] = {} THEN "verify" ELSE "idle"
  /\ UNCHANGED <<source, layer, images, lp, report, mode, consume, at, child, faults>>

\* Mutant: the loop ends one image early.
Verify_EndsEarly ==
  /\ pc = "verify"
  /\ IF at < Len(List(mode)) - 1
       THEN pc' = "image" /\ at' = at + 1
       ELSE pc' = (IF mode = "base" THEN "prune" ELSE "report") /\ UNCHANGED at
  /\ UNCHANGED <<source, layer, images, lp, report, mode, consume, child, faults>>

\* Mutant: the index runs past the list.
Verify_RunsOn ==
  /\ pc = "verify"
  /\ at' = at + 1
  /\ pc' = IF at < Len(List(mode)) THEN "image" ELSE IF mode = "base" THEN "prune" ELSE "report"
  /\ UNCHANGED <<source, layer, images, lp, report, mode, consume, child, faults>>

\* verify_one: e2fsck and the locked identity of the image.
Verify ==
  /\ pc = "verify"
  /\ IF at < Len(List(mode))
       THEN pc' = "image" /\ at' = at + 1
       ELSE pc' = (IF mode = "base" THEN "prune" ELSE "report") /\ UNCHANGED at
  /\ UNCHANGED <<source, layer, images, lp, report, mode, consume, child, faults>>

\* verify_all wants all five images: a donor that is materialized before the
\* base ends here.
Report ==
  /\ pc = "report"
  /\ report' = (report \/ images = Image)
  /\ pc' = IF images = Image THEN "prune" ELSE "idle"
  /\ UNCHANGED <<source, layer, images, lp, mode, consume, at, child, faults>>

Prune ==
  /\ pc = "prune"
  /\ layer' = [layer EXCEPT ![mode] = "absent"]
  /\ pc' = "consume"
  /\ UNCHANGED <<source, images, lp, report, mode, consume, at, child, faults>>

\* consume_downloaded_source, and the end of the script.
Consume ==
  /\ pc = "consume"
  /\ source' = [source EXCEPT ![mode] = @ /\ ~consume]
  /\ pc' = "idle"
  /\ UNCHANGED <<layer, images, lp, report, mode, consume, at, child, faults>>

\* The script is killed, its child lives on; portctl and rm may have done a
\* part of their work.
Kill ==
  /\ pc # "idle"
  /\ Fault
  /\ pc' = "idle"
  /\ layer' \in IF pc \in {"extract", "prune"}
                  THEN {layer, [layer EXCEPT ![mode] = "part"]} ELSE {layer}
  /\ UNCHANGED <<source, images, lp, report, mode, consume, at, child>>

Step ==
  \/ Extract \/ ReuseImage \/ StartChild \/ ChildReturns \/ Move \/ Tidy
  \/ Verify \/ Report \/ Prune \/ Consume

Next ==
  \/ \E r \in Role, c \in BOOLEAN : Start(r, c)
  \/ Step \/ ChildPublishes \/ ChildFails \/ Kill

Spec == Init /\ [][Next]_vars

-----------------------------------------------------------------------------
(* Properties *)

\* "... removes only the exact intermediate source layer after all dependent
\* outputs pass": while a layer is being removed, and when a ZIP is gone for
\* good, every image made of it is published; and the donor's ZIP goes only
\* after the report of all five, which exists only where they do.
SourceGoesLast ==
  /\ \A r \in Role :
       (pc \in {"prune", "consume"} /\ mode = r) \/ ~source[r] => Materialized(r)
  /\ ~source["donor"] => report
  /\ report => images = Image

\* A child of a killed script and a new script never work at the same time:
\* whoever runs, only the image it is at is being written, and no image is
\* written that others may already read.
OneWriter ==
  child # NoImage => /\ child \notin images
                     /\ pc # "idle" => pc = "child" /\ child = Current

-----------------------------------------------------------------------------
(* Liveness *)

\* A script and a child go on, and an attempt is repeated until the images
\* of its role are there (the stage materialize_images of tools/case5ctl.py,
\* which does not ask to consume the source).
Again(r) == ~Materialized(r) /\ Start(r, FALSE)

\* The base's images are there some day, unless somebody consumed the ZIP.
BaseMaterializes == source["base"] ~> Materialized("base")

\* "Running start again is also safe: ... a stopped worker resumes at the
\* first incomplete stage": the donor's stage completes some day.
DonorMaterializes == <>Materialized("donor")
=============================================================================
