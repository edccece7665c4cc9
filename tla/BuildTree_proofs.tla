--------------------------- MODULE BuildTree_proofs ---------------------------
(***************************************************************************)
(* What TLAPS proves of BuildTree, for any profile (sets of paths) and any *)
(* number of kills and exceptions.                                         *)
(***************************************************************************)
EXTENDS BuildTree, TLAPS

\* Every lemma that needs it assumes it: the profile is a parameter of Stages.
USE DEF BuildAssumption

-----------------------------------------------------------------------------
(* The copies of the transplant *)

LEMMA PlanFacts ==
  /\ Last = 7
  /\ Plan[1].clear = System /\ Plan[1].link = Donor /\ Plan[1].from = "donor"
  /\ Plan[2].clear = Protected /\ Plan[2].link = Protected \cap Base /\ Plan[2].from = "base"
  /\ Plan[3].clear = Retained /\ Plan[3].link = Retained \cap Base /\ Plan[3].from = "base"
  /\ Plan[4].clear = Replaced /\ Plan[4].link = {} /\ Plan[4].from = "donor"
  /\ Plan[5].clear = Chosen /\ Plan[5].link = Selected /\ Plan[5].from = "donor"
  /\ Plan[6].clear = Duplicate /\ Plan[6].link = {} /\ Plan[6].from = "donor"
  /\ Plan[7].clear = Preopt /\ Plan[7].link = {} /\ Plan[7].from = "donor"
  BY DEF Plan, Last

LEMMA PlanBounds ==
  ASSUME BuildAssumption
  PROVE  /\ \A k \in 1 .. Last :
              /\ Plan[k].link \subseteq Plan[k].clear /\ Plan[k].clear \subseteq Path
              /\ Plan[k].from \in {"base", "donor"}
         /\ \A k \in 1 .. 6 : Plan[k].clear \subseteq System
<1>1. \A k \in 1 .. 7 : k = 1 \/ k = 2 \/ k = 3 \/ k = 4 \/ k = 5 \/ k = 6 \/ k = 7
  OBVIOUS
<1>. QED BY <1>1, PlanFacts

\* What copy k makes of a path that it clears.
Effect(k, f) == IF f \in Plan[k].link THEN Plan[k].from ELSE "absent"

\* Copy j is the last one up to the k-th that clears f.
IsLast(j, k, f) == f \in Plan[j].clear /\ \A i \in (j + 1) .. k : f \notin Plan[i].clear

\* The path f is as k copies leave it, the attempts before having left what they
\* like below /system and taken the preopt files outside away, perhaps.
Copied(k, f) ==
  \/ \E j \in 1 .. k : IsLast(j, k, f) /\ tree[f] = Effect(j, f)
  \/ k = 0 /\ f \in System
  \/ /\ f \notin System /\ \A j \in 1 .. k : f \notin Plan[j].clear
     /\ tree[f] = BaseTree[f] \/ (f \in Preopt /\ tree[f] = "absent")

\* One copy more.
LEMMA CopyMore ==
  ASSUME BuildAssumption, NEW k \in 1 .. Last, NEW f \in Path,
         f \in Plan[k].clear => tree[f] = Effect(k, f),
         f \notin Plan[k].clear => Copied(k - 1, f)
  PROVE  Copied(k, f)
<1>1. CASE f \in Plan[k].clear
  <2>1. IsLast(k, k, f)
    BY <1>1 DEF IsLast
  <2>. QED BY <1>1, <2>1 DEF Copied
<1>2. CASE f \notin Plan[k].clear
  <2>1. k \in Nat /\ k >= 1
    BY PlanFacts
  <2>2. ASSUME NEW j \in 1 .. (k - 1), IsLast(j, k - 1, f)
        PROVE  j \in 1 .. k /\ IsLast(j, k, f)
    BY <1>2, <2>1, <2>2 DEF IsLast
  <2>3. ~(k - 1 = 0 /\ f \in System)
    BY <1>2, <2>1, PlanFacts
  <2>4. (\A j \in 1 .. (k - 1) : f \notin Plan[j].clear) => \A j \in 1 .. k : f \notin Plan[j].clear
    BY <1>2, <2>1
  <2>. QED BY <1>2, <2>2, <2>3, <2>4 DEF Copied
<1>. QED BY <1>1, <1>2

\* All copies make the tree the profile calls for.
LEMMA AllCopied ==
  ASSUME BuildAssumption, NEW f \in Path, Copied(Last, f)
  PROVE  tree[f] = Transplanted[f]
<1>. USE PlanFacts
<1>0. /\ Protected \cup Retained \cup Replaced \cup Chosen \cup Duplicate \subseteq System
      /\ Donor \subseteq System /\ Selected \subseteq Chosen
  OBVIOUS
<1>1. ASSUME NEW j \in 1 .. 7, IsLast(j, 7, f), tree[f] = Effect(j, f)
      PROVE  tree[f] = Transplanted[f]
  <2>1. CASE j = 7
    BY <1>1, <2>1 DEF IsLast, Effect, Transplanted
  <2>2. CASE j = 6
    BY <1>1, <2>2 DEF IsLast, Effect, Transplanted
  <2>3. CASE j = 5
    BY <1>1, <2>3 DEF IsLast, Effect, Transplanted
  <2>4. CASE j = 4
    BY <1>1, <2>4 DEF IsLast, Effect, Transplanted
  <2>5. CASE j = 3
    BY <1>1, <2>5 DEF IsLast, Effect, Transplanted
  <2>6. CASE j = 2
    BY <1>1, <2>6 DEF IsLast, Effect, Transplanted
  <2>7. CASE j = 1
    BY <1>1, <2>7 DEF IsLast, Effect, Transplanted
  <2>. QED BY <2>1, <2>2, <2>3, <2>4, <2>5, <2>6, <2>7
<1>2. CASE /\ f \notin System /\ \A j \in 1 .. 7 : f \notin Plan[j].clear
           /\ tree[f] = BaseTree[f] \/ (f \in Preopt /\ tree[f] = "absent")
  <2>1. f \notin Preopt
    BY <1>2
  <2>. QED BY <1>0, <1>2, <2>1 DEF BaseTree, Transplanted
<1>. QED BY <1>1, <1>2 DEF Copied

-----------------------------------------------------------------------------
(* Types *)

LEMMA ResumeTypes ==
  ASSUME BuildAssumption, NEW p, Resume(p)
  PROVE  at' \in 1 .. Last /\ pc' \in PC /\ todo' \in SUBSET Path
<1>1. Present(Apk) \in SUBSET Path /\ Patched \in SUBSET Path
  BY DEF Present
<1>2. at' = 1 /\ 1 \in 1 .. Last
  BY PlanFacts DEF Resume
<1>. QED BY <1>1, <1>2 DEF Resume, PC

LEMMA FaultTypes ==
  ASSUME BuildAssumption, TypeOK, Fault
  PROVE  faults' \in 0 .. MaxFaults
  BY DEF TypeOK, Fault

\* The phase an attempt works in, by the place where it is.
PlaceInv ==
  /\ pc = "stage" => phase = "initializing"
  /\ pc \in {"check", "clear", "link"} => phase = "staged"
  /\ pc = "patch" => phase = "transplanted"
  /\ pc = "sign" => phase = "patched"
  /\ pc = "verify" => phase \in {"signed", "complete"}

\* What is being written is what is to do, and an APK is not signed twice.
DraftInv ==
  /\ pc \notin {"patch", "sign"} => draft = NoPath
  /\ pc = "patch" => todo \subseteq Patched /\ draft \in todo \cup {NoPath}
  /\ pc = "sign" =>
       /\ todo \subseteq Present(Apk) /\ draft \in (todo \cap Platform) \cup {NoPath}
       /\ draft # NoPath => tree[draft] # "signed" /\ draft \notin signed

\* Signing temporaries: only of APKs that are there and have no signature yet.
SignedInv ==
  /\ \A f \in signed : f \in Platform /\ tree[f] \notin {"absent", "signed"}
  /\ phase # "patched" => signed = {}
  /\ pc = "sign" => signed \subseteq todo

LEMMA TypeStep ==
  ASSUME BuildAssumption, TypeOK, DraftInv, [Next]_vars
  PROVE  TypeOK'
<1>. USE PlanBounds
<1>1. CASE Begin
  BY <1>1, ResumeTypes DEF Begin, TypeOK, Phase
<1>2. CASE StageBase \/ RecordStaged
  <2>1. BaseTree \in [Path -> Content]
    BY DEF BaseTree, Content
  <2>. QED BY <1>2, <2>1, ResumeTypes DEF StageBase, RecordStaged, Record, TypeOK, Phase
<1>3. CASE Check \/ Cleared \/ NextCopy \/ RecordTransplanted
  <2>1. NextCopy => at' \in 1 .. Last
    BY PlanFacts DEF NextCopy, TypeOK
  <2>. QED BY <1>3, <2>1, ResumeTypes
           DEF Check, Cleared, NextCopy, RecordTransplanted, Record, TypeOK, PC, Phase
<1>4. ASSUME NEW f \in Path, Remove(f) \/ Link(f)
      PROVE  TypeOK'
  <2>1. Plan[at].from \in Content
    BY DEF TypeOK, Content
  <2>. QED BY <1>4, <2>1 DEF Remove, Link, TypeOK, Content
<1>5. CASE PatchPublish \/ RecordPatched
  <2>1. PatchPublish => draft \in Path
    BY DEF PatchPublish, TypeOK
  <2>. QED BY <1>5, <2>1, ResumeTypes
           DEF PatchPublish, RecordPatched, Record, TypeOK, Content, Phase
<1>6. CASE RecordSigned
  <2>1. Present(Apk) \ Platform \in SUBSET Apk
    BY DEF Present
  <2>. QED BY <1>6, <2>1, ResumeTypes DEF RecordSigned, Record, TypeOK, Phase
<1>7. CASE SignSave
  BY <1>7 DEF SignSave, DraftInv, TypeOK
<1>8. CASE Verify
  BY <1>8 DEF Verify, TypeOK, Phase, PC
<1>9. ASSUME NEW f \in Path, PatchDraft(f) \/ SignDraft(f) \/ SignPublish(f) \/ SignPreserve(f)
      PROVE  TypeOK'
  BY <1>9 DEF PatchDraft, SignDraft, SignPublish, SignPreserve, TypeOK, Content
<1>10. CASE Kill \/ Raise
  <2>1. faults' \in 0 .. MaxFaults
    BY <1>10, FaultTypes DEF Kill, Raise
  <2>2. junk' \in SUBSET Path /\ at' \in 1 .. Last
    BY <1>10, PlanFacts DEF Kill, Raise, TypeOK
  <2>. QED BY <1>10, <2>1, <2>2 DEF Kill, Raise, TypeOK, PC
<1>11. CASE UNCHANGED vars
  BY <1>11 DEF vars, TypeOK
<1>. QED BY <1>1, <1>2, <1>3, <1>4, <1>5, <1>6, <1>7, <1>8, <1>9, <1>10, <1>11 DEF Next, Step

-----------------------------------------------------------------------------
(* Places, drafts and signing temporaries *)

LEMMA PlaceStep ==
  ASSUME TypeOK, PlaceInv, [Next]_vars
  PROVE  PlaceInv'
<1>. USE DEF PlaceInv
<1>1. ASSUME NEW p \in Phase \ {"none"}, phase' = p, Resume(p)
      PROVE  PlaceInv'
  BY <1>1 DEF Resume, Phase
<1>2. CASE Begin
  <2>1. phase' \in Phase \ {"none"} /\ Resume(phase')
    BY <1>2 DEF Begin, TypeOK, Phase
  <2>. QED BY <1>1, <2>1
<1>3. CASE RecordStaged \/ RecordTransplanted \/ RecordPatched \/ RecordSigned
  BY <1>1, <1>3 DEF RecordStaged, RecordTransplanted, RecordPatched, RecordSigned, Record, Phase
<1>4. CASE StageBase \/ Check \/ Cleared \/ NextCopy
  BY <1>4 DEF StageBase, Check, Cleared, NextCopy, Linked
<1>5. CASE PatchPublish \/ SignSave \/ Verify
  BY <1>5 DEF PatchPublish, SignSave, Verify
<1>6. ASSUME NEW f \in Path,
             \/ Remove(f) \/ Link(f) \/ PatchDraft(f) \/ SignDraft(f) \/ SignPublish(f)
             \/ SignPreserve(f)
      PROVE  PlaceInv'
  BY <1>6 DEF Remove, Link, PatchDraft, SignDraft, SignPublish, SignPreserve
<1>7. CASE Kill \/ Raise \/ UNCHANGED vars
  BY <1>7 DEF Kill, Raise, vars
<1>. QED BY <1>2, <1>3, <1>4, <1>5, <1>6, <1>7 DEF Next, Step

LEMMA DraftStep ==
  ASSUME BuildAssumption, TypeOK, PlaceInv, DraftInv, SignedInv, [Next]_vars
  PROVE  DraftInv' /\ SignedInv'
<1>. USE DEF Present, TypeOK
<1>1. CASE Begin
  <2>1. draft = NoPath /\ draft' = draft /\ tree' = tree /\ signed' = signed
    BY <1>1 DEF Begin, DraftInv
  <2>2. DraftInv'
    BY <1>1, <2>1 DEF Begin, Resume, DraftInv
  <2>3. phase' # "patched" => signed = {}
    BY <1>1 DEF Begin, SignedInv
  <2>4. pc' = "sign" => signed \subseteq todo'
    BY <1>1, <2>1 DEF Begin, Resume, SignedInv
  <2>. QED BY <2>1, <2>2, <2>3, <2>4 DEF SignedInv
<1>2. CASE RecordStaged \/ RecordTransplanted
  BY <1>2 DEF RecordStaged, RecordTransplanted, Linked, Record, Resume, PlaceInv, DraftInv, SignedInv
<1>3. CASE RecordPatched
  BY <1>3 DEF RecordPatched, Record, Resume, PlaceInv, DraftInv, SignedInv
<1>4. CASE RecordSigned
  BY <1>4 DEF RecordSigned, Record, Resume, PlaceInv, DraftInv, SignedInv
<1>5. CASE StageBase \/ Check \/ Cleared \/ NextCopy
  BY <1>5 DEF StageBase, Check, Cleared, NextCopy, Linked, PlaceInv, DraftInv, SignedInv
<1>6. ASSUME NEW f \in Path, Remove(f) \/ Link(f) \/ PatchDraft(f)
      PROVE  DraftInv' /\ SignedInv'
  BY <1>6 DEF Remove, Link, PatchDraft, PlaceInv, DraftInv, SignedInv
<1>7. CASE PatchPublish \/ Verify
  BY <1>7 DEF PatchPublish, Verify, PlaceInv, DraftInv, SignedInv
<1>8. CASE SignSave
  <2>1. draft \in todo \cap Platform /\ phase = "patched" /\ tree[draft] \notin {"absent", "signed"}
    BY <1>8 DEF SignSave, PlaceInv, DraftInv
  <2>2. DraftInv'
    BY <1>8 DEF SignSave, DraftInv
  <2>3. signed' = signed \cup {draft} /\ UNCHANGED <<phase, tree, todo, pc>>
    BY <1>8 DEF SignSave
  <2>. QED BY <2>1, <2>2, <2>3 DEF SignedInv
<1>9. ASSUME NEW f \in Path, SignDraft(f)
      PROVE  DraftInv' /\ SignedInv'
  BY <1>9 DEF SignDraft, DraftInv, SignedInv
<1>10. ASSUME NEW f \in Path, SignPublish(f)
       PROVE  DraftInv' /\ SignedInv'
  BY <1>10 DEF SignPublish, PlaceInv, DraftInv, SignedInv
<1>11. ASSUME NEW f \in Path, SignPreserve(f)
       PROVE  DraftInv' /\ SignedInv'
  BY <1>11 DEF SignPreserve, PlaceInv, DraftInv, SignedInv
<1>12. CASE Kill \/ Raise
  BY <1>12 DEF Kill, Raise, DraftInv, SignedInv
<1>13. CASE UNCHANGED vars
  BY <1>13 DEF vars, DraftInv, SignedInv
<1>. QED BY <1>1, <1>2, <1>3, <1>4, <1>5, <1>6, <1>7, <1>8, <1>9, <1>10, <1>11, <1>12, <1>13
         DEF Next, Step

-----------------------------------------------------------------------------
(* The tree *)

Staging == {"none", "initializing", "staged"}

\* Up to the transplant: a part of the base, and below /system what an attempt
\* left there.
StagedInv ==
  /\ phase = "none" => \A f \in Path : tree[f] = "absent"
  /\ phase = "initializing" => (\A f \in Path : tree[f] = "absent") \/ tree = BaseTree
  /\ phase \in Staging => \A f \in Path : tree[f] \in {"absent", "base", "donor"}
  /\ phase = "staged" => \A f \in Path : Copied(0, f)

\* The copies an attempt has made.
CopiesInv ==
  /\ pc = "check" => \A f \in Path : Copied(at - 1, f)
  /\ pc = "clear" =>
       \A f \in Path : Copied(at - 1, f) \/ (f \in Plan[at].clear /\ tree[f] = "absent")
  /\ pc = "link" =>
       \A f \in Path : IF f \in Plan[at].clear THEN tree[f] \in {"absent", Effect(at, f)}
                                              ELSE Copied(at - 1, f)

\* What an attempt has patched, and what it has signed or let alone.
TodoInv ==
  /\ pc = "patch" => \A f \in Patched \ todo : tree[f] = "patched"
  /\ pc = "sign" => \A f \in Platform \ todo : tree[f] \in {"absent", "signed"}

IInv ==
  /\ TypeOK
  /\ PlaceInv
  /\ DraftInv
  /\ SignedInv
  /\ StagedInv
  /\ CopiesInv
  /\ TodoInv
  /\ PhaseIsEarned

LEMMA InitIInv ==
  ASSUME BuildAssumption, Init
  PROVE  IInv
<1>1. TypeOK
  BY PlanFacts DEF Init, TypeOK, Phase, Content, PC
<1>2. PlaceInv /\ DraftInv /\ SignedInv
  BY DEF Init, PlaceInv, DraftInv, SignedInv
<1>3. StagedInv /\ CopiesInv /\ TodoInv /\ PhaseIsEarned
  BY DEF Init, StagedInv, CopiesInv, TodoInv, PhaseIsEarned
<1>. QED BY <1>1, <1>2, <1>3 DEF IInv

\* A removal or a link of the transplant.
LEMMA CopyStep ==
  ASSUME BuildAssumption, TypeOK, PlaceInv, StagedInv, CopiesInv, NEW f \in Path,
         Remove(f) \/ Link(f)
  PROVE  StagedInv' /\ CopiesInv'
<1>. USE DEF TypeOK
<1>1. phase = "staged" /\ phase' = "staged" /\ pc' = pc /\ at' = at /\ at \in 1 .. Last
  BY DEF Remove, Link, PlaceInv
<1>2. f \in Plan[at].clear
  BY PlanBounds DEF Remove, Link, Present
<1>3. /\ \A g \in Path \ {f} : tree'[g] = tree[g]
      /\ tree'[f] = "absent" \/ (pc = "link" /\ tree'[f] = Effect(at, f))
      /\ pc = "clear" => tree'[f] = "absent"
  BY DEF Remove, Link, Effect
<1>4. tree'[f] \in {"absent", "base", "donor"}
  BY <1>1, <1>3, PlanBounds DEF Effect
<1>5. \A g \in Path \ {f}, k \in 0 .. Last : Copied(k, g) => Copied(k, g)'
  BY <1>3 DEF Copied, Effect
<1>6. Copied(0, f)'
  <2>1. CASE f \in System
    BY <2>1 DEF Copied
  <2>2. CASE f \notin System
    <3>1. at = 7 /\ f \in Preopt /\ Effect(at, f) = "absent"
      BY <1>1, <1>2, <2>2, PlanFacts, PlanBounds DEF Effect
    <3>. QED BY <1>3, <2>2, <3>1 DEF Copied
  <2>. QED BY <2>1, <2>2
<1>7. StagedInv'
  <2>1. 0 \in 0 .. Last
    BY PlanFacts
  <2>2. \A g \in Path : Copied(0, g)'
    BY <1>1, <1>5, <1>6, <2>1 DEF StagedInv
  <2>3. \A g \in Path : tree'[g] \in {"absent", "base", "donor"}
    BY <1>1, <1>3, <1>4 DEF StagedInv, Staging
  <2>. QED BY <1>1, <2>2, <2>3 DEF StagedInv
<1>8. CopiesInv'
  <2>0. at - 1 \in 0 .. Last /\ pc \in {"clear", "link"}
    BY <1>1, PlanFacts DEF Remove, Link
  <2>1. CASE pc = "clear"
    BY <1>1, <1>2, <1>3, <1>5, <2>0, <2>1 DEF CopiesInv
  <2>2. CASE pc = "link"
    BY <1>1, <1>2, <1>3, <1>5, <2>0, <2>2 DEF CopiesInv, Effect
  <2>. QED BY <2>0, <2>1, <2>2
<1>. QED BY <1>7, <1>8

LEMMA StagedStep ==
  ASSUME BuildAssumption, IInv, [Next]_vars
  PROVE  StagedInv' /\ CopiesInv'
<1>. USE DEF IInv, TypeOK, Staging
<1>0. (\A g \in Path, k \in 0 .. Last : Copied(k, g)' <=> Copied(k, g)) \/ tree' # tree
  BY DEF Copied, Effect
<1>1. CASE Begin
  <2>1. tree' = tree /\ (phase' = phase \/ (phase = "none" /\ phase' = "initializing"))
    BY <1>1 DEF Begin
  <2>2. phase' = "initializing" => pc' = "stage"
    BY <1>1 DEF Begin, Resume
  <2>3. pc' \in {"check", "clear", "link"} => pc' = "check" /\ phase' = "staged" /\ at' = 1
    BY <1>1 DEF Begin, Resume, Phase
  <2>4. 0 \in 0 .. Last
    BY PlanFacts
  <2>5. StagedInv'
    BY <1>0, <2>1, <2>4 DEF StagedInv
  <2>. QED BY <2>3, <2>5 DEF CopiesInv, StagedInv
<1>2. CASE StageBase
  <2>1. phase = "initializing" /\ phase' = phase /\ pc' = "stage" /\ tree' = BaseTree
    BY <1>2 DEF StageBase, PlaceInv
  <2>2. \A f \in Path : BaseTree[f] \in {"absent", "base", "donor"}
    BY DEF BaseTree
  <2>. QED BY <2>1, <2>2 DEF StagedInv, CopiesInv
<1>3. CASE RecordStaged
  <2>1. phase = "initializing" /\ phase' = "staged" /\ pc' = "check" /\ at' = 1 /\ tree' = tree
    BY <1>3 DEF RecordStaged, Record, Resume, PlaceInv
  <2>2. tree = BaseTree
    BY <1>3, <2>1 DEF RecordStaged, Present, StagedInv
  <2>3. \A f \in Path : Copied(0, f)'
    BY <2>1, <2>2 DEF Copied
  <2>4. \A f \in Path : tree'[f] \in {"absent", "base", "donor"}
    BY <2>1, <2>2 DEF BaseTree
  <2>. QED BY <2>1, <2>3, <2>4 DEF StagedInv, CopiesInv
<1>4. CASE Check \/ Cleared \/ NextCopy
  <2>1. /\ tree' = tree /\ phase' = phase /\ phase = "staged"
        /\ \A g \in Path, k \in 0 .. Last : Copied(k, g)' <=> Copied(k, g)
    BY <1>0, <1>4 DEF Check, Cleared, NextCopy, Linked, PlaceInv
  <2>2. StagedInv'
    <3>1. 0 \in 0 .. Last
      BY PlanFacts
    <3>. QED BY <2>1, <3>1 DEF StagedInv
  <2>3. CASE Check
    <3>1. at - 1 \in 0 .. Last
      BY PlanFacts
    <3>. QED BY <2>1, <2>2, <2>3, <3>1 DEF Check, CopiesInv
  <2>4. CASE Cleared
    <3>1. at - 1 \in 0 .. Last
      BY PlanFacts
    <3>2. \A f \in Path : f \in Plan[at].clear => tree[f] = "absent"
      BY <2>4 DEF Cleared, Present
    <3>. QED BY <2>1, <2>2, <2>4, <3>1, <3>2 DEF Cleared, CopiesInv
  <2>5. CASE NextCopy
    <3>1. at \in 0 .. Last /\ at' = at + 1 /\ at' - 1 = at /\ pc = "link" /\ pc' = "check"
      BY <2>5, PlanFacts DEF NextCopy, Linked
    <3>2. ASSUME NEW f \in Path
          PROVE  Copied(at, f)
      <4>1. f \in Plan[at].clear => tree[f] = Effect(at, f)
        BY <2>5, <3>1 DEF NextCopy, Linked, Present, CopiesInv, Effect
      <4>2. f \notin Plan[at].clear => Copied(at - 1, f)
        BY <3>1 DEF CopiesInv
      <4>. QED BY <4>1, <4>2, CopyMore
    <3>. QED BY <2>1, <2>2, <3>1, <3>2 DEF CopiesInv
  <2>. QED BY <1>4, <2>3, <2>4, <2>5
<1>5. ASSUME NEW f \in Path, Remove(f) \/ Link(f)
      PROVE  StagedInv' /\ CopiesInv'
  BY <1>5, CopyStep
<1>6. CASE RecordTransplanted \/ RecordPatched \/ RecordSigned
  BY <1>6 DEF RecordTransplanted, RecordPatched, RecordSigned, Record, Resume, StagedInv, CopiesInv
<1>7. CASE PatchPublish \/ SignSave \/ Verify
  BY <1>7 DEF PatchPublish, SignSave, Verify, PlaceInv, StagedInv, CopiesInv
<1>8. ASSUME NEW f \in Path, PatchDraft(f) \/ SignDraft(f) \/ SignPublish(f) \/ SignPreserve(f)
      PROVE  StagedInv' /\ CopiesInv'
  BY <1>8 DEF PatchDraft, SignDraft, SignPublish, SignPreserve, PlaceInv, StagedInv, CopiesInv
<1>9. CASE Kill \/ Raise \/ UNCHANGED vars
  <2>1. tree' = tree /\ phase' = phase
    BY <1>9 DEF Kill, Raise, vars
  <2>2. StagedInv'
    <3>1. 0 \in 0 .. Last
      BY PlanFacts
    <3>. QED BY <1>0, <2>1, <3>1 DEF StagedInv
  <2>3. CASE pc' = "idle"
    BY <2>2, <2>3 DEF CopiesInv
  <2>4. CASE UNCHANGED vars
    <3>1. at - 1 \in 0 .. Last
      BY PlanFacts
    <3>. QED BY <1>0, <2>2, <2>4, <3>1 DEF vars, CopiesInv, Effect
  <2>. QED BY <1>9, <2>3, <2>4 DEF Kill, Raise
<1>. QED BY <1>1, <1>2, <1>3, <1>4, <1>5, <1>6, <1>7, <1>8, <1>9 DEF Next, Step

\* The transplant is recorded when all copies are made.
LEMMA TransplantDone ==
  ASSUME BuildAssumption, IInv, RecordTransplanted
  PROVE  \A f \in Path : tree[f] = Transplanted[f]
<1>1. pc = "link" /\ at = Last /\ Last \in 1 .. Last
  BY PlanFacts DEF RecordTransplanted, Linked
<1>2. SUFFICES ASSUME NEW f \in Path
               PROVE  tree[f] = Transplanted[f]
  OBVIOUS
<1>3. f \in Plan[Last].clear => tree[f] = Effect(Last, f)
  BY <1>1 DEF RecordTransplanted, Linked, Present, IInv, CopiesInv, Effect
<1>4. f \notin Plan[Last].clear => Copied(Last - 1, f)
  BY <1>1 DEF IInv, CopiesInv
<1>. QED BY <1>1, <1>3, <1>4, CopyMore, AllCopied

LEMMA TodoStep ==
  ASSUME BuildAssumption, IInv, [Next]_vars
  PROVE  TodoInv'
<1>. USE DEF IInv, TypeOK
<1>1. ASSUME NEW p, Resume(p), tree' = tree
      PROVE  TodoInv'
  BY <1>1 DEF Resume, TodoInv, Present
<1>2. CASE Begin \/ RecordStaged \/ RecordTransplanted \/ RecordPatched \/ RecordSigned
  BY <1>1, <1>2 DEF Begin, RecordStaged, RecordTransplanted, RecordPatched, RecordSigned, Record
<1>3. CASE StageBase \/ Check \/ Cleared \/ NextCopy \/ SignSave \/ Verify
  BY <1>3 DEF StageBase, Check, Cleared, NextCopy, Linked, SignSave, Verify, TodoInv
<1>4. CASE PatchPublish
  BY <1>4 DEF PatchPublish, TodoInv, DraftInv
<1>5. ASSUME NEW f \in Path,
             \/ Remove(f) \/ Link(f) \/ PatchDraft(f) \/ SignDraft(f) \/ SignPublish(f)
             \/ SignPreserve(f)
      PROVE  TodoInv'
  BY <1>5 DEF Remove, Link, PatchDraft, SignDraft, SignPublish, SignPreserve, TodoInv
<1>6. CASE Kill \/ Raise \/ UNCHANGED vars
  BY <1>6 DEF Kill, Raise, vars, TodoInv
<1>. QED BY <1>2, <1>3, <1>4, <1>5, <1>6 DEF Next, Step

LEMMA EarnedStep ==
  ASSUME BuildAssumption, IInv, [Next]_vars
  PROVE  PhaseIsEarned'
<1>. USE DEF IInv, TypeOK
<1>0. CASE phase' \in Staging
  BY <1>0 DEF Staging, PhaseIsEarned
<1>1. CASE UNCHANGED <<phase, tree, signed>>
  BY <1>1 DEF PhaseIsEarned
<1>2. CASE Begin
  <2>1. phase' = phase \/ phase' \in Staging
    BY <1>2 DEF Begin, Staging
  <2>. QED BY <1>0, <1>1, <1>2, <2>1 DEF Begin
<1>3. CASE StageBase \/ RecordStaged
  BY <1>0, <1>3 DEF StageBase, RecordStaged, Record, PlaceInv, Staging
<1>4. CASE RecordTransplanted
  BY <1>4, TransplantDone DEF RecordTransplanted, Record, PhaseIsEarned
<1>5. CASE PatchPublish
  <2>1. phase = "transplanted" /\ phase' = phase /\ draft \in Patched
    BY <1>5 DEF PatchPublish, PlaceInv, DraftInv
  <2>2. \A f \in Path \ {draft} : tree'[f] = tree[f]
    BY <1>5 DEF PatchPublish
  <2>3. tree'[draft] = "patched" /\ WithPatches[draft] = "patched"
    BY <1>5, <2>1 DEF PatchPublish, WithPatches
  <2>. QED BY <2>1, <2>2, <2>3 DEF PhaseIsEarned
<1>6. CASE RecordPatched
  <2>1. phase = "transplanted" /\ phase' = "patched" /\ tree' = tree /\ todo = {} /\ pc = "patch"
    BY <1>6 DEF RecordPatched, Record, PlaceInv
  <2>2. \A f \in Path : tree[f] = WithPatches[f]
    BY <2>1 DEF PhaseIsEarned, TodoInv, WithPatches
  <2>. QED BY <2>1, <2>2 DEF PhaseIsEarned
<1>7. CASE RecordSigned
  <2>1. /\ phase = "patched" /\ phase' = "signed" /\ tree' = tree /\ signed' = signed
        /\ todo = {} /\ pc = "sign"
    BY <1>7 DEF RecordSigned, Record, PlaceInv
  <2>2. signed = {}
    BY <2>1 DEF SignedInv
  <2>3. \A f \in Path : tree[f] = Expected[f]
    BY <2>1 DEF PhaseIsEarned, TodoInv, Expected
  <2>4. tree = Expected
    BY <2>3 DEF Expected
  <2>. QED BY <2>1, <2>2, <2>4 DEF PhaseIsEarned
<1>8. ASSUME NEW f \in Path, SignPublish(f)
      PROVE  PhaseIsEarned'
  <2>1. phase = "patched" /\ phase' = phase /\ f \in Platform /\ tree[f] # "absent"
    BY <1>8 DEF SignPublish, PlaceInv, SignedInv
  <2>2. \A g \in Path \ {f} : tree'[g] = tree[g]
    BY <1>8 DEF SignPublish
  <2>3. tree'[f] = "signed" /\ Expected[f] = "signed"
    BY <1>8, <2>1 DEF SignPublish, Expected, PhaseIsEarned
  <2>. QED BY <2>1, <2>2, <2>3 DEF PhaseIsEarned
<1>9. ASSUME NEW f \in Path, Remove(f) \/ Link(f)
      PROVE  PhaseIsEarned'
  BY <1>0, <1>9 DEF Remove, Link, PlaceInv, Staging
<1>10. CASE SignSave
  BY <1>10 DEF SignSave, PlaceInv, PhaseIsEarned
<1>11. CASE Verify
  <2>1. phase \in {"signed", "complete"} /\ phase' = "complete" /\ UNCHANGED <<tree, signed>>
    BY <1>11 DEF Verify, PlaceInv
  <2>. QED BY <2>1 DEF PhaseIsEarned
<1>12. CASE Check \/ Cleared \/ NextCopy \/ Kill \/ Raise \/ UNCHANGED vars
  BY <1>1, <1>12 DEF Check, Cleared, NextCopy, Kill, Raise, vars
<1>13. ASSUME NEW f \in Path, PatchDraft(f) \/ SignDraft(f) \/ SignPreserve(f)
       PROVE  PhaseIsEarned'
  BY <1>1, <1>13 DEF PatchDraft, SignDraft, SignPreserve
<1>. QED BY <1>2, <1>3, <1>4, <1>5, <1>6, <1>7, <1>8, <1>9, <1>10, <1>11, <1>12, <1>13
         DEF Next, Step

-----------------------------------------------------------------------------
(* The theorems *)

LEMMA NextIInv ==
  ASSUME BuildAssumption, IInv, [Next]_vars
  PROVE  IInv'
BY TypeStep, PlaceStep, DraftStep, StagedStep, TodoStep, EarnedStep DEF IInv

\* Every reachable state satisfies the invariant.
THEOREM IInvHolds == ASSUME BuildAssumption PROVE Spec => []IInv
BY InitIInv, NextIInv, PTL DEF Spec

\* The variables of build_tree's model keep their types.
THEOREM TypeCorrect == ASSUME BuildAssumption PROVE Spec => []TypeOK
<1>1. IInv => TypeOK
  BY DEF IInv
<1>. QED BY <1>1, IInvHolds, PTL

\* The phase of the state file is earned by the output tree: a complete build
\* is the tree the profile calls for, for any profile, whatever was killed on
\* the way.
THEOREM PhasesEarned == ASSUME BuildAssumption PROVE Spec => []PhaseIsEarned
<1>1. IInv => PhaseIsEarned
  BY DEF IInv
<1>. QED BY <1>1, IInvHolds, PTL

LEMMA SignatureStep ==
  ASSUME BuildAssumption, IInv, [Next]_vars
  PROVE  [/\ phase = "complete" => tree' = tree /\ phase' = "complete"
          /\ \A f \in Platform :
               tree[f] = "signed" => tree'[f] = "signed" /\ draft' # f]_vars
<1>. USE DEF IInv, TypeOK
<1>1. CASE UNCHANGED vars
  BY <1>1
<1>2. SUFFICES ASSUME Next
               PROVE  /\ phase = "complete" => tree' = tree /\ phase' = "complete"
                      /\ \A f \in Platform :
                           tree[f] = "signed" => tree'[f] = "signed" /\ draft' # f
  BY <1>1
<1>3. Platform \subseteq Path \ Patched /\ \A f \in Platform : f # NoPath
  OBVIOUS
<1>4. CASE Begin
  BY <1>3, <1>4 DEF Begin, DraftInv
<1>5. CASE StageBase \/ RecordStaged
  BY <1>3, <1>5 DEF StageBase, RecordStaged, Record, PlaceInv, DraftInv, StagedInv, Staging
<1>6. CASE Check \/ Cleared \/ NextCopy \/ RecordTransplanted
  BY <1>3, <1>6
  DEF Check, Cleared, NextCopy, RecordTransplanted, Record, Linked, PlaceInv, DraftInv
<1>7. CASE PatchPublish \/ RecordPatched
  BY <1>3, <1>7 DEF PatchPublish, RecordPatched, Record, PlaceInv, DraftInv
<1>8. CASE SignSave \/ RecordSigned
  BY <1>3, <1>8 DEF SignSave, RecordSigned, Record, PlaceInv
<1>9. CASE Verify
  BY <1>3, <1>9 DEF Verify, DraftInv
<1>10. ASSUME NEW f \in Path, Remove(f) \/ Link(f)
       PROVE  /\ phase = "complete" => tree' = tree /\ phase' = "complete"
              /\ \A g \in Platform :
                   tree[g] = "signed" => tree'[g] = "signed" /\ draft' # g
  BY <1>3, <1>10 DEF Remove, Link, PlaceInv, DraftInv, StagedInv, Staging
<1>11. ASSUME NEW f \in Path, PatchDraft(f) \/ SignDraft(f)
       PROVE  /\ phase = "complete" => tree' = tree /\ phase' = "complete"
              /\ \A g \in Platform :
                   tree[g] = "signed" => tree'[g] = "signed" /\ draft' # g
  BY <1>3, <1>11 DEF PatchDraft, SignDraft, PlaceInv, DraftInv
<1>12. ASSUME NEW f \in Path, SignPublish(f) \/ SignPreserve(f)
       PROVE  /\ phase = "complete" => tree' = tree /\ phase' = "complete"
              /\ \A g \in Platform :
                   tree[g] = "signed" => tree'[g] = "signed" /\ draft' # g
  BY <1>3, <1>12 DEF SignPublish, SignPreserve, PlaceInv, DraftInv
<1>13. CASE Kill \/ Raise
  BY <1>3, <1>13 DEF Kill, Raise
<1>. QED BY <1>2, <1>4, <1>5, <1>6, <1>7, <1>8, <1>9, <1>10, <1>11, <1>12, <1>13 DEF Next, Step

\* A complete tree is never changed, and a development signature is neither
\* lost nor made a second time.
THEOREM SignaturesKept == ASSUME BuildAssumption PROVE Spec => SignaturesStay
BY SignatureStep, IInvHolds, PTL DEF Spec, SignaturesStay

-----------------------------------------------------------------------------
(* The phases implement the durable pipeline *)

ReachedTable ==
  /\ Reached(1) <=> phase \in {"initializing", "staged", "transplanted", "patched", "signed", "complete"}
  /\ Reached(2) <=> phase \in {"staged", "transplanted", "patched", "signed", "complete"}
  /\ Reached(3) <=> phase \in {"transplanted", "patched", "signed", "complete"}
  /\ Reached(4) <=> phase \in {"patched", "signed", "complete"}
  /\ Reached(5) <=> phase \in {"signed", "complete"}
  /\ Reached(6) <=> phase = "complete"

LEMMA ReachedPhases == Len(PhaseOrder) = 6 /\ ReachedTable /\ ReachedTable'
BY DEF ReachedTable, Reached, PhaseOrder

\* The phase a step records is the next one.
LEMMA PhaseStep ==
  ASSUME BuildAssumption, IInv, [Next]_vars
  PROVE  \/ phase' = phase
         \/ phase = "none" /\ phase' = "initializing"
         \/ phase = "initializing" /\ phase' = "staged"
         \/ phase = "staged" /\ phase' = "transplanted"
         \/ phase = "transplanted" /\ phase' = "patched"
         \/ phase = "patched" /\ phase' = "signed"
         \/ phase = "signed" /\ phase' = "complete"
BY DEF IInv, PlaceInv, Next, Begin, Step, StageBase, RecordStaged, Check, Cleared, NextCopy, Linked,
       RecordTransplanted, PatchPublish, RecordPatched, SignSave, RecordSigned, Verify, Record,
       Remove, Link, PatchDraft, SignDraft, SignPublish, SignPreserve, Kill, Raise, vars

Recorded == [k \in 1 .. Len(PhaseOrder) |-> IF Reached(k) THEN "done" ELSE "pending"]

\* What the recording of the k-th phase does to the pipeline.
LEMMA RecordStep ==
  ASSUME NEW k \in 1 .. 6,
         \A j \in 1 .. 6 : Reached(j) <=> j < k,
         \A j \in 1 .. 6 : Reached(j)' <=> j <= k
  PROVE  Phases!Next
<1>1. Recorded' = [Recorded EXCEPT ![k] = "done"]
  <2>1. \A j \in 1 .. 6 : Recorded'[j] = IF j = k THEN "done" ELSE Recorded[j]
    BY ReachedPhases DEF Recorded
  <2>2. DOMAIN Recorded = 1 .. 6 /\ DOMAIN Recorded' = 1 .. 6
    BY ReachedPhases DEF Recorded
  <2>. QED BY <2>1, <2>2, ReachedPhases DEF Recorded
<1>2. Recorded[k] = "pending" /\ \A j \in 1 .. (k - 1) : Recorded[j] # "pending"
  BY ReachedPhases DEF Recorded
<1>3. Phases!Record(k, "done")
  BY <1>1, <1>2 DEF Phases!Record, Recorded
<1>. QED BY <1>3, ReachedPhases DEF Phases!Next, Phases!Stages

LEMMA PhasesStep ==
  ASSUME BuildAssumption, IInv, [Next]_vars
  PROVE  [Phases!Next]_Recorded
<1>0. \A j \in 1 .. 6 : j = 1 \/ j = 2 \/ j = 3 \/ j = 4 \/ j = 5 \/ j = 6
  OBVIOUS
<1>1. CASE phase' = phase
  BY <1>1 DEF Recorded, Reached
<1>2. CASE phase = "none" /\ phase' = "initializing"
  <2>1. \A j \in 1 .. 6 : (Reached(j) <=> j < 1) /\ (Reached(j)' <=> j <= 1)
    BY <1>0, <1>2, ReachedPhases DEF ReachedTable
  <2>. QED BY <2>1, RecordStep
<1>3. CASE phase = "initializing" /\ phase' = "staged"
  <2>1. \A j \in 1 .. 6 : (Reached(j) <=> j < 2) /\ (Reached(j)' <=> j <= 2)
    BY <1>0, <1>3, ReachedPhases DEF ReachedTable
  <2>. QED BY <2>1, RecordStep
<1>4. CASE phase = "staged" /\ phase' = "transplanted"
  <2>1. \A j \in 1 .. 6 : (Reached(j) <=> j < 3) /\ (Reached(j)' <=> j <= 3)
    BY <1>0, <1>4, ReachedPhases DEF ReachedTable
  <2>. QED BY <2>1, RecordStep
<1>5. CASE phase = "transplanted" /\ phase' = "patched"
  <2>1. \A j \in 1 .. 6 : (Reached(j) <=> j < 4) /\ (Reached(j)' <=> j <= 4)
    BY <1>0, <1>5, ReachedPhases DEF ReachedTable
  <2>. QED BY <2>1, RecordStep
<1>6. CASE phase = "patched" /\ phase' = "signed"
  <2>1. \A j \in 1 .. 6 : (Reached(j) <=> j < 5) /\ (Reached(j)' <=> j <= 5)
    BY <1>0, <1>6, ReachedPhases DEF ReachedTable
  <2>. QED BY <2>1, RecordStep
<1>7. CASE phase = "signed" /\ phase' = "complete"
  <2>1. \A j \in 1 .. 6 : (Reached(j) <=> j < 6) /\ (Reached(j)' <=> j <= 6)
    BY <1>0, <1>7, ReachedPhases DEF ReachedTable
  <2>. QED BY <2>1, RecordStep
<1>. QED BY <1>1, <1>2, <1>3, <1>4, <1>5, <1>6, <1>7, PhaseStep

\* The recorded phases are the stages of a durable pipeline: one at a time, in
\* their order, and never lost.
THEOREM PhasesImplemented == ASSUME BuildAssumption PROVE Spec => ImplementsPhases
<1>1. Init => Phases!Init
  BY ReachedPhases DEF Init, ReachedTable, Phases!Init, Phases!Stages
<1>2. IInv /\ [Next]_vars => [Phases!Next]_Recorded
  BY PhasesStep
<1>. QED BY <1>1, <1>2, IInvHolds, PTL DEF Spec, ImplementsPhases, Phases!Spec, Recorded
=============================================================================
