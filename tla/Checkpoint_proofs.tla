-------------------------- MODULE Checkpoint_proofs --------------------------
(***************************************************************************)
(* What TLAPS proves of Checkpoint, for any images, any number of kills    *)
(* and of changes to files.                                                *)
(***************************************************************************)
EXTENDS Checkpoint, TLAPS

-----------------------------------------------------------------------------
(* The stages and their order *)

LEMMA StageElements ==
  ASSUME NEW S, First \in Seq(S), Snapped \in Seq(S), "checkpoint" \in S
  PROVE  /\ Len(Stage) = Len(First) + Len(Snapped) + 1
         /\ \A k \in 1 .. Len(First) : Stage[k] = First[k]
         /\ \A k \in Len(First) + 1 .. Len(First) + Len(Snapped) : Stage[k] = Snapped[k - Len(First)]
         /\ Stage[Len(First) + Len(Snapped) + 1] = "checkpoint"
  BY DEF Stage

USE CheckpointAssumption DEF ChildPC

LEMMA FirstStages ==
  /\ First \in Seq(Range(First)) /\ Len(First) = 7
  /\ Range(First) = {"preflight", "key", "base", "donor", "inputs", "root", "verification"}
<1>. DEFINE F == {"preflight", "key", "base", "donor", "inputs", "root", "verification"}
<1>1. First \in Seq(F) /\ Len(First) = 7 /\ DOMAIN First = 1 .. 7
  BY DEF First
<1>2. /\ First[1] = "preflight" /\ First[2] = "key" /\ First[3] = "base"
      /\ First[4] = "donor" /\ First[5] = "inputs" /\ First[6] = "root"
      /\ First[7] = "verification"
  BY DEF First
<1>3. Range(First) = {First[k] : k \in 1 .. 7}
  BY <1>1 DEF Range
<1>4. Range(First) \subseteq F
  BY <1>1, <1>3 DEF First
<1>5. F \subseteq Range(First)
  BY <1>2, <1>3
<1>. QED BY <1>1, <1>4, <1>5

LEMMA StageSequence ==
  /\ N \in Nat /\ N = Len(Snapped) + 8
  /\ \A k \in 1 .. 7 : Stage[k] = First[k]
  /\ \A k \in 8 .. N - 1 : Stage[k] = Snapped[k - 7] /\ Stage[k] \in Captured
  /\ Stage[N] = "checkpoint"
<1>. DEFINE S == Range(First) \cup Captured \cup {"checkpoint"}
<1>1. First \in Seq(S) /\ Snapped \in Seq(S) /\ "checkpoint" \in S /\ Len(First) = 7
  BY FirstStages
<1>2. Len(Snapped) \in Nat
  OBVIOUS
<1>. HIDE DEF S
<1>3. /\ Len(Stage) = Len(First) + Len(Snapped) + 1
      /\ \A k \in 1 .. Len(First) : Stage[k] = First[k]
      /\ \A k \in Len(First) + 1 .. Len(First) + Len(Snapped) : Stage[k] = Snapped[k - Len(First)]
      /\ Stage[Len(First) + Len(Snapped) + 1] = "checkpoint"
  BY <1>1, StageElements, Zenon
<1>4. N = Len(Snapped) + 8
  BY <1>1, <1>2, <1>3 DEF N
<1>5. \A k \in 1 .. 7 : Stage[k] = First[k]
  BY <1>1, <1>3
<1>6. /\ \A k \in 8 .. N - 1 : Stage[k] = Snapped[k - 7]
      /\ Stage[N] = "checkpoint"
  BY <1>1, <1>2, <1>3, <1>4
<1>7. \A k \in 8 .. N - 1 : Snapped[k - 7] \in Captured
  BY <1>2, <1>4
<1>. QED BY <1>2, <1>4, <1>5, <1>6, <1>7

\* Which stage comes after how many.
LEMMA StageAt ==
  ASSUME NEW d \in 0 .. N - 1
  PROVE  /\ Stage[d + 1] = "preflight" <=> d = 0
         /\ Stage[d + 1] = "key" <=> d = 1
         /\ Stage[d + 1] \in Role <=> d \in {2, 3}
         /\ Stage[d + 1] = "inputs" <=> d = 4
         /\ Stage[d + 1] = "root" <=> d = 5
         /\ Stage[d + 1] = "verification" <=> d = 6
         /\ Stage[d + 1] \in Captured <=> d \in 7 .. N - 2
         /\ Stage[d + 1] = "checkpoint" <=> d = N - 1
<1>0. Captured \cap (Range(First) \cup {"checkpoint"}) = {}
  OBVIOUS
<1>1. CASE d \in 0 .. 6
  <2>1. d = 0 \/ d = 1 \/ d = 2 \/ d = 3 \/ d = 4 \/ d = 5 \/ d = 6
    BY <1>1
  <2>2. Stage[d + 1] = First[d + 1] /\ N > 7
    BY <1>1, StageSequence
  <2>3. /\ First[1] = "preflight" /\ First[2] = "key" /\ First[3] = "base"
        /\ First[4] = "donor" /\ First[5] = "inputs" /\ First[6] = "root"
        /\ First[7] = "verification"
    BY DEF First
  <2>4. First[d + 1] \notin Captured
    BY <1>0, <2>1, <2>3, FirstStages
  <2>5. d \notin 7 .. N - 2 /\ d # N - 1
    BY <1>1, <2>2, StageSequence
  <2>. QED BY <2>1, <2>2, <2>3, <2>4, <2>5 DEF Role
<1>2. CASE d \in 7 .. N - 2
  <2>1. Stage[d + 1] \in Captured /\ d # N - 1
    BY <1>2, StageSequence
  <2>. QED BY <1>0, <1>2, <2>1, FirstStages DEF Role
<1>3. CASE d = N - 1
  <2>1. Stage[d + 1] = "checkpoint" /\ d > 6 /\ d \notin 7 .. N - 2
    BY <1>3, StageSequence
  <2>. QED BY <1>0, <1>3, <2>1 DEF Role
<1>. QED BY <1>1, <1>2, <1>3, StageSequence

-----------------------------------------------------------------------------
(* Types *)

\* A stage is only completed when there is one left.
CommitInv == pc \in {"commit", "report"} => done < N

TInv == TypeOK /\ CommitInv

LEMMA ConstantTypes ==
  /\ N \in Nat /\ N >= 8
  /\ 0 \in Change /\ 0 \in Attempt /\ MaxDrifts \in Nat /\ MaxKills \in Nat
  /\ Attempt \subseteq Pair /\ Other \in Pair /\ None \in Pair
  /\ Captured \subseteq Image /\ Vendor \in Image
  /\ Captured \cap (Programs \cup {None, "pair"}) = {} /\ None \notin Programs
  /\ NoResult \in Results /\ NoChild \in ChildState
<1>1. Len(Snapped) \in Nat
  OBVIOUS
<1>2. Captured \cap (Programs \cup {None, "pair"}) = {} /\ None \notin Programs
  BY FirstStages DEF Programs, Image
<1>3. NoResult \in Results
  BY DEF NoResult, Results, Pair, Content
<1>4. NoChild \in ChildState
  BY DEF NoChild, ChildState, Content, Pair
<1>. QED BY <1>1, <1>2, <1>3, <1>4, StageSequence DEF Change, Image, Attempt, Pair

\* Changes to a result.
LEMMA ResultUpdates ==
  ASSUME NEW g \in Results
  PROVE  /\ \A p \in Pair : [g EXCEPT !.pair = p] \in Results /\ [g EXCEPT !.tree = p] \in Results
         /\ \A r \in Role, c \in Change : [g EXCEPT !.source[r] = c] \in Results
         /\ \A i \in Captured, c \in Content : [g EXCEPT !.snapshot[i] = c] \in Results
         /\ \A p \in Pair, t \in Pair, s \in [Captured -> Content] :
              [g EXCEPT !.pair = p, !.tree = t, !.snapshot = s] \in Results
  BY DEF Results

\* Changes to a child.
Ended(k, p) == p \in {"done", "failed"} /\ ~Awaited(k)

LEMMA ChildUpdates ==
  ASSUME TypeOK, NEW k \in Attempt,
         NEW p \in ChildPC, NEW c \in Content, NEW g \in Pair,
         Becomes(k, p, c, g)
  PROVE  /\ child' \in [Attempt -> ChildState]
         /\ Ended(k, p) => child'[k] = NoChild
         /\ ~Ended(k, p) => /\ child'[k].of = child[k].of /\ child'[k].pc = p
                            /\ child'[k].saw = c /\ child'[k].pair = g
         /\ \A j \in Attempt : j # k => child'[j] = child[j]
<1>. DEFINE d == [of |-> child[k].of, pc |-> p, saw |-> c, pair |-> g]
            e == IF Ended(k, p) THEN NoChild ELSE d
<1>1. child \in [Attempt -> ChildState] /\ child[k] \in ChildState
  BY DEF TypeOK
<1>2. d \in ChildState /\ d.of = child[k].of /\ d.pc = p /\ d.saw = c /\ d.pair = g
  BY <1>1 DEF ChildState
<1>3. child' = [child EXCEPT ![k] = e]
  BY <1>1 DEF Becomes, Ended
<1>4. e \in ChildState
  BY <1>2, ConstantTypes
<1>5. Ended(k, p) => e = NoChild
  OBVIOUS
<1>6. ~Ended(k, p) => e.of = child[k].of /\ e.pc = p /\ e.saw = c /\ e.pair = g
  BY <1>2
<1>. HIDE DEF e, d
<1>7. /\ child' \in [Attempt -> ChildState] /\ child'[k] = e
      /\ \A j \in Attempt : j # k => child'[j] = child[j]
  BY <1>1, <1>3, <1>4
<1>. QED BY <1>5, <1>6, <1>7

LEMMA NewChild ==
  ASSUME TypeOK, NEW s \in Programs \cup Captured, NEW at \in ChildPC, Starts(s, at)
  PROVE  /\ child' \in [Attempt -> ChildState] /\ kills \in Attempt
         /\ child'[kills].of = s /\ child'[kills].pc = at /\ child'[kills].pair = None
         /\ \A j \in Attempt : j # kills => child'[j] = child[j]
<1>. DEFINE c == [NoChild EXCEPT !.of = s, !.pc = at]
<1>1. c \in ChildState /\ c.of = s /\ c.pc = at /\ c.pair = None
  BY DEF NoChild, ChildState, Content, Pair
<1>2. child \in [Attempt -> ChildState] /\ kills \in Attempt /\ child' = [child EXCEPT ![kills] = c]
  BY DEF TypeOK, Starts
<1>. HIDE DEF c
<1>3. /\ child' \in [Attempt -> ChildState] /\ child'[kills] = c
      /\ \A j \in Attempt : j # kills => child'[j] = child[j]
  BY <1>1, <1>2
<1>. QED BY <1>1, <1>2, <1>3

USE DEF TInv, world, files, made, notes, worker, ghosts

\* What all the stages share that run a child.
LEMMA LaunchTypes ==
  ASSUME TInv, NEW s \in Programs \cup Captured, Launch(s)
  PROVE  TInv'
<1>1. child' \in [Attempt -> ChildState] /\ pc' = "wait"
  BY NewChild DEF Launch, Starts
<1>. QED BY <1>1 DEF Launch, TypeOK, CommitInv

LEMMA ReturnTypes ==
  ASSUME TInv, NEW s, NEW condition, NEW p \in {"report", "identity", "commit", "vendor"},
         Returns(s, condition, p), got' \in Results
  PROVE  TInv'
<1>1. pc' \in {p, "idle"}
  BY DEF Returns, GoesIf
<1>2. child' \in [Attempt -> ChildState]
  BY ConstantTypes DEF Returns, TypeOK
<1>. QED BY <1>1, <1>2 DEF Returns, At, TypeOK, CommitInv

LEMMA WorkerTypes ==
  ASSUME TInv, Begin \/ Worker
  PROVE  TInv'
<1>. USE ConstantTypes
<1>0. got \in Results /\ kills \in Attempt /\ child[kills] \in ChildState
  BY DEF TypeOK
<1>1. CASE Begin
  BY <1>1 DEF Begin, TypeOK, CommitInv, Parts
<1>2. CASE Commit
  BY <1>2 DEF Commit, TypeOK, CommitInv
<1>3. CASE Preflight
  BY <1>3 DEF Preflight, GoesIf, At, TypeOK, CommitInv
<1>4. CASE ReadKey
  <2>1. child[kills].pair \in Pair
    BY <1>0 DEF ChildState
  <2>2. got' \in Results
    BY <1>0, <1>4, <2>1, ResultUpdates DEF ReadKey
  <2>. QED BY <1>4, <2>2, ReturnTypes DEF ReadKey
<1>5. CASE ReportKey
  BY <1>5 DEF ReportKey, TypeOK, CommitInv, Results
<1>6. ASSUME NEW r \in Role, ReuseImages(r)
      PROVE  TInv'
  BY <1>6 DEF ReuseImages, GoesIf, At, TypeOK, CommitInv
<1>7. ASSUME NEW s \in Programs \cup Captured, Launch(s)
      PROVE  TInv'
  BY <1>7, LaunchTypes
<1>8. ASSUME NEW r \in Role, SourceIdentity(r)
      PROVE  TInv'
  <2>1. source[r].id \in Change
    BY DEF TypeOK
  <2>2. got' \in Results
    BY <1>8, <2>1, ResultUpdates DEF SourceIdentity, TypeOK
  <2>. QED BY <1>8, <2>2 DEF SourceIdentity, GoesIf, At, TypeOK, CommitInv
<1>9. ASSUME NEW s, EndScript(s) \/ EndStage(s) \/ ReadList
      PROVE  TInv'
  BY <1>0, <1>9, ReturnTypes DEF EndScript, EndStage, ReadList
<1>10. Role \subseteq Programs /\ {"key", "inputs", "root", "verification"} \subseteq Programs
  BY DEF Role, Programs
<1>11. CASE ReadTreeReport
  <2>1. got' \in Results
    BY <1>11, ResultUpdates DEF ReadTreeReport, TypeOK
  <2>. QED BY <1>11, <2>1, ReturnTypes DEF ReadTreeReport
<1>12. ASSUME NEW i \in Captured, ReadSnapshot(i)
       PROVE  TInv'
  <2>1. snapshot[i] \in Content
    BY DEF TypeOK
  <2>2. got' \in Results
    BY <1>12, <2>1, ResultUpdates DEF ReadSnapshot, TypeOK
  <2>. QED BY <1>12, <2>2, ReturnTypes DEF ReadSnapshot
<1>13. CASE ListImages
  <2>1. stale' \in SUBSET Parts
    BY <1>13 DEF ListImages, Parts
  <2>2. child' \in [Attempt -> ChildState] /\ pc' \in {"vendor", "wait"}
    <3>1. "checkpoint" \in Programs /\ "verify" \in ChildPC
      BY DEF Programs
    <3>2. Starts("checkpoint", "verify") => child' \in [Attempt -> ChildState] /\ pc' = "wait"
      BY <3>1, NewChild DEF Starts
    <3>. QED BY <1>13, <3>2 DEF ListImages, TypeOK
  <2>. QED BY <1>13, <2>1, <2>2 DEF ListImages, TypeOK, CommitInv
<1>14. CASE HashVendor
  BY <1>14 DEF HashVendor, GoesIf, TypeOK, CommitInv
<1>15. CASE ReadEvidence
  <2>1. got' \in Results
    BY <1>15, ResultUpdates DEF ReadEvidence, TypeOK
  <2>. QED BY <1>15, <2>1 DEF ReadEvidence, GoesIf, TypeOK, CommitInv
<1>16. CASE Publish
  BY <1>16 DEF Publish, TypeOK, CommitInv
<1>17. CASE FindCheckpoint
  BY <1>17 DEF FindCheckpoint, TypeOK, CommitInv
<1>18. CASE VerifySources
  <2>1. Wrong \in SUBSET Parts
    BY DEF Wrong, Parts
  <2>. QED BY <1>18, <2>1 DEF VerifySources, Verdict, TypeOK, CommitInv
<1>19. CASE VerifyKey
  BY <1>19 DEF VerifyKey, Verdict, TypeOK, CommitInv
<1>20. CASE VerifySnapshots
  BY <1>20 DEF VerifySnapshots, Verdict, TypeOK, CommitInv
<1>. QED BY <1>1, <1>2, <1>3, <1>4, <1>5, <1>6, <1>7, <1>8, <1>9, <1>10, <1>11, <1>12, <1>13,
            <1>14, <1>15, <1>16, <1>17, <1>18, <1>19, <1>20 DEF Worker, RunScript

\* A child takes a step of its program, or makes an image and goes on.
LEMMA ChildMoves ==
  ASSUME TInv, NEW k \in Attempt, Child(k)
  PROVE  child' = child \/ \E p \in ChildPC, c \in Content, g \in Pair : Becomes(k, p, c, g)
<1>. DEFINE Moved == \E p \in ChildPC, c \in Content, g \in Pair : Becomes(k, p, c, g)
<1>0. "none" \in Content /\ None \in Pair /\ certificate \in Pair
  BY ConstantTypes DEF Content, TypeOK
<1>1. ASSUME NEW p \in ChildPC, Goes(k, p)
      PROVE  Moved
  BY <1>0, <1>1, Zenon DEF Goes
<1>2. ASSUME NEW p \in ChildPC, Becomes(k, p, "none", certificate)
      PROVE  Moved
  BY <1>0, <1>2, Zenon
<1>3. LookForKey(k) \/ RenameKey(k) \/ RenameCertificate(k) \/ VerifyPair(k) => Moved
  <2>1. LookForKey(k) => Goes(k, "make") \/ Goes(k, "verify") \/ Goes(k, "failed")
    BY DEF LookForKey
  <2>2. RenameKey(k) => Goes(k, "second")
    BY DEF RenameKey
  <2>3. RenameCertificate(k) => Goes(k, "verify")
    BY DEF RenameCertificate
  <2>4. VerifyPair(k) => Becomes(k, "done", "none", certificate) \/ Goes(k, "failed")
    BY DEF VerifyPair
  <2>. QED BY <1>1, <1>2, <2>1, <2>2, <2>3, <2>4
<1>4. ASSUME NEW r \in Role, ExtractSource(k, r) \/ ImagesMade(k, r)
      PROVE  Moved
  <2>1. Goes(k, "make") \/ Goes(k, "failed") \/ Goes(k, "verify") \/ Goes(k, "done")
    BY <1>4 DEF ExtractSource, ImagesMade
  <2>. QED BY <1>1, <2>1
<1>5. ASSUME NEW i \in Image, RefuseImage(k, i)
      PROVE  Moved
  BY <1>1, <1>5 DEF RefuseImage
<1>6. VerifyImages(k) \/ WriteList(k) => Moved
  <2>1. VerifyImages(k) => Goes(k, "write") \/ Goes(k, "failed")
    BY DEF VerifyImages
  <2>2. WriteList(k) => Goes(k, "done")
    BY DEF WriteList
  <2>. QED BY <1>1, <2>1, <2>2
<1>7. CheckRoots(k) \/ MoveRoot(k) \/ MarkRoot(k) \/ SelectInputs(k) => Moved
  <2>1. CheckRoots(k) => Goes(k, "make") \/ Goes(k, "failed")
    BY DEF CheckRoots
  <2>2. MoveRoot(k) => Goes(k, "second")
    BY DEF MoveRoot
  <2>3. MarkRoot(k) => Goes(k, "make")
    BY DEF MarkRoot
  <2>4. SelectInputs(k) => Goes(k, "done")
    BY DEF SelectInputs
  <2>. QED BY <1>1, <2>1, <2>2, <2>3, <2>4
<1>8. ReadPair(k) \/ BeginTree(k) \/ CompleteTree(k) => Moved
  <2>1. ReadPair(k) => Becomes(k, "begin", "none", certificate) \/ Goes(k, "failed")
    BY DEF ReadPair
  <2>2. BeginTree(k) => Goes(k, "make") \/ Goes(k, "failed")
    BY DEF BeginTree
  <2>3. CompleteTree(k) => Goes(k, "done") \/ Goes(k, "failed")
    BY DEF CompleteTree
  <2>. QED BY <1>1, <1>2, <2>1, <2>2, <2>3
<1>9. CheckTree(k) \/ WriteTreeReport(k) => Moved
  <2>1. CheckTree(k) => Becomes(k, "write", "none", certificate) \/ Goes(k, "failed")
    BY DEF CheckTree
  <2>2. WriteTreeReport(k) => Goes(k, "done")
    BY DEF WriteTreeReport
  <2>. QED BY <1>1, <1>2, <2>1, <2>2
<1>10. ASSUME NEW i \in Captured, HashImage(k, i) \/ Capture(k, i) \/ WriteSnapshot(k, i)
       PROVE  Moved
  <2>1. \/ Goes(k, "capture") \/ Goes(k, "failed") \/ Goes(k, "done")
        \/ Becomes(k, "write", image[i], None)
    BY <1>10 DEF HashImage, Capture, WriteSnapshot
  <2>2. image[i] \in Content
    BY ConstantTypes DEF TypeOK
  <2>3. Becomes(k, "write", image[i], None) => Moved
    BY <1>0, <2>2, Zenon
  <2>. QED BY <1>1, <2>1, <2>3
<1>11. \A i \in Image : MakeImage(k, i) => child' = child
  BY DEF MakeImage
<1>. HIDE DEF Moved
<1>12. child' = child \/ Moved
  BY <1>3, <1>4, <1>5, <1>6, <1>7, <1>8, <1>9, <1>10, <1>11 DEF Child
<1>. QED BY <1>12 DEF Moved

\* What a child does not touch.
LEMMA ChildFrame ==
  ASSUME TInv, UNCHANGED <<source, worker, checkpoint, ghosts>>,
         child' \in [Attempt -> ChildState], stale' \subseteq stale,
         vouched' \in [Role -> BOOLEAN], image' \in [Image -> Content \ {"torn"}],
         listed' \in BOOLEAN, leftover' = leftover,
         key' \in Pair, certificate' \in Pair, roots' \in {"none", "unmarked", "marked"},
         begun' \in Pair, tree' \in Pair, keyReport' = keyReport, treeReport' \in Pair,
         snapshot' \in [Captured -> Content]
  PROVE  TInv'
  BY DEF TypeOK, CommitInv

LEMMA ChildTypes ==
  ASSUME TInv, NEW k \in Attempt, Child(k)
  PROVE  TInv'
<1>1. child' \in [Attempt -> ChildState]
  <2>1. CASE child' = child
    BY <2>1 DEF TypeOK
  <2>2. ASSUME NEW p \in ChildPC, NEW c \in Content, NEW g \in Pair, Becomes(k, p, c, g)
        PROVE  child' \in [Attempt -> ChildState]
    BY <2>2, ChildUpdates
  <2>. QED BY <2>1, <2>2, ChildMoves
<1>2. k \in Pair /\ child[k] \in ChildState
  BY ConstantTypes DEF TypeOK
<1>3. child[k].pair \in Pair /\ child[k].saw \in Content
  BY <1>2 DEF ChildState
<1>4. /\ vouched \in [Role -> BOOLEAN] /\ image \in [Image -> Content \ {"torn"}]
      /\ listed \in BOOLEAN /\ key \in Pair /\ certificate \in Pair
      /\ roots \in {"none", "unmarked", "marked"} /\ begun \in Pair /\ tree \in Pair
      /\ treeReport \in Pair /\ snapshot \in [Captured -> Content]
  BY DEF TypeOK
<1>5. CASE LookForKey(k) \/ RenameKey(k) \/ RenameCertificate(k) \/ VerifyPair(k)
  <2>1. /\ key' \in Pair /\ certificate' \in Pair /\ stale' \subseteq stale
        /\ UNCHANGED <<files, roots, begun, tree, notes, worker, ghosts>>
    BY <1>2, <1>4, <1>5 DEF LookForKey, RenameKey, RenameCertificate, VerifyPair
  <2>. QED BY <1>1, <1>4, <2>1, ChildFrame
<1>6. ASSUME NEW r \in Role, ExtractSource(k, r) \/ ImagesMade(k, r)
      PROVE  TInv'
  <2>1. /\ vouched' \in [Role -> BOOLEAN]
        /\ UNCHANGED <<source, image, listed, leftover, made, notes, worker, stale, ghosts>>
    BY <1>4, <1>6 DEF ExtractSource, ImagesMade
  <2>. QED BY <1>1, <1>4, <2>1, ChildFrame
<1>7. ASSUME NEW i \in Image, MakeImage(k, i) \/ RefuseImage(k, i)
      PROVE  TInv'
  <2>1. /\ image' \in [Image -> Content \ {"torn"}]
        /\ UNCHANGED <<source, vouched, listed, leftover, made, notes, worker, stale, ghosts>>
    BY <1>4, <1>7 DEF MakeImage, RefuseImage, Content
  <2>. QED BY <1>1, <1>4, <2>1, ChildFrame
<1>8. CASE VerifyImages(k) \/ WriteList(k)
  <2>1. /\ listed' \in BOOLEAN
        /\ UNCHANGED <<source, vouched, image, leftover, made, notes, worker, stale, ghosts>>
    BY <1>4, <1>8 DEF VerifyImages, WriteList
  <2>. QED BY <1>1, <1>4, <2>1, ChildFrame
<1>9. CASE CheckRoots(k) \/ MoveRoot(k) \/ MarkRoot(k) \/ SelectInputs(k)
  <2>1. /\ roots' \in {"none", "unmarked", "marked"}
        /\ UNCHANGED <<files, key, certificate, begun, tree, notes, worker, stale, ghosts>>
    BY <1>4, <1>9 DEF CheckRoots, MoveRoot, MarkRoot, SelectInputs
  <2>. QED BY <1>1, <1>4, <2>1, ChildFrame
<1>10. CASE ReadPair(k) \/ BeginTree(k) \/ CompleteTree(k)
  <2>1. /\ begun' \in Pair /\ tree' \in Pair
        /\ UNCHANGED <<files, key, certificate, roots, notes, worker, stale, ghosts>>
    BY <1>3, <1>4, <1>10 DEF ReadPair, BeginTree, CompleteTree
  <2>. QED BY <1>1, <1>4, <2>1, ChildFrame
<1>11. CASE CheckTree(k) \/ WriteTreeReport(k)
  <2>1. /\ treeReport' \in Pair
        /\ UNCHANGED <<files, made, keyReport, snapshot, checkpoint, worker, stale, ghosts>>
    BY <1>3, <1>4, <1>11 DEF CheckTree, WriteTreeReport
  <2>. QED BY <1>1, <1>4, <2>1, ChildFrame
<1>12. ASSUME NEW i \in Captured, HashImage(k, i) \/ Capture(k, i) \/ WriteSnapshot(k, i)
       PROVE  TInv'
  <2>1. /\ snapshot' \in [Captured -> Content] /\ stale' \subseteq stale
        /\ UNCHANGED <<files, made, keyReport, treeReport, checkpoint, worker, ghosts>>
    BY <1>3, <1>4, <1>12 DEF HashImage, Capture, WriteSnapshot
  <2>. QED BY <1>1, <1>4, <2>1, ChildFrame
<1>. QED BY <1>5, <1>6, <1>7, <1>8, <1>9, <1>10, <1>11, <1>12 DEF Child

LEMMA EnvironmentTypes ==
  ASSUME TInv, Environment
  PROVE  TInv'
<1>. USE ConstantTypes
<1>1. CASE Kill
  <2>1. kills \in 0 .. MaxKills /\ kills < MaxKills /\ kills' = kills + 1
    BY <1>1 DEF Kill, TypeOK, Attempt
  <2>2. kills' \in Attempt
    BY <2>1 DEF Attempt
  <2>3. child' \in [Attempt -> ChildState]
    BY <1>1 DEF Kill, TypeOK
  <2>. QED BY <1>1, <2>2, <2>3 DEF Kill, TypeOK, CommitInv
<1>2. ASSUME NEW k \in Attempt, ChildDies(k)
      PROVE  TInv'
  <2>1. "failed" \in ChildPC /\ "none" \in Content /\ None \in Pair
    BY DEF Content
  <2>2. child' \in [Attempt -> ChildState]
    BY <1>2, <2>1, ChildUpdates DEF ChildDies, Goes
  <2>3. leftover' \in SUBSET Image
    <3>1. leftover \in SUBSET Image /\ Of("donor") \subseteq Image
      BY DEF TypeOK, Of
    <3>2. \/ leftover' = leftover
          \/ \E i \in Of("donor") : leftover' = leftover \cup {i}
      BY <1>2 DEF ChildDies
    <3>. QED BY <3>1, <3>2
  <2>4. deaths' \in 0 .. MaxDeaths
    <3>1. deaths \in 0 .. MaxDeaths /\ deaths < MaxDeaths /\ deaths' = deaths + 1 /\ MaxDeaths \in Nat
      BY <1>2 DEF ChildDies, TypeOK
    <3>. QED BY <3>1
  <2>. QED BY <1>2, <2>2, <2>3, <2>4 DEF ChildDies, TypeOK, CommitInv
<1>3. ASSUME NEW part, Drift(part)
      PROVE  drifts' \in Change /\ stale' \in SUBSET Parts
  <2>1. drifts \in 0 .. MaxDrifts /\ drifts < MaxDrifts /\ drifts' = drifts + 1
    BY <1>3 DEF Drift, TypeOK, Change
  <2>2. drifts' \in 0 .. MaxDrifts
    BY <2>1
  <2>. QED BY <1>3, <2>2 DEF Drift, TypeOK, Change
<1>4. ASSUME NEW r \in Role, NEW c \in {"right", "wrong", "gone"}, SourceDrifts(r, c)
      PROVE  TInv'
  <2>1. drifts' \in Change /\ stale' \in SUBSET Parts
    BY <1>3, <1>4 DEF SourceDrifts
  <2>2. source' \in [Role -> [content : {"right", "wrong", "gone"}, id : Change]]
    BY <1>4, <2>1 DEF SourceDrifts, TypeOK
  <2>. QED BY <1>4, <2>1, <2>2 DEF SourceDrifts, Drift, TypeOK, CommitInv
<1>5. ASSUME NEW i \in Image, ImageDrifts(i)
      PROVE  TInv'
  <2>1. drifts' \in Change /\ stale' \in SUBSET Parts
    BY <1>3, <1>5 DEF ImageDrifts
  <2>2. image' \in [Image -> Content \ {"torn"}] /\ since' \in [Image -> 0 .. N]
    BY <1>5 DEF ImageDrifts, TypeOK, Content
  <2>. QED BY <1>5, <2>1, <2>2 DEF ImageDrifts, Drift, TypeOK, CommitInv
<1>6. ASSUME NEW p \in {Other, result.pair}, PairDrifts(p)
      PROVE  TInv'
  <2>1. drifts' \in Change /\ stale' \in SUBSET Parts
    BY <1>3, <1>6 DEF PairDrifts
  <2>2. p \in Pair
    <3>1. result \in Results
      BY DEF TypeOK
    <3>. QED BY <1>6, <3>1 DEF Results
  <2>. QED BY <1>6, <2>1, <2>2 DEF PairDrifts, Drift, TypeOK, CommitInv
<1>7. ASSUME NEW i \in Captured, NEW c \in Content, SnapshotDrifts(i, c)
      PROVE  TInv'
  <2>1. drifts' \in Change /\ stale' \in SUBSET Parts
    BY <1>3, <1>7 DEF SnapshotDrifts
  <2>2. snapshot' \in [Captured -> Content]
    BY <1>7 DEF SnapshotDrifts, TypeOK
  <2>. QED BY <1>7, <2>1, <2>2 DEF SnapshotDrifts, Drift, TypeOK, CommitInv
<1>8. CASE KeyReportDrifts \/ TreeReportDrifts
  <2>1. drifts' \in Change /\ stale' \in SUBSET Parts
    BY <1>3, <1>8 DEF KeyReportDrifts, TreeReportDrifts
  <2>. QED BY <1>8, <2>1 DEF KeyReportDrifts, TreeReportDrifts, Drift, TypeOK, CommitInv
<1>. QED BY <1>1, <1>2, <1>4, <1>5, <1>6, <1>7, <1>8 DEF Environment

LEMMA TypesHold == Spec => []TInv
<1>1. Init => TInv
  <2>. SUFFICES ASSUME Init
                PROVE  TInv
    OBVIOUS
  <2>1. /\ source \in [Role -> [content : {"right", "wrong", "gone"}, id : Change]]
        /\ snapshot \in [Captured -> Content] /\ image \in [Image -> Content \ {"torn"}]
        /\ since \in [Image -> 0 .. N] /\ child \in [Attempt -> ChildState]
    BY ConstantTypes DEF Init, Content
  <2>2. deaths \in 0 .. MaxDeaths
    BY DEF Init
  <2>. QED BY <2>1, <2>2, ConstantTypes DEF Init, TypeOK, CommitInv
<1>2. TInv /\ [Next]_vars => TInv'
  <2>. SUFFICES ASSUME TInv, [Next]_vars
                PROVE  TInv'
    OBVIOUS
  <2>1. CASE UNCHANGED vars
    BY <2>1 DEF vars, TypeOK, CommitInv
  <2>. QED BY <2>1, WorkerTypes, ChildTypes, EnvironmentTypes DEF Next
<1>. QED BY <1>1, <1>2, PTL DEF Spec

\* Whatever drifts and whoever is killed, files, records and workers hold what
\* the code expects there.
THEOREM TypeCorrect == Spec => []TypeOK
  BY TypesHold, PTL

-----------------------------------------------------------------------------
(* Which step changes what *)

Changes ==
  /\ done' # done \/ result' # result => Commit
  /\ checkpoint' # checkpoint => Publish
  /\ source' # source =>
       \E r \in Role, c \in {"right", "wrong", "gone"} : SourceDrifts(r, c)
  /\ image' # image =>
       (\E k \in Attempt, i \in Image : MakeImage(k, i)) \/ \E i \in Image : ImageDrifts(i)
  /\ since' # since => \E i \in Image : ImageDrifts(i)
  /\ key' # key \/ certificate' # certificate => "pair" \notin stale'
  /\ keyReport' # keyReport => ReportKey \/ KeyReportDrifts
  /\ begun' # begun => begun = None
  /\ treeReport' # treeReport => (\E k \in Attempt : WriteTreeReport(k)) \/ TreeReportDrifts
  /\ snapshot' # snapshot =>
       \/ \E k \in Attempt, i \in Captured : WriteSnapshot(k, i)
       \/ \E i \in Captured, c \in Content : SnapshotDrifts(i, c)
  /\ kills' # kills => Kill
  /\ edited \subseteq edited'
  /\ got' # got =>
       \/ Begin \/ Commit \/ ReadKey \/ ReadTreeReport \/ ReadEvidence
       \/ (\E r \in Role : SourceIdentity(r)) \/ \E i \in Captured : ReadSnapshot(i)
  /\ verdict' # verdict => Begin \/ VerifySources \/ VerifyKey \/ VerifySnapshots
  /\ stale' \subseteq stale \/ ListImages \/ VerifySources

Launched == (Programs \ {"checkpoint"}) \cup Captured

Moves ==
  pc' # pc =>
    /\ pc = "idle" => Begin
    /\ pc' = "report" => ReadKey
    /\ pc' = "commit" =>
         \/ Preflight \/ ReportKey \/ ReadTreeReport \/ VerifySnapshots
         \/ (\E r \in Role : SourceIdentity(r))
         \/ (\E s \in {"inputs", "root"} : EndStage(s))
         \/ \E i \in Captured : ReadSnapshot(i)
    /\ pc' = "wait" => ListImages \/ \E s \in Launched : Launch(s)
    /\ pc' = "vendor" => ListImages \/ ReadList
    /\ pc' = "evidence" => HashVendor
    /\ pc' = "publish" => ReadEvidence
    /\ pc' = "verify" => Begin \/ Commit \/ Publish \/ FindCheckpoint
    /\ pc' = "verify key" => VerifySources
    /\ pc' = "verify snapshots" => VerifyKey

LEMMA EveryStep == [Next]_vars => Changes /\ Moves
<1>. SUFFICES ASSUME [Next]_vars
              PROVE  Changes /\ Moves
  OBVIOUS
<1>0. Role \cup Captured \cup {"key", "inputs", "root", "verification"} \subseteq Launched
  BY DEF Launched, Role, Programs
<1>1. CASE Begin \/ Commit \/ Preflight \/ ReportKey
  BY <1>1 DEF Begin, Commit, Preflight, ReportKey, GoesIf, At, Changes, Moves
<1>2. CASE ReadKey \/ ReadTreeReport \/ ReadList
  BY <1>2 DEF ReadKey, ReadTreeReport, ReadList, Returns, GoesIf, At, Changes, Moves
<1>3. ASSUME NEW r \in Role, ReuseImages(r) \/ EndScript(r) \/ SourceIdentity(r)
      PROVE  Changes /\ Moves
  BY <1>3 DEF ReuseImages, EndScript, Returns, SourceIdentity, GoesIf, At, Changes, Moves
<1>4. ASSUME NEW s \in Launched, Launch(s)
      PROVE  Changes /\ Moves
  BY <1>4 DEF Launch, Starts, At, Changes, Moves
<1>5. ASSUME NEW s \in {"inputs", "root"}, EndStage(s)
      PROVE  Changes /\ Moves
  BY <1>5 DEF EndStage, Returns, GoesIf, At, Changes, Moves
<1>6. ASSUME NEW i \in Captured, ReadSnapshot(i)
      PROVE  Changes /\ Moves
  BY <1>6 DEF ReadSnapshot, Returns, GoesIf, At, Changes, Moves
<1>7. CASE ListImages
  BY <1>7 DEF ListImages, Starts, At, Changes, Moves
<1>8. CASE HashVendor \/ ReadEvidence \/ Publish \/ FindCheckpoint
  BY <1>8 DEF HashVendor, ReadEvidence, Publish, FindCheckpoint, GoesIf, At, Changes, Moves
<1>9. CASE VerifySources \/ VerifyKey \/ VerifySnapshots
  BY <1>9 DEF VerifySources, VerifyKey, VerifySnapshots, Verdict, Changes, Moves
<1>10. ASSUME NEW k \in Attempt, Child(k)
       PROVE  Changes /\ Moves
  <2>1. CASE LookForKey(k) \/ RenameKey(k) \/ RenameCertificate(k) \/ VerifyPair(k)
    BY <2>1 DEF LookForKey, RenameKey, RenameCertificate, VerifyPair, Changes, Moves
  <2>2. ASSUME NEW r \in Role, ExtractSource(k, r) \/ ImagesMade(k, r)
        PROVE  Changes /\ Moves
    BY <2>2 DEF ExtractSource, ImagesMade, Changes, Moves
  <2>3. ASSUME NEW i \in Image, MakeImage(k, i) \/ RefuseImage(k, i)
        PROVE  Changes /\ Moves
    BY <2>3 DEF MakeImage, RefuseImage, Changes, Moves
  <2>4. CASE VerifyImages(k) \/ WriteList(k)
    BY <2>4 DEF VerifyImages, WriteList, Changes, Moves
  <2>5. CASE CheckRoots(k) \/ MoveRoot(k) \/ MarkRoot(k) \/ SelectInputs(k)
    BY <2>5 DEF CheckRoots, MoveRoot, MarkRoot, SelectInputs, Changes, Moves
  <2>6. CASE ReadPair(k) \/ BeginTree(k) \/ CompleteTree(k)
    <3>1. begun' # begun => begun = None
      BY <2>6 DEF ReadPair, BeginTree, CompleteTree
    <3>2. UNCHANGED <<files, key, certificate, notes, worker, stale, ghosts>>
      BY <2>6 DEF ReadPair, BeginTree, CompleteTree
    <3>. QED BY <3>1, <3>2 DEF Changes, Moves
  <2>7. CASE CheckTree(k) \/ WriteTreeReport(k)
    BY <2>7 DEF CheckTree, WriteTreeReport, Changes, Moves
  <2>8. ASSUME NEW i \in Captured, HashImage(k, i) \/ Capture(k, i) \/ WriteSnapshot(k, i)
        PROVE  Changes /\ Moves
    BY <2>8 DEF HashImage, Capture, WriteSnapshot, Changes, Moves
  <2>. QED BY <1>10, <2>1, <2>2, <2>3, <2>4, <2>5, <2>6, <2>7, <2>8 DEF Child
<1>11. CASE Kill
  BY <1>11 DEF Kill, Changes, Moves
<1>12. ASSUME NEW k \in Attempt, ChildDies(k)
       PROVE  Changes /\ Moves
  BY <1>12 DEF ChildDies, Changes, Moves
<1>13. ASSUME NEW r \in Role, NEW c \in {"right", "wrong", "gone"}, SourceDrifts(r, c)
       PROVE  Changes /\ Moves
  BY <1>13 DEF SourceDrifts, Drift, Changes, Moves
<1>14. ASSUME NEW i \in Image, ImageDrifts(i)
       PROVE  Changes /\ Moves
  BY <1>14 DEF ImageDrifts, Drift, Changes, Moves
<1>15. ASSUME NEW p, PairDrifts(p)
       PROVE  Changes /\ Moves
  BY <1>15 DEF PairDrifts, Drift, Changes, Moves
<1>16. ASSUME NEW i \in Captured, NEW c \in Content, SnapshotDrifts(i, c)
       PROVE  Changes /\ Moves
  BY <1>16 DEF SnapshotDrifts, Drift, Changes, Moves
<1>17. CASE KeyReportDrifts \/ TreeReportDrifts
  BY <1>17 DEF KeyReportDrifts, TreeReportDrifts, Drift, Changes, Moves
<1>18. CASE UNCHANGED vars
  BY <1>18 DEF vars, Changes, Moves
<1>19. Worker => Changes /\ Moves
  BY <1>0, <1>1, <1>2, <1>3, <1>4, <1>5, <1>6, <1>7, <1>8, <1>9 DEF Worker, RunScript
<1>20. Environment => Changes /\ Moves
  BY <1>11, <1>12, <1>13, <1>14, <1>15, <1>16, <1>17 DEF Environment
<1>. QED BY <1>1, <1>10, <1>18, <1>19, <1>20 DEF Next

-----------------------------------------------------------------------------
(* Where the worker can be, and what it knows there *)

OrderInv ==
  /\ pc = "report" => done = 1
  /\ pc \in {"vendor", "evidence", "publish"} => done = N - 1 /\ checkpoint = None
  /\ pc = "wait" /\ done = N - 1 => checkpoint = None
  /\ pc \in {"verify", "verify key", "verify snapshots"} \/ verdict = "accepted" =>
       checkpoint # None
  /\ pc = "commit" /\ done = N - 1 => checkpoint # None
  /\ done = N => checkpoint # None
  /\ checkpoint # None => done >= N - 1

LEMMA AtStage ==
  ASSUME TInv
  PROVE  /\ At("preflight") => done = 0
         /\ At("key") => done = 1
         /\ \A r \in Role : At(r) => done \in {2, 3}
         /\ At("inputs") => done = 4
         /\ At("root") => done = 5
         /\ At("verification") => done = 6
         /\ \A i \in Captured : At(i) => done \in 7 .. N - 2
         /\ pc # "idle" => (At("checkpoint") <=> done = N - 1)
<1>1. done \in 0 .. N /\ N \in Nat /\ N >= 8
  BY ConstantTypes DEF TypeOK
<1>2. CASE done \in 0 .. N - 1
  BY <1>1, <1>2, StageAt DEF At
<1>3. CASE done = N
  BY <1>1, <1>3 DEF At
<1>. QED BY <1>1, <1>2, <1>3

\* Nothing that is launched is launched by the checkpoint stage.
LEMMA LaunchedEarlier ==
  ASSUME TInv, NEW s \in Launched, At(s)
  PROVE  done < N - 1
<1>1. done \in 0 .. N /\ N \in Nat /\ N >= 8
  BY ConstantTypes DEF TypeOK
<1>2. s \in {"key", "inputs", "root", "verification"} \cup Role \cup Captured
  BY DEF Launched, Programs, Role
<1>3. done \in {1, 2, 3, 4, 5, 6} \/ done \in 7 .. N - 2
  BY <1>2, AtStage
<1>. QED BY <1>1, <1>3

\* A completed stage leaves everything but the count and the results alone.
LEMMA CommitStep ==
  ASSUME TInv, Commit
  PROVE  /\ pc = "commit" /\ done < N /\ done' = done + 1 /\ pc' \in {"work", "verify"}
         /\ pc' = "verify" => done' = N
         /\ result' = IF done = N - 1 THEN result ELSE got
         /\ got' = result'
         /\ UNCHANGED <<world, child, kills, verdict, stale, ghosts>>
<1>1. pc = "commit" /\ done < N /\ done \in 0 .. N /\ N \in Nat /\ done' = done + 1
  BY ConstantTypes DEF Commit, CommitInv, TypeOK
<1>2. done' < N \/ done' = N
  BY <1>1
<1>3. At("checkpoint") <=> done = N - 1
  BY <1>1, AtStage
<1>. QED BY <1>1, <1>2, <1>3 DEF Commit

LEMMA OrderStep ==
  ASSUME TInv, TInv', OrderInv, [Next]_vars
  PROVE  OrderInv'
<1>1. /\ done \in 0 .. N /\ N \in Nat /\ N >= 8 /\ got \in Results
      /\ Changes /\ Moves
  BY EveryStep, ConstantTypes DEF TypeOK
<1>2. CASE Commit
  <2>1. /\ pc = "commit" /\ done < N /\ done' = done + 1 /\ pc' \in {"work", "verify"}
        /\ pc' = "verify" => done' = N
        /\ checkpoint' = checkpoint /\ verdict' = verdict
    BY <1>2, CommitStep
  <2>2. done' = N => done = N - 1
    BY <1>1, <2>1
  <2>3. done >= N - 1 => done' >= N - 1
    BY <1>1, <2>1
  <2>. QED BY <2>1, <2>2, <2>3 DEF OrderInv
<1>3. CASE Publish
  <2>1. checkpoint' # None
    BY <1>1, <1>3 DEF Publish
  <2>. QED BY <1>1, <1>3, <2>1 DEF Publish, OrderInv
<1>4. CASE ~Commit /\ ~Publish
  <2>1. done' = done /\ checkpoint' = checkpoint
    BY <1>1, <1>4 DEF Changes
  <2>2. CASE pc' = pc
    <3>1. verdict' = "accepted" => verdict = "accepted" \/ VerifySnapshots
      BY <1>1 DEF Changes, Begin, VerifySources, VerifyKey, Verdict
    <3>. QED BY <2>1, <2>2, <3>1 DEF OrderInv, VerifySnapshots
  <2>3. CASE pc' # pc
    <3>1. pc' = "report" => done = 1
      BY <1>1, <2>3, AtStage DEF Moves, ReadKey, Returns
    <3>2. ListImages => done = N - 1 /\ checkpoint = None
      BY AtStage DEF ListImages
    <3>3. pc' = "wait" /\ done = N - 1 => checkpoint = None
      <4>1. \A s \in Launched : Launch(s) => done < N - 1
        BY LaunchedEarlier DEF Launch
      <4>. QED BY <1>1, <2>3, <3>2, <4>1 DEF Moves
    <3>4. pc' = "vendor" => done = N - 1 /\ checkpoint = None
      <4>1. ReadList => done = N - 1 /\ pc = "wait"
        BY AtStage DEF ReadList, Returns
      <4>. QED BY <1>1, <2>3, <3>2, <4>1 DEF Moves, OrderInv
    <3>5. pc' \in {"evidence", "publish"} => done = N - 1 /\ checkpoint = None
      BY <1>1, <2>3 DEF Moves, HashVendor, ReadEvidence, OrderInv
    <3>6. pc' \in {"verify", "verify key", "verify snapshots"} => checkpoint # None
      <4>1. Begin /\ pc' = "verify" => done = N
        BY <1>1 DEF Begin
      <4>. QED BY <1>1, <1>4, <2>3, <4>1
               DEF Moves, FindCheckpoint, VerifySources, VerifyKey, OrderInv
    <3>7. verdict' = "accepted" => checkpoint # None
      BY <1>1 DEF Changes, Begin, VerifySources, VerifyKey, VerifySnapshots, Verdict, OrderInv
    <3>8. pc' = "commit" /\ done = N - 1 => checkpoint # None
      <4>1. done = N - 1 => /\ ~At("preflight") /\ ~At("inputs") /\ ~At("root")
                             /\ ~At("verification")
        BY <1>1, AtStage
      <4>2. done = N - 1 => (\A r \in Role : ~At(r)) /\ \A i \in Captured : ~At(i)
        BY <1>1, AtStage
      <4>3. ReportKey => done # N - 1
        BY <1>1 DEF ReportKey, OrderInv
      <4>4. done = N - 1 => /\ ~Preflight /\ ~ReadTreeReport
                             /\ (\A r \in Role : ~SourceIdentity(r))
                             /\ (\A s \in {"inputs", "root"} : ~EndStage(s))
                             /\ \A i \in Captured : ~ReadSnapshot(i)
        BY <4>1, <4>2 DEF Preflight, ReadTreeReport, SourceIdentity, EndStage, ReadSnapshot, Returns
      <4>. QED BY <1>1, <2>3, <4>3, <4>4 DEF Moves, VerifySnapshots, OrderInv
    <3>. QED BY <2>1, <3>1, <3>3, <3>4, <3>5, <3>6, <3>7, <3>8 DEF OrderInv
  <2>. QED BY <2>2, <2>3
<1>. QED BY <1>2, <1>3, <1>4

-----------------------------------------------------------------------------
(* The key and what is recorded of it *)

KeyInv ==
  /\ "key" \notin edited =>
       /\ done >= 2 => result.pair = keyReport
       /\ done = 1 /\ pc = "commit" => got.pair = keyReport
  /\ pc # "idle" /\ done \notin {1, N - 1} => got.pair = result.pair

\* Which steps change the pair and the tree of what the worker has read.
LEMMA ReadResult ==
  ASSUME TInv, [Next]_vars
  PROVE  /\ got'.pair # got.pair => Begin \/ Commit \/ ReadKey \/ ReadEvidence
         /\ got'.tree # got.tree => Begin \/ Commit \/ ReadTreeReport \/ ReadEvidence
<1>1. got \in Results /\ Changes
  BY EveryStep DEF TypeOK
<1>2. ReadTreeReport => got'.pair = got.pair
  BY <1>1 DEF ReadTreeReport, Results
<1>3. ReadKey => got'.tree = got.tree
  BY <1>1 DEF ReadKey, Results
<1>4. \A r \in Role : SourceIdentity(r) => got'.pair = got.pair /\ got'.tree = got.tree
  BY <1>1 DEF SourceIdentity, Results
<1>5. \A i \in Captured : ReadSnapshot(i) => got'.pair = got.pair /\ got'.tree = got.tree
  BY <1>1 DEF ReadSnapshot, Results
<1>. QED BY <1>1, <1>2, <1>3, <1>4, <1>5 DEF Changes

LEMMA KeyStep ==
  ASSUME TInv, TInv', OrderInv, KeyInv, [Next]_vars
  PROVE  KeyInv'
<1>1. /\ done \in 0 .. N /\ N \in Nat /\ N >= 8 /\ got \in Results /\ result \in Results
      /\ Changes /\ Moves
  BY EveryStep, ConstantTypes DEF TypeOK
<1>2. CASE Commit
  <2>1. /\ pc = "commit" /\ done' = done + 1 /\ edited' = edited
        /\ result' = IF done = N - 1 THEN result ELSE got
        /\ got' = result' /\ pc' \in {"work", "verify"} /\ keyReport' = keyReport
    BY <1>2, CommitStep
  <2>2. "key" \notin edited /\ done >= 1 => result'.pair = keyReport
    <3>1. CASE done = 1
      BY <1>1, <2>1, <3>1 DEF KeyInv
    <3>2. CASE done >= 2
      BY <1>1, <2>1, <3>2 DEF KeyInv
    <3>. QED BY <1>1, <3>1, <3>2
  <2>3. done' >= 2 => done >= 1
    BY <1>1, <2>1
  <2>. QED BY <2>1, <2>2, <2>3 DEF KeyInv
<1>3. CASE ReportKey
  <2>1. /\ done = 1 /\ done' = done /\ got' = got /\ keyReport' = got.pair
    BY <1>3 DEF ReportKey, OrderInv
  <2>. QED BY <2>1 DEF KeyInv
<1>4. CASE ~Commit /\ ~ReportKey
  <2>1. done' = done /\ result' = result
    BY <1>1, <1>4 DEF Changes
  <2>2. "key" \notin edited' => "key" \notin edited /\ keyReport' = keyReport
    BY <1>1, <1>4 DEF Changes, KeyReportDrifts
  <2>3. done = 1 /\ pc' = "commit" => pc = "commit" /\ got' = got
    <3>1. done = 1 => /\ ~At("preflight") /\ ~At("inputs") /\ ~At("root") /\ ~At("verification")
                       /\ (\A r \in Role : ~At(r)) /\ \A i \in Captured : ~At(i)
      BY <1>1, AtStage
    <3>2. done = 1 => checkpoint = None
      <4>1. done = 1 => ~(done >= N - 1)
        BY <1>1
      <4>. QED BY <4>1 DEF OrderInv
    <3>3. done = 1 => /\ ~Preflight /\ ~ReadTreeReport /\ ~VerifySnapshots
                       /\ (\A r \in Role : ~SourceIdentity(r))
                       /\ (\A s \in {"inputs", "root"} : ~EndStage(s))
                       /\ \A i \in Captured : ~ReadSnapshot(i)
      BY <1>1, <3>1, <3>2 DEF Preflight, ReadTreeReport, SourceIdentity, EndStage, ReadSnapshot, Returns,
                        VerifySnapshots, OrderInv
    <3>4. done = 1 /\ pc' = "commit" => pc = "commit"
      BY <1>1, <1>4, <3>3 DEF Moves
    <3>5. pc = "commit" => ~Begin /\ ~ReadKey /\ ~ReadEvidence
      BY DEF Begin, ReadKey, Returns, ReadEvidence
    <3>. QED BY <1>1, <1>4, <3>3, <3>4, <3>5 DEF Changes
  <2>4. pc' # "idle" /\ done \notin {1, N - 1} => got'.pair = result.pair
    <3>1. CASE Begin
      BY <3>1 DEF Begin
    <3>2. CASE ReadEvidence \/ ReadKey
      <4>1. done \in {1, N - 1}
        BY <3>2, AtStage DEF ReadEvidence, ReadKey, Returns, OrderInv
      <4>. QED BY <4>1
    <3>3. CASE ~Begin /\ ~ReadEvidence /\ ~ReadKey
      <4>1. got'.pair = got.pair
        BY <1>4, <3>3, ReadResult
      <4>2. pc' # "idle" => pc # "idle"
        BY <1>1, <3>3 DEF Moves
      <4>. QED BY <4>1, <4>2 DEF KeyInv
    <3>. QED BY <3>1, <3>2, <3>3
  <2>. QED BY <1>1, <2>1, <2>2, <2>3, <2>4 DEF KeyInv
<1>. QED BY <1>2, <1>3, <1>4

-----------------------------------------------------------------------------
(* The children *)

LEMMA NamesDiffer ==
  /\ "pair" \notin Role /\ "pair" \notin Captured
  /\ Role \cap Captured = {}
  /\ {"verification", "key", "inputs", "root", "checkpoint", None} \cap (Role \cup Captured) = {}
  /\ None \notin {"verification", "key", "inputs", "root", "checkpoint"}
<1>1. Captured \cap (Programs \cup {None, "pair"}) = {} /\ None \notin Programs
  BY ConstantTypes
<1>. QED BY <1>1 DEF Role, Programs

\* What the children of these stages do.
LEMMA ChildOf ==
  ASSUME NEW k \in Attempt, Child(k)
  PROVE  /\ child[k].of = "verification" => CheckTree(k) \/ WriteTreeReport(k)
         /\ \A i \in Captured :
              child[k].of = i => HashImage(k, i) \/ Capture(k, i) \/ WriteSnapshot(k, i)
<1>. DEFINE Others == {"key", "inputs", "root", "checkpoint"} \cup Role
            V == "verification"
            Claim == /\ child[k].of = V => CheckTree(k) \/ WriteTreeReport(k)
                     /\ \A i \in Captured :
                          child[k].of = i => HashImage(k, i) \/ Capture(k, i) \/ WriteSnapshot(k, i)
<1>0. V \notin Others /\ Others \cap Captured = {} /\ V \notin Captured
  BY NamesDiffer
<1>1. ASSUME child[k].of \in Others
      PROVE  Claim
  BY <1>0, <1>1
<1>2. ASSUME NEW r \in Role, ExtractSource(k, r) \/ ImagesMade(k, r)
      PROVE  child[k].of \in Others
  BY <1>2 DEF ExtractSource, ImagesMade, Is
<1>3. ASSUME NEW i \in Image, MakeImage(k, i) \/ RefuseImage(k, i)
      PROVE  child[k].of \in Others
  BY <1>3 DEF MakeImage, RefuseImage, Is
<1>4. ASSUME \/ LookForKey(k) \/ RenameKey(k) \/ RenameCertificate(k) \/ VerifyPair(k)
             \/ VerifyImages(k) \/ WriteList(k)
             \/ CheckRoots(k) \/ MoveRoot(k) \/ MarkRoot(k) \/ SelectInputs(k)
             \/ ReadPair(k) \/ BeginTree(k) \/ CompleteTree(k)
      PROVE  child[k].of \in Others
  BY <1>4 DEF LookForKey, RenameKey, RenameCertificate, VerifyPair, VerifyImages, WriteList,
              CheckRoots, MoveRoot, MarkRoot, SelectInputs, ReadPair, BeginTree, CompleteTree,
              Is, Role
<1>5. ASSUME NEW i \in Captured, HashImage(k, i) \/ Capture(k, i) \/ WriteSnapshot(k, i)
      PROVE  child[k].of = i /\ Claim
  BY <1>0, <1>5 DEF HashImage, Capture, WriteSnapshot, Is
<1>6. CheckTree(k) \/ WriteTreeReport(k) => child[k].of = V /\ Claim
  BY <1>0 DEF CheckTree, WriteTreeReport, Is
<1>. HIDE DEF Others, Claim
<1>7. Claim
  BY <1>1, <1>2, <1>3, <1>4, <1>5, <1>6 DEF Child
<1>. QED BY <1>7 DEF Claim

\* How a child changes: it begins, ends unseen, takes a step or dies.
LEMMA ChildChange ==
  ASSUME TInv, [Next]_vars, NEW k \in Attempt, child'[k] # child[k]
  PROVE  \/ child'[k] = NoChild
         \/ \E s \in Programs \cup Captured :
              /\ At(s) /\ k = kills /\ child'[k].of = s /\ child'[k].pc \in {"check", "verify"}
         \/ /\ Child(k)
            /\ \E p \in ChildPC, c \in Content, g \in Pair :
                 /\ Becomes(k, p, c, g)
                 /\ child'[k].of = child[k].of /\ child'[k].pc = p
         \/ ChildDies(k) /\ child'[k].of = child[k].of /\ child'[k].pc = "failed"
<1>. DEFINE Began == \E s \in Programs \cup Captured :
                       /\ At(s) /\ k = kills /\ child'[k].of = s
                       /\ child'[k].pc \in {"check", "verify"}
            Stepped == /\ Child(k)
                       /\ \E p \in ChildPC, c \in Content, g \in Pair :
                            /\ Becomes(k, p, c, g)
                            /\ child'[k].of = child[k].of /\ child'[k].pc = p
            Died == ChildDies(k) /\ child'[k].of = child[k].of /\ child'[k].pc = "failed"
            Claim == child'[k] = NoChild \/ Began \/ Stepped \/ Died
<1>0. child \in [Attempt -> ChildState] /\ kills \in Attempt
  BY DEF TypeOK
<1>1. ASSUME NEW s \in Programs \cup Captured, NEW at \in {"check", "verify"},
             At(s), Starts(s, at)
      PROVE  Claim
  BY <1>1, NewChild
<1>2. ASSUME NEW s \in Programs \cup Captured, Launch(s)
      PROVE  Claim
  BY <1>1, <1>2 DEF Launch
<1>3. ASSUME ListImages
      PROVE  Claim
  <2>1. "checkpoint" \in Programs
    BY DEF Programs
  <2>2. Starts("checkpoint", "verify") /\ At("checkpoint")
    BY <1>3 DEF ListImages
  <2>. QED BY <1>1, <2>1, <2>2
<1>4. ASSUME NEW s, NEW c, NEW p, Returns(s, c, p)
      PROVE  child'[k] = NoChild
  BY <1>0, <1>4 DEF Returns
<1>5. ASSUME Kill
      PROVE  Claim
  BY <1>0, <1>5 DEF Kill
<1>6. ASSUME NEW j \in Attempt, Child(j)
      PROVE  Claim
  <2>1. PICK p \in ChildPC, c \in Content, g \in Pair : Becomes(j, p, c, g)
    BY <1>6, ChildMoves
  <2>2. j = k
    BY <2>1, ChildUpdates
  <2>3. \/ child'[k] = NoChild
        \/ child'[k].of = child[k].of /\ child'[k].pc = p
    BY <2>1, <2>2, ChildUpdates
  <2>. QED BY <1>6, <2>1, <2>2, <2>3
<1>7. ASSUME NEW j \in Attempt, ChildDies(j)
      PROVE  Claim
  <2>1. "failed" \in ChildPC /\ "none" \in Content /\ None \in Pair
    BY ConstantTypes DEF Content
  <2>2. Becomes(j, "failed", "none", None)
    BY <1>7 DEF ChildDies, Goes
  <2>3. j = k
    BY <2>1, <2>2, ChildUpdates
  <2>4. \/ child'[k] = NoChild
        \/ child'[k].of = child[k].of /\ child'[k].pc = "failed"
    BY <2>1, <2>2, <2>3, ChildUpdates
  <2>. QED BY <1>7, <2>3, <2>4
<1>8. Role \cup Captured \cup {"key", "inputs", "root", "verification"} \subseteq Programs \cup Captured
  BY DEF Role, Programs
<1>. HIDE DEF Claim
<1>9. (Begin \/ Worker) => Claim
  <2>1. \A s : EndScript(s) \/ EndStage(s) => Claim
    BY <1>4 DEF EndScript, EndStage, Claim
  <2>2. ReadKey \/ ReadTreeReport \/ ReadList \/ (\E i \in Captured : ReadSnapshot(i)) => Claim
    BY <1>4 DEF ReadKey, ReadTreeReport, ReadList, ReadSnapshot, Claim
  <2>3. \/ Begin \/ Commit \/ Preflight \/ ReportKey \/ HashVendor \/ ReadEvidence \/ Publish
        \/ FindCheckpoint \/ VerifySources \/ VerifyKey \/ VerifySnapshots
        \/ \E r \in Role : ReuseImages(r) \/ SourceIdentity(r)
        => child' = child
    BY DEF Begin, Commit, Preflight, ReportKey, HashVendor, ReadEvidence, Publish,
           FindCheckpoint, VerifySources, VerifyKey, VerifySnapshots, ReuseImages, SourceIdentity
  <2>4. \A s \in Role \cup Captured \cup {"key", "inputs", "root", "verification"} :
          Launch(s) \/ RunScript(s) => Claim
    BY <1>2, <1>8 DEF RunScript
  <2>5. (\E r \in Role : ReuseImages(r) \/ RunScript(r) \/ EndScript(r) \/ SourceIdentity(r)) => Claim
    BY <2>1, <2>3, <2>4 DEF Claim
  <2>6. (\E s \in {"inputs", "root"} : Launch(s) \/ EndStage(s)) => Claim
    BY <2>1, <2>4
  <2>7. (\E i \in Captured : Launch(i) \/ ReadSnapshot(i)) => Claim
    BY <2>2, <2>4
  <2>8. child' # child
    OBVIOUS
  <2>. QED BY <1>3, <2>2, <2>3, <2>4, <2>5, <2>6, <2>7, <2>8 DEF Worker
<1>10. Environment => Claim
  <2>1. (\E r \in Role, c \in {"right", "wrong", "gone"} : SourceDrifts(r, c)) => child' = child
    BY DEF SourceDrifts, Drift
  <2>2. (\E i \in Image : ImageDrifts(i)) => child' = child
    BY DEF ImageDrifts, Drift
  <2>3. (\E i \in Captured, c \in Content : SnapshotDrifts(i, c)) => child' = child
    BY DEF SnapshotDrifts, Drift
  <2>4. (\E p \in {Other, result.pair} : PairDrifts(p)) => child' = child
    BY DEF PairDrifts, Drift
  <2>5. KeyReportDrifts \/ TreeReportDrifts => child' = child
    BY DEF KeyReportDrifts, TreeReportDrifts, Drift
  <2>. QED BY <1>5, <1>7, <2>1, <2>2, <2>3, <2>4, <2>5 DEF Environment, Claim
<1>11. UNCHANGED vars => child' = child
  BY DEF vars
<1>12. Claim
  BY <1>6, <1>9, <1>10, <1>11 DEF Next
<1>. QED BY <1>12 DEF Claim

\* The worker waits for the child it has begun.
LEMMA AwaitedChild ==
  ASSUME TInv, [Next]_vars, pc = "wait", pc' = "wait"
  PROVE  kills' = kills /\ child'[kills].of = child[kills].of
<1>1. kills \in Attempt /\ Changes
  BY EveryStep DEF TypeOK
<1>2. kills' = kills
  BY <1>1 DEF Changes, Kill
<1>3. ASSUME NEW j \in Attempt, NEW p \in ChildPC, NEW c \in Content, NEW g \in Pair,
             Becomes(j, p, c, g)
      PROVE  child'[kills].of = child[kills].of
  <2>1. j = kills => ~Ended(j, p)
    BY DEF Ended, Awaited
  <2>. QED BY <1>1, <1>3, <2>1, ChildUpdates
<1>4. ASSUME NEW j \in Attempt, Child(j)
      PROVE  child'[kills].of = child[kills].of
  BY <1>3, <1>4, ChildMoves
<1>5. ASSUME NEW j \in Attempt, ChildDies(j)
      PROVE  child'[kills].of = child[kills].of
  <2>1. "failed" \in ChildPC /\ "none" \in Content /\ None \in Pair
    BY ConstantTypes DEF Content
  <2>2. Becomes(j, "failed", "none", None)
    BY <1>5 DEF ChildDies, Goes
  <2>. QED BY <1>3, <2>1, <2>2
<1>6. (Begin \/ Worker \/ Kill) => FALSE
  <2>1. ~Begin /\ ~Kill /\ ~Commit /\ ~Preflight /\ ~ReportKey
    BY DEF Begin, Kill, Commit, Preflight, ReportKey
  <2>2. \A s : ~Launch(s) /\ ~RunScript(s) /\ ~ReuseImages(s) /\ ~SourceIdentity(s)
    BY DEF Launch, RunScript, ReuseImages, SourceIdentity
  <2>3. \A s : ~EndScript(s) /\ ~EndStage(s) /\ ~ReadSnapshot(s)
    BY DEF EndScript, EndStage, ReadSnapshot, Returns, GoesIf
  <2>4. ~ReadKey /\ ~ReadTreeReport /\ ~ReadList
    BY DEF ReadKey, ReadTreeReport, ReadList, Returns, GoesIf
  <2>5. /\ ~ListImages /\ ~HashVendor /\ ~ReadEvidence /\ ~Publish /\ ~FindCheckpoint
        /\ ~VerifySources /\ ~VerifyKey /\ ~VerifySnapshots
    BY DEF ListImages, HashVendor, ReadEvidence, Publish, FindCheckpoint, VerifySources, VerifyKey,
           VerifySnapshots
  <2>. QED BY <2>1, <2>2, <2>3, <2>4, <2>5 DEF Worker
<1>7. ASSUME NEW part, Drift(part)
      PROVE  child' = child
  BY <1>7 DEF Drift
<1>8. CASE UNCHANGED vars
  BY <1>8 DEF vars
<1>9. Environment => child'[kills].of = child[kills].of
  BY <1>5, <1>6, <1>7 DEF Environment, SourceDrifts, ImageDrifts, SnapshotDrifts, PairDrifts,
                          KeyReportDrifts, TreeReportDrifts
<1>. QED BY <1>2, <1>4, <1>6, <1>8, <1>9 DEF Next

-----------------------------------------------------------------------------
(* The tree, its report and the children that verify it *)

TreeChildInv(k) ==
  child[k].of = "verification" /\ child[k].pc = "write" =>
    child[k].pair = begun /\ begun # None

TreeInv ==
  /\ \A k \in Attempt : TreeChildInv(k)
  /\ treeReport # None \/ done >= 7 \/ (done = 6 /\ pc = "commit") => begun # None
  /\ "tree" \notin edited =>
       /\ treeReport \in {None, begun}
       /\ done >= 7 => result.tree = begun
       /\ done = 6 /\ pc = "commit" => got.tree = begun
  /\ pc # "idle" /\ done \notin {6, N - 1} => got.tree = result.tree

LEMMA TreeChildStep ==
  ASSUME TInv, TreeInv, [Next]_vars, NEW k \in Attempt
  PROVE  TreeChildInv(k)'
<1>1. Changes /\ TreeChildInv(k)
  BY EveryStep DEF TreeInv
<1>2. begun # None => begun' = begun
  BY <1>1 DEF Changes
<1>3. CASE child'[k] = child[k]
  BY <1>1, <1>2, <1>3 DEF TreeChildInv
<1>4. CASE child'[k] = NoChild
  BY <1>4, NamesDiffer DEF NoChild, TreeChildInv
<1>5. CASE child'[k].pc \in {"check", "verify", "failed"}
  BY <1>5 DEF TreeChildInv
<1>6. ASSUME Child(k), NEW p \in ChildPC, NEW c \in Content, NEW g \in Pair, Becomes(k, p, c, g),
             child'[k].of = child[k].of, child'[k].of = "verification", child'[k].pc = "write"
      PROVE  child'[k].pair = begun' /\ begun' # None
  <2>1. "failed" \in ChildPC /\ "done" \in ChildPC /\ "write" \in ChildPC /\ "none" \in Content
        /\ None \in Pair /\ certificate \in Pair
    BY ConstantTypes DEF Content, TypeOK
  <2>2. ASSUME NEW q \in {"done", "failed"}, Goes(k, q)
        PROVE  FALSE
    BY <1>6, <2>1, <2>2, ChildUpdates, NamesDiffer DEF Goes, NoChild
  <2>3. ~WriteTreeReport(k)
    BY <2>2 DEF WriteTreeReport
  <2>4. CheckTree(k)
    BY <1>6, <2>3, ChildOf
  <2>5. certificate # None /\ begun = certificate /\ Becomes(k, "write", "none", certificate)
        /\ begun' = begun
    BY <2>2, <2>4 DEF CheckTree
  <2>6. child'[k].pair = certificate
    BY <2>1, <2>5, ChildUpdates DEF Ended
  <2>. QED BY <2>5, <2>6
<1>. QED BY <1>3, <1>4, <1>5, <1>6, ChildChange DEF TreeChildInv

LEMMA TreeStep ==
  ASSUME TInv, TInv', OrderInv, TreeInv, [Next]_vars
  PROVE  TreeInv'
<1>1. /\ done \in 0 .. N /\ N \in Nat /\ N >= 8 /\ got \in Results /\ result \in Results
      /\ Changes /\ Moves
  BY EveryStep, ConstantTypes DEF TypeOK
<1>2. \A k \in Attempt : TreeChildInv(k)'
  BY TreeChildStep
<1>3. begun # None => begun' = begun
  BY <1>1 DEF Changes
<1>4. ASSUME "tree" \notin edited'
      PROVE  /\ "tree" \notin edited
             /\ treeReport' # treeReport => treeReport' = begun /\ begun' = begun /\ begun # None
  <2>1. "tree" \notin edited /\ ~TreeReportDrifts
    BY <1>1, <1>4 DEF Changes, TreeReportDrifts
  <2>2. ASSUME NEW k \in Attempt, WriteTreeReport(k)
        PROVE  treeReport' = begun /\ begun' = begun /\ begun # None
    BY <2>2 DEF WriteTreeReport, Is, TreeInv, TreeChildInv
  <2>. QED BY <1>1, <2>1, <2>2 DEF Changes
<1>5. treeReport' # None => begun' # None
  <2>1. ASSUME NEW k \in Attempt, WriteTreeReport(k)
        PROVE  begun' # None
    BY <2>1 DEF WriteTreeReport, Is, TreeInv, TreeChildInv
  <2>2. TreeReportDrifts => begun' = begun /\ treeReport # None
    BY DEF TreeReportDrifts, Drift
  <2>. QED BY <1>1, <1>3, <2>1, <2>2 DEF Changes, TreeInv
<1>6. "tree" \notin edited' => treeReport' \in {None, begun'}
  BY <1>3, <1>4, <1>5 DEF TreeInv
<1>7. CASE Commit
  <2>1. /\ pc = "commit" /\ done' = done + 1 /\ edited' = edited
        /\ result' = IF done = N - 1 THEN result ELSE got
        /\ got' = result' /\ pc' \in {"work", "verify"} /\ begun' = begun
    BY <1>7, CommitStep
  <2>2. done >= 6 => begun # None /\ ("tree" \notin edited => result'.tree = begun)
    <3>1. CASE done = 6
      <4>1. done # N - 1
        BY <1>1, <3>1
      <4>. QED BY <2>1, <3>1, <4>1 DEF TreeInv
    <3>2. CASE done >= 7
      BY <1>1, <2>1, <3>2 DEF TreeInv
    <3>. QED BY <1>1, <3>1, <3>2
  <2>3. done' >= 7 => done >= 6
    BY <1>1, <2>1
  <2>. QED BY <1>2, <1>5, <1>6, <2>1, <2>2, <2>3 DEF TreeInv
<1>8. CASE ~Commit
  <2>1. done' = done /\ result' = result
    BY <1>1, <1>8 DEF Changes
  <2>2. ASSUME done = 6, pc' = "commit"
        PROVE  begun' # None /\ ("tree" \notin edited' => got'.tree = begun')
    <3>1. /\ ~At("preflight") /\ ~At("inputs") /\ ~At("root")
          /\ (\A r \in Role : ~At(r)) /\ \A i \in Captured : ~At(i)
      BY <1>1, <2>2, AtStage
    <3>2. checkpoint = None
      <4>1. ~(done >= N - 1)
        BY <1>1, <2>2
      <4>. QED BY <4>1 DEF OrderInv
    <3>3. CASE ReadTreeReport
      <4>1. treeReport # None /\ got'.tree = treeReport /\ begun' = begun /\ edited' = edited
        BY <1>1, <2>2, <3>3 DEF ReadTreeReport, Returns, GoesIf, Results
      <4>. QED BY <4>1 DEF TreeInv
    <3>4. CASE pc = "commit"
      <4>1. ~Begin /\ ~ReadTreeReport /\ ~ReadEvidence
        BY <3>4 DEF Begin, ReadTreeReport, Returns, ReadEvidence
      <4>2. got'.tree = got.tree
        BY <1>8, <4>1, ReadResult
      <4>. QED BY <1>3, <1>4, <2>2, <3>4, <4>2 DEF TreeInv
    <3>5. CASE pc # "commit"
      <4>1. /\ ~Preflight /\ (\A r \in Role : ~SourceIdentity(r))
            /\ (\A s \in {"inputs", "root"} : ~EndStage(s))
            /\ \A i \in Captured : ~ReadSnapshot(i)
        BY <3>1 DEF Preflight, SourceIdentity, EndStage, ReadSnapshot, Returns
      <4>2. ~ReportKey /\ ~VerifySnapshots
        <5>1. (ReportKey => done = 1) /\ (VerifySnapshots => checkpoint # None)
          BY DEF ReportKey, VerifySnapshots, OrderInv
        <5>. QED BY <2>2, <3>2, <5>1
      <4>. QED BY <1>1, <2>2, <3>3, <3>5, <4>1, <4>2 DEF Moves
    <3>. QED BY <3>4, <3>5
  <2>3. done >= 7 => begun' # None /\ ("tree" \notin edited' => result.tree = begun')
    BY <1>3, <1>4 DEF TreeInv
  <2>4. pc' # "idle" /\ done \notin {6, N - 1} => got'.tree = result.tree
    <3>1. CASE Begin
      BY <3>1 DEF Begin
    <3>2. CASE ReadEvidence \/ ReadTreeReport
      <4>1. done \in {6, N - 1}
        BY <3>2, AtStage DEF ReadEvidence, ReadTreeReport, Returns, OrderInv
      <4>. QED BY <4>1
    <3>3. CASE ~Begin /\ ~ReadEvidence /\ ~ReadTreeReport
      <4>1. got'.tree = got.tree
        BY <1>8, <3>3, ReadResult
      <4>2. pc' # "idle" => pc # "idle"
        BY <1>1, <3>3 DEF Moves
      <4>. QED BY <4>1, <4>2 DEF TreeInv
    <3>. QED BY <3>1, <3>2, <3>3
  <2>. QED BY <1>2, <1>5, <1>6, <2>1, <2>2, <2>3, <2>4 DEF TreeInv
<1>. QED BY <1>7, <1>8

-----------------------------------------------------------------------------
(* The checkpoint and the results it is made of *)

RecordInv ==
  /\ pc = "publish" => IsRecorded(got)
  /\ CheckpointIsRecorded

\* What create_checkpoint reads again is what the stages returned.
LEMMA EvidenceIsResult ==
  ASSUME TInv, OrderInv, KeyInv, TreeInv, ReadEvidence, pc' = "publish"
  PROVE  IsRecorded(got)'
<1>1. /\ done >= 2 /\ done >= 7 /\ result \in Results /\ snapshot \in [Captured -> Content]
      /\ result' = result /\ edited' = edited
  BY ConstantTypes DEF ReadEvidence, OrderInv, TypeOK
<1>2. /\ certificate = result.pair \/ "key" \in edited
      /\ treeReport = result.tree \/ "tree" \in edited
  BY <1>1 DEF ReadEvidence, GoesIf, KeyInv, TreeInv
<1>3. snapshot = result.snapshot
  <2>1. \A i \in Captured : snapshot[i] = result.snapshot[i]
    BY DEF ReadEvidence, GoesIf
  <2>2. result.snapshot \in [Captured -> Content]
    BY <1>1 DEF Results
  <2>. QED BY <1>1, <2>1, <2>2
<1>4. /\ got'.source = result.source /\ got'.snapshot = snapshot
      /\ got'.pair = certificate /\ got'.tree = treeReport
  BY <1>1 DEF ReadEvidence, Results
<1>. QED BY <1>1, <1>2, <1>3, <1>4 DEF IsRecorded

LEMMA RecordStep ==
  ASSUME TInv, TInv', OrderInv, KeyInv, TreeInv, RecordInv, [Next]_vars
  PROVE  RecordInv'
<1>1. /\ done \in 0 .. N /\ N \in Nat /\ Changes /\ Moves /\ edited \subseteq edited'
  BY EveryStep, ConstantTypes DEF TypeOK, Changes
<1>2. ASSUME NEW c, IsRecorded(c), result' = result
      PROVE  /\ c.source = result'.source /\ c.snapshot = result'.snapshot
             /\ c.pair = result'.pair \/ "key" \in edited'
             /\ c.tree = result'.tree \/ "tree" \in edited'
  BY <1>1, <1>2 DEF IsRecorded
<1>3. pc' = "publish" => IsRecorded(got)'
  <2>1. CASE pc' # pc
    BY <1>1, <2>1, EvidenceIsResult DEF Moves
  <2>2. CASE pc' = pc
    <3>1. pc = "publish" =>
            /\ ~Begin /\ ~Commit /\ ~ReadKey /\ ~ReadTreeReport /\ ~ReadEvidence
            /\ (\A r \in Role : ~SourceIdentity(r)) /\ \A i \in Captured : ~ReadSnapshot(i)
      BY DEF Begin, Commit, ReadKey, ReadTreeReport, Returns, ReadEvidence, SourceIdentity,
             ReadSnapshot
    <3>2. pc = "publish" => got' = got /\ result' = result
      BY <1>1, <3>1 DEF Changes
    <3>. QED BY <1>2, <2>2, <3>2 DEF RecordInv, IsRecorded
  <2>. QED BY <2>1, <2>2
<1>4. checkpoint' # None => IsRecorded(checkpoint)'
  <2>1. CASE Publish
    <3>1. pc = "publish" /\ checkpoint' = got /\ result' = result
      BY <2>1 DEF Publish
    <3>. QED BY <1>2, <3>1 DEF RecordInv, IsRecorded
  <2>2. CASE Commit
    <3>1. /\ checkpoint' = checkpoint /\ result' = IF done = N - 1 THEN result ELSE got
          /\ done < N
      BY <2>2, CommitStep
    <3>2. checkpoint # None => done = N - 1
      <4>1. done >= N - 1 => done = N - 1
        BY <1>1, <3>1
      <4>. QED BY <4>1 DEF OrderInv
    <3>. QED BY <1>2, <3>1, <3>2 DEF RecordInv, CheckpointIsRecorded, IsRecorded
  <2>3. CASE ~Publish /\ ~Commit
    <3>1. checkpoint' = checkpoint /\ result' = result
      BY <1>1, <2>3 DEF Changes
    <3>. QED BY <1>2, <3>1 DEF RecordInv, CheckpointIsRecorded, IsRecorded
  <2>. QED BY <2>1, <2>2, <2>3
<1>. QED BY <1>3, <1>4 DEF RecordInv, CheckpointIsRecorded

-----------------------------------------------------------------------------
(* What a verdict vouches for *)

SourcesExcused ==
  \A r \in Role : r \in stale => source[r].id = checkpoint.source[r]

DifferencesStand ==
  /\ "pair" \in stale => ~PairStands
  /\ \A i \in Captured : i \in stale => snapshot[i] # checkpoint.snapshot[i]

VerdictInv ==
  /\ pc \in {"verify key", "verify snapshots"} \/ verdict = "accepted" =>
       SourcesExcused /\ DifferencesStand
  /\ pc = "verify snapshots" \/ verdict = "accepted" => "pair" \notin stale
  /\ verdict = "accepted" => stale \cap Captured = {}

LEMMA VerdictStep ==
  ASSUME TInv, TInv', OrderInv, VerdictInv, [Next]_vars
  PROVE  VerdictInv'
<1>1. Changes /\ Moves
  BY EveryStep
<1>2. CASE VerifySources
  <2>1. pc' = "verify key" =>
          \A r \in Role : r \in stale' => source[r].id = checkpoint.source[r]
    BY <1>2, NamesDiffer DEF VerifySources, SourceStands, Verdict, Wrong
  <2>2. /\ "pair" \in stale' => ~PairStands
        /\ \A i \in Captured : i \in stale' => snapshot[i] # checkpoint.snapshot[i]
    BY <1>2, NamesDiffer DEF VerifySources, Wrong
  <2>3. /\ UNCHANGED <<source, key, certificate, snapshot, checkpoint>>
        /\ verdict' # "accepted" /\ pc' \in {"verify key", "idle"}
    BY <1>2 DEF VerifySources, Verdict
  <2>. QED BY <2>1, <2>2, <2>3 DEF VerdictInv, SourcesExcused, DifferencesStand, PairStands
<1>3. CASE ListImages
  <2>1. verdict' # "accepted" /\ pc' \in {"vendor", "wait"}
    BY <1>3 DEF ListImages, Starts, OrderInv
  <2>. QED BY <2>1 DEF VerdictInv
<1>4. CASE ~VerifySources /\ ~ListImages
  <2>1. stale' \subseteq stale
    BY <1>1, <1>4 DEF Changes
  <2>. DEFINE V == pc \in {"verify key", "verify snapshots"} \/ verdict = "accepted"
  <2>2. V' => V
    BY <1>1, <1>4 DEF Changes, Moves, Begin, VerifyKey, VerifySnapshots, Verdict
  <2>3. V => checkpoint' = checkpoint
    BY <1>1 DEF Changes, Publish, OrderInv
  <2>4. V => SourcesExcused'
    <3>1. ASSUME V, NEW r \in Role, r \in stale'
          PROVE  source'[r] = source[r]
      <4>1. ASSUME NEW q \in Role, NEW c \in {"right", "wrong", "gone"}, SourceDrifts(q, c)
            PROVE  source'[r] = source[r]
        BY <3>1, <4>1 DEF SourceDrifts, Drift, TypeOK
      <4>. QED BY <1>1, <4>1 DEF Changes
    <3>. QED BY <2>1, <2>3, <3>1 DEF VerdictInv, SourcesExcused
  <2>5. V => DifferencesStand'
    <3>1. "pair" \in stale' => key' = key /\ certificate' = certificate
      BY <1>1 DEF Changes
    <3>2. ASSUME V, NEW i \in Captured, i \in stale'
          PROVE  snapshot'[i] = snapshot[i]
      <4>1. ASSUME NEW k \in Attempt, NEW j \in Captured, WriteSnapshot(k, j)
            PROVE  snapshot'[i] = snapshot[i]
        BY <3>2, <4>1 DEF WriteSnapshot, TypeOK
      <4>2. ASSUME NEW j \in Captured, NEW c \in Content, SnapshotDrifts(j, c)
            PROVE  snapshot'[i] = snapshot[i]
        BY <3>2, <4>2 DEF SnapshotDrifts, Drift, TypeOK
      <4>. QED BY <1>1, <4>1, <4>2 DEF Changes
    <3>. QED BY <2>1, <2>3, <3>1, <3>2 DEF VerdictInv, DifferencesStand, PairStands
  <2>6. pc' = "verify snapshots" \/ verdict' = "accepted" => "pair" \notin stale'
    <3>1. VerifyKey /\ pc' = "verify snapshots" => "pair" \notin stale
      BY DEF VerifyKey, Verdict, VerdictInv, DifferencesStand
    <3>2. pc' = "verify snapshots" /\ pc' # pc => VerifyKey
      BY <1>1 DEF Moves
    <3>3. verdict' = "accepted" => verdict = "accepted" \/ pc = "verify snapshots"
      BY <1>1, <1>4 DEF Changes, Begin, VerifyKey, VerifySnapshots, Verdict
    <3>. QED BY <2>1, <3>1, <3>2, <3>3 DEF VerdictInv
  <2>7. verdict' = "accepted" => stale' \cap Captured = {}
    <3>1. CASE VerifySnapshots
      <4>1. verdict' = "accepted" => \A i \in Captured : snapshot[i] = checkpoint.snapshot[i]
        BY <3>1 DEF VerifySnapshots, Verdict
      <4>2. DifferencesStand
        BY <3>1 DEF VerifySnapshots, VerdictInv
      <4>. QED BY <2>1, <4>1, <4>2 DEF DifferencesStand
    <3>2. CASE ~VerifySnapshots
      <4>1. verdict' = "accepted" => verdict = "accepted"
        BY <1>1, <1>4, <3>2 DEF Changes, Begin, VerifyKey, Verdict
      <4>. QED BY <2>1, <4>1 DEF VerdictInv
    <3>. QED BY <3>1, <3>2
  <2>. QED BY <2>2, <2>4, <2>5, <2>6, <2>7 DEF VerdictInv
<1>. QED BY <1>2, <1>3, <1>4

LEMMA AcceptedStep == TInv /\ VerdictInv => AcceptedIsRight
<1>. SUFFICES ASSUME TInv, VerdictInv, verdict = "accepted", NEW part \in stale
              PROVE  part \in Role /\ source[part].id = checkpoint.source[part]
  BY DEF AcceptedIsRight
<1>1. part \in Role
  BY DEF VerdictInv, TypeOK, Parts
<1>. QED BY <1>1 DEF VerdictInv, SourcesExcused

-----------------------------------------------------------------------------
(* The hashes of the images *)

\* If image i is wrong, it has become so when n stages were completed, or later.
WrongSince(i, n) == image[i] = "wrong" => since[i] >= n

HashChildInv(k) ==
  \A i \in Captured :
    child[k].of = i =>
      /\ done >= Index(i) - 1
      /\ child[k].pc \in {"capture", "write", "done"} => WrongSince(i, Index(i) - 1)

HashInv ==
  /\ \A k \in Attempt : HashChildInv(k)
  /\ \A i \in Captured :
       /\ done >= Index(i) => WrongSince(i, Index(i) - 1)
       /\ done = Index(i) - 1 /\ pc = "wait" => child[kills].of = i
       /\ done = Index(i) - 1 /\ pc = "commit" => WrongSince(i, Index(i) - 1)
  /\ pc \in {"evidence", "publish"} => WrongSince(Vendor, N - 1)

LEMMA StageIndex ==
  /\ Index("checkpoint") = N
  /\ \A i \in Captured : Index(i) \in 8 .. N - 1 /\ Stage[Index(i)] = i
<1>1. Index("checkpoint") = N
  <2>1. \A k \in 1 .. N : Stage[k] = "checkpoint" <=> k = N
    <3>. SUFFICES ASSUME NEW k \in 1 .. N
                  PROVE  Stage[k] = "checkpoint" <=> k = N
      OBVIOUS
    <3>1. k - 1 \in 0 .. N - 1 /\ (k - 1) + 1 = k /\ (k - 1 = N - 1 <=> k = N)
      BY StageSequence
    <3>2. Stage[(k - 1) + 1] = "checkpoint" <=> k - 1 = N - 1
      BY <3>1, StageAt
    <3>. QED BY <3>1, <3>2
  <2>2. N \in 1 .. N
    BY ConstantTypes
  <2>. QED BY <2>1, <2>2 DEF Index
<1>2. ASSUME NEW i \in Captured
      PROVE  Index(i) \in 8 .. N - 1 /\ Stage[Index(i)] = i
  <2>1. PICK j \in 1 .. Len(Snapped) : Snapped[j] = i
    BY DEF Captured, ToSet
  <2>2. Len(Snapped) \in Nat
    OBVIOUS
  <2>3. j + 7 \in 1 .. N /\ Stage[j + 7] = i
    <3>1. j + 7 \in 8 .. N - 1 /\ (j + 7) - 7 = j /\ j + 7 \in 1 .. N
      BY <2>2, StageSequence
    <3>2. Stage[j + 7] = Snapped[(j + 7) - 7]
      BY <3>1, StageSequence
    <3>. QED BY <2>1, <3>1, <3>2
  <2>4. Index(i) \in 1 .. N /\ Stage[Index(i)] = i
    BY <2>3 DEF Index
  <2>5. Index(i) \in 8 .. N - 1
    <3>0. PICK k : k = Index(i)
      OBVIOUS
    <3>1. /\ Index(i) - 1 \in 0 .. N - 1 /\ (Index(i) - 1) + 1 = Index(i)
          /\ Index(i) - 1 \in 7 .. N - 2 => Index(i) \in 8 .. N - 1
      <4>1. k \in 1 .. N /\ N \in Nat
        BY <2>4, <3>0, StageSequence
      <4>2. k - 1 \in 0 .. N - 1 /\ (k - 1) + 1 = k /\ (k - 1 \in 7 .. N - 2 => k \in 8 .. N - 1)
        BY <4>1
      <4>. QED  BY <3>0, <4>2, Zenon
    <3>. HIDE DEF Index
    <3>2. Stage[(Index(i) - 1) + 1] \in Captured
      BY <2>4, <3>1
    <3>3. Index(i) - 1 \in 7 .. N - 2
      BY <3>1, <3>2, StageAt
    <3>. QED BY <3>1, <3>3
  <2>. QED BY <2>4, <2>5
<1>. QED BY <1>1, <1>2

\* An image has one stage.
LEMMA AtIndex ==
  ASSUME TInv, NEW i \in Captured, At(i)
  PROVE  done = Index(i) - 1
<1>1. done \in 7 .. N - 2 /\ Stage[done + 1] = i /\ N \in Nat
  BY AtStage, ConstantTypes DEF At
<1>2. Index(i) \in 8 .. N - 1 /\ Stage[Index(i)] = i
  BY StageIndex
<1>3. Len(Snapped) = N - 8 /\ DOMAIN Snapped = 1 .. Len(Snapped)
  <2>1. Len(Snapped) \in Nat /\ DOMAIN Snapped = 1 .. Len(Snapped)
    OBVIOUS
  <2>. QED BY <2>1, StageSequence
<1>4. /\ Snapped[(done + 1) - 7] = i /\ Snapped[Index(i) - 7] = i
      /\ (done + 1) - 7 \in DOMAIN Snapped /\ Index(i) - 7 \in DOMAIN Snapped
  <2>1. done + 1 \in 8 .. N - 1
    BY <1>1
  <2>2. (done + 1) - 7 \in 1 .. N - 8 /\ Index(i) - 7 \in 1 .. N - 8
    BY <1>1, <1>2
  <2>. QED BY <1>1, <1>2, <1>3, <2>1, <2>2, StageSequence
<1>5. (done + 1) - 7 = Index(i) - 7
  BY <1>4 DEF IsInjective
<1>. QED BY <1>1, <1>2, <1>5

LEMMA WrongSinceStep ==
  ASSUME TInv, [Next]_vars, NEW i \in Image, NEW n \in 0 .. N, done >= n, WrongSince(i, n)
  PROVE  WrongSince(i, n)'
<1>1. Changes /\ done \in 0 .. N /\ since \in [Image -> 0 .. N] /\ image \in [Image -> Content \ {"torn"}]
  BY EveryStep DEF TypeOK
<1>2. ASSUME NEW j \in Image, ImageDrifts(j)
      PROVE  WrongSince(i, n)'
  BY <1>1, <1>2 DEF ImageDrifts, WrongSince
<1>3. ASSUME NEW k \in Attempt, NEW j \in Image, MakeImage(k, j)
      PROVE  WrongSince(i, n)'
  <2>1. image'[i] = "wrong" => image[i] = "wrong"
    BY <1>1, <1>3 DEF MakeImage
  <2>2. since' = since
    BY <1>3 DEF MakeImage
  <2>. QED BY <2>1, <2>2 DEF WrongSince
<1>4. CASE image' = image /\ since' = since
  BY <1>4 DEF WrongSince
<1>. QED BY <1>1, <1>2, <1>3, <1>4 DEF Changes

LEMMA HashChildStep ==
  ASSUME TInv, HashInv, [Next]_vars, NEW k \in Attempt
  PROVE  HashChildInv(k)'
<1>. SUFFICES ASSUME NEW i \in Captured, child'[k].of = i
              PROVE  /\ done' >= Index(i) - 1
                     /\ child'[k].pc \in {"capture", "write", "done"} =>
                          WrongSince(i, Index(i) - 1)'
  BY DEF HashChildInv
<1>0. Index(i) \in 8 .. N - 1
  BY StageIndex
<1>. HIDE DEF Index
<1>1. /\ Changes /\ done \in 0 .. N /\ N \in Nat
      /\ Index(i) - 1 \in 0 .. N /\ i \in Image
  <2>1. Index(i) - 1 \in 0 .. N
    BY <1>0, ConstantTypes
  <2>. QED BY <2>1, EveryStep, ConstantTypes DEF TypeOK
<1>2. ASSUME done >= Index(i) - 1
      PROVE  done' >= Index(i) - 1
  <2>1. done' = done \/ done' = done + 1
    BY <1>1, CommitStep DEF Changes
  <2>. QED BY <1>1, <1>2, <2>1
<1>3. CASE child'[k] = child[k]
  <2>1. done >= Index(i) - 1
    BY <1>3 DEF HashInv, HashChildInv
  <2>2. child'[k].pc \in {"capture", "write", "done"} => WrongSince(i, Index(i) - 1)
    BY <1>3 DEF HashInv, HashChildInv
  <2>. QED BY <1>1, <1>2, <2>1, <2>2, WrongSinceStep
<1>4. CASE child'[k] = NoChild
  BY <1>4, NamesDiffer DEF NoChild
<1>5. ASSUME At(i), child'[k].pc \in {"check", "verify"}
      PROVE  /\ done' >= Index(i) - 1
             /\ child'[k].pc \notin {"capture", "write", "done"}
  BY <1>1, <1>2, <1>5, AtIndex
<1>6. ASSUME child'[k].of = child[k].of
      PROVE  done >= Index(i) - 1 /\ done' >= Index(i) - 1
  BY <1>2, <1>6 DEF HashInv, HashChildInv
<1>7. ASSUME Child(k), NEW p \in ChildPC, NEW c \in Content, NEW g \in Pair, Becomes(k, p, c, g),
             child'[k].of = child[k].of, child'[k].pc = p,
             p \in {"capture", "write", "done"}
      PROVE  WrongSince(i, Index(i) - 1)'
  <2>1. child[k].of = i
    BY <1>7
  <2>2. HashImage(k, i) \/ Capture(k, i) \/ WriteSnapshot(k, i)
    BY <1>7, <2>1, ChildOf
  <2>3. CASE HashImage(k, i)
    <3>1. "failed" \in ChildPC /\ "none" \in Content /\ None \in Pair
      BY ConstantTypes DEF Content
    <3>2. ~Goes(k, "failed")
      <4>1. Goes(k, "failed") => child'[k] = NoChild \/ child'[k].pc = "failed"
        BY <3>1, ChildUpdates DEF Goes
      <4>. QED BY <1>7, <4>1, NamesDiffer DEF NoChild
    <3>3. image[i] = "right" /\ image' = image
      BY <2>3, <3>2 DEF HashImage
    <3>. QED BY <3>3 DEF WrongSince
  <2>4. CASE Capture(k, i) \/ WriteSnapshot(k, i)
    <3>1. child[k].pc \in {"capture", "write"}
      BY <2>4 DEF Capture, WriteSnapshot, Is
    <3>2. WrongSince(i, Index(i) - 1) /\ done >= Index(i) - 1
      BY <2>1, <3>1 DEF HashInv, HashChildInv
    <3>. QED BY <1>1, <3>2, WrongSinceStep
  <2>. QED BY <2>2, <2>3, <2>4
<1>8. CASE \E s \in Programs \cup Captured :
             At(s) /\ k = kills /\ child'[k].of = s /\ child'[k].pc \in {"check", "verify"}
  BY <1>5, <1>8
<1>9. CASE /\ Child(k)
           /\ \E p \in ChildPC, c \in Content, g \in Pair :
                /\ Becomes(k, p, c, g)
                /\ child'[k].of = child[k].of /\ child'[k].pc = p
  BY <1>6, <1>7, <1>9
<1>10. CASE child'[k].of = child[k].of /\ child'[k].pc = "failed"
  BY <1>6, <1>10
<1>. QED BY <1>3, <1>4, <1>8, <1>9, <1>10, ChildChange

LEMMA HashStep ==
  ASSUME TInv, TInv', OrderInv, HashInv, [Next]_vars
  PROVE  HashInv'
<1>1. /\ Changes /\ Moves /\ kills \in Attempt /\ done \in 0 .. N /\ N \in Nat /\ N >= 8
  BY EveryStep, ConstantTypes DEF TypeOK
<1>2. \A k \in Attempt : HashChildInv(k)'
  BY HashChildStep
<1>3. ASSUME NEW i \in Captured
      PROVE  /\ done' >= Index(i) => WrongSince(i, Index(i) - 1)'
             /\ done' = Index(i) - 1 /\ pc' = "wait" => child'[kills'].of = i
             /\ done' = Index(i) - 1 /\ pc' = "commit" => WrongSince(i, Index(i) - 1)'
  <2>1. Index(i) \in 8 .. N - 1 /\ Index(i) - 1 \in 0 .. N /\ i \in Image
    BY <1>1, StageIndex, ConstantTypes
  <2>. HIDE DEF Index
  <2>2. CASE Commit
    <3>1. pc = "commit" /\ done' = done + 1 /\ pc' \notin {"wait", "commit"}
      BY <2>2, CommitStep
    <3>2. done' >= Index(i) => done >= Index(i) \/ done = Index(i) - 1
      BY <1>1, <2>1, <3>1
    <3>3. done' >= Index(i) => WrongSince(i, Index(i) - 1) /\ done >= Index(i) - 1
      BY <1>1, <2>1, <3>1, <3>2 DEF HashInv
    <3>. QED BY <2>1, <3>1, <3>3, WrongSinceStep
  <2>3. CASE ~Commit
    <3>1. done' = done
      BY <1>1, <2>3 DEF Changes
    <3>2. done >= Index(i) => done >= Index(i) - 1
      BY <1>1, <2>1
    <3>3. done' >= Index(i) => WrongSince(i, Index(i) - 1)'
      BY <2>1, <3>1, <3>2, WrongSinceStep DEF HashInv
    <3>4. done = Index(i) - 1 /\ pc' = "wait" => child'[kills'].of = i
      <4>1. CASE pc' = pc
        BY <4>1, AwaitedChild DEF HashInv
      <4>2. CASE pc' # pc
        <5>1. done = Index(i) - 1 => /\ done # N - 1
                                     /\ done \in 7 .. N - 2
          BY <1>1, <2>1
        <5>2. ListImages => done = N - 1
          BY AtStage DEF ListImages
        <5>3. ASSUME NEW s \in Launched, Launch(s), done = Index(i) - 1
              PROVE  child'[kills'].of = i
          <6>1. /\ done # 1 /\ done \notin {2, 3} /\ done # 4 /\ done # 5 /\ done # 6
            BY <1>1, <5>1, <5>3
          <6>2. At(s) /\ Starts(s, "check") /\ kills' = kills
            BY <5>3 DEF Launch
          <6>3. s \in Captured
            BY <6>1, <6>2, AtStage DEF Launched, Programs, Role
          <6>4. done = Index(s) - 1 /\ Stage[Index(s)] = s /\ Stage[Index(i)] = i
                /\ Index(s) \in 8 .. N - 1
            BY <6>2, <6>3, AtIndex, StageIndex
          <6>5. Index(s) = Index(i)
            BY <1>1, <2>1, <5>3, <6>4
          <6>6. child'[kills].of = s
            BY <6>2, <6>3, NewChild
          <6>. QED BY <6>2, <6>4, <6>5, <6>6
        <5>. QED BY <1>1, <4>2, <5>1, <5>2, <5>3 DEF Moves
      <4>. QED BY <4>1, <4>2
    <3>5. done = Index(i) - 1 /\ pc' = "commit" => WrongSince(i, Index(i) - 1)'
      <4>. SUFFICES ASSUME done = Index(i) - 1, pc' = "commit"
                    PROVE  WrongSince(i, Index(i) - 1)
        BY <1>1, <2>1, WrongSinceStep
      <4>1. CASE pc' = pc
        BY <4>1 DEF HashInv
      <4>2. CASE pc' # pc
        <5>1. done \in 7 .. N - 2
          BY <1>1, <2>1
        <5>2. /\ ~At("preflight") /\ ~At("inputs") /\ ~At("root") /\ ~At("verification")
              /\ \A r \in Role : ~At(r)
          BY <5>1, AtStage
        <5>3. /\ ~Preflight /\ ~ReadTreeReport
              /\ (\A r \in Role : ~SourceIdentity(r))
              /\ \A s \in {"inputs", "root"} : ~EndStage(s)
          BY <5>2 DEF Preflight, ReadTreeReport, SourceIdentity, EndStage, Returns
        <5>4. ~ReportKey /\ ~VerifySnapshots
          <6>1. (ReportKey => done = 1) /\ (VerifySnapshots => done >= N - 1)
            BY DEF ReportKey, VerifySnapshots, OrderInv
          <6>2. done # 1 /\ ~(done >= N - 1)
            BY <1>1, <5>1
          <6>. QED BY <6>1, <6>2
        <5>5. PICK j \in Captured : ReadSnapshot(j)
          BY <1>1, <4>2, <5>3, <5>4 DEF Moves
        <5>6. At(j) /\ pc = "wait" /\ child[kills].pc = "done"
          BY <5>5 DEF ReadSnapshot, Returns, GoesIf
        <5>7. child[kills].of = i
          BY <5>6 DEF HashInv
        <5>. QED BY <1>1, <5>6, <5>7 DEF HashInv, HashChildInv
      <4>. QED BY <4>1, <4>2
    <3>. QED BY <3>1, <3>3, <3>4, <3>5
  <2>. QED BY <2>2, <2>3
<1>4. pc' \in {"evidence", "publish"} => WrongSince(Vendor, N - 1)'
  <2>1. CASE pc' = pc
    <3>1. pc \in {"evidence", "publish"} => done = N - 1 /\ WrongSince(Vendor, N - 1)
      BY DEF OrderInv, HashInv
    <3>2. N - 1 \in 0 .. N /\ (done = N - 1 => done >= N - 1)
      BY <1>1
    <3>. QED BY <2>1, <3>1, <3>2, WrongSinceStep, ConstantTypes
  <2>2. CASE pc' # pc
    <3>1. HashVendor /\ pc' = "evidence" => image'[Vendor] = "right"
      BY DEF HashVendor, GoesIf
    <3>2. ReadEvidence => image' = image /\ since' = since /\ pc = "evidence"
      BY DEF ReadEvidence
    <3>. QED BY <1>1, <2>2, <3>1, <3>2 DEF Moves, HashInv, WrongSince
  <2>. QED BY <2>1, <2>2
<1>. QED BY <1>2, <1>3, <1>4 DEF HashInv

-----------------------------------------------------------------------------
(* The theorems *)

IInv == OrderInv /\ KeyInv /\ TreeInv /\ RecordInv /\ VerdictInv /\ HashInv

LEMMA InitIInv == Init => IInv
<1>. SUFFICES ASSUME Init
              PROVE  IInv
  OBVIOUS
<1>1. N \in Nat /\ N >= 8
  BY ConstantTypes
<1>2. OrderInv /\ KeyInv /\ RecordInv /\ VerdictInv
  BY <1>1 DEF Init, OrderInv, KeyInv, RecordInv, CheckpointIsRecorded, VerdictInv
<1>3. \A k \in Attempt : child[k].of \notin Captured \cup {"verification"}
  BY NamesDiffer DEF Init, NoChild
<1>4. TreeInv
  BY <1>1, <1>3 DEF Init, TreeInv, TreeChildInv
<1>5. \A i \in Captured : Index(i) \in 8 .. N - 1
  BY StageIndex
<1>6. HashInv
  BY <1>1, <1>3, <1>5 DEF Init, HashInv, HashChildInv
<1>. QED BY <1>2, <1>4, <1>6 DEF IInv

\* The invariant the theorems below follow from, in any run of the stages with
\* kills, children that die or finish late, and drift.
THEOREM IInvHolds == Spec => []IInv
<1>1. Init => IInv
  BY InitIInv
<1>2. TInv /\ TInv' /\ IInv /\ [Next]_vars => IInv'
  <2>. SUFFICES ASSUME TInv, TInv', IInv, [Next]_vars
                PROVE  IInv'
    OBVIOUS
  <2>. USE DEF IInv
  <2>1. OrderInv' /\ KeyInv' /\ TreeInv'
    BY OrderStep, KeyStep, TreeStep
  <2>2. RecordInv' /\ VerdictInv' /\ HashInv'
    BY RecordStep, VerdictStep, HashStep
  <2>. QED BY <2>1, <2>2
<1>. QED BY <1>1, <1>2, TypesHold, PTL DEF Spec

\* What create_checkpoint publishes of sources and snapshots is what the stages
\* returned, and it stays the result of the run, although both are read from files
\* that drift and that children of killed workers write late.  So is what it
\* publishes of the pair and of the tree, unless somebody edited the report on the
\* key or the report on the tree.
THEOREM CheckpointRecorded == Spec => []CheckpointIsRecorded
<1>1. IInv => CheckpointIsRecorded
  BY DEF IInv, RecordInv
<1>. QED BY <1>1, IInvHolds, PTL

\* verify_checkpoint accepts nothing that was wrong when it began and is wrong
\* still, but for a ZIP that was replaced before its identity was recorded.
THEOREM AcceptedRight == Spec => []AcceptedIsRight
<1>1. TInv /\ IInv => AcceptedIsRight
  BY AcceptedStep DEF IInv
<1>. QED BY <1>1, TypesHold, IInvHolds, PTL

\* No image the checkpoint certifies was wrong all the time since before the stage
\* that captured its metadata, although create_checkpoint believes images.json.
THEOREM PublishedHashed == Spec => PublishedImagesWereHashed
<1>1. ASSUME TInv, IInv, [Next]_vars, checkpoint = None, checkpoint' # None, NEW i \in Image,
             image[i] = "wrong"
      PROVE  since[i] >= Index(IF i = Vendor THEN "checkpoint" ELSE i) - 1
  <2>1. pc = "publish" /\ Publish
    BY <1>1, EveryStep DEF Changes, Publish
  <2>2. done = N - 1
    BY <1>1, <2>1 DEF IInv, OrderInv
  <2>3. CASE i = Vendor
    <3>1. WrongSince(Vendor, N - 1)
      BY <1>1, <2>1 DEF IInv, HashInv
    <3>. QED BY <1>1, <2>3, <3>1, StageIndex DEF WrongSince
  <2>4. CASE i # Vendor
    <3>1. i \in Captured /\ Index(i) \in 8 .. N - 1
      BY <1>1, <2>4, StageIndex DEF Image
    <3>. HIDE DEF Index
    <3>2. done >= Index(i)
      BY <2>2, <3>1, ConstantTypes
    <3>. QED BY <1>1, <2>4, <3>1, <3>2 DEF IInv, HashInv, WrongSince
  <2>. QED BY <2>3, <2>4
<1>2. TInv /\ IInv /\ [Next]_vars =>
        [checkpoint = None /\ checkpoint' # None =>
           \A i \in Image :
             image[i] = "wrong" =>
               since[i] >= Index(IF i = Vendor THEN "checkpoint" ELSE i) - 1]_vars
  BY <1>1
<1>. QED BY <1>2, TypesHold, IInvHolds, PTL DEF Spec, PublishedImagesWereHashed
=============================================================================
