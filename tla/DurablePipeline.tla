--------------------------- MODULE DurablePipeline ---------------------------
(***************************************************************************)
(* What the durable Case 5.1 runner promises about its state file          *)
(* (docs/CASE-5-1-CHECKPOINT.md, "Ordered resume contract"): the stages    *)
(* are committed one at a time, in the locked order, and the result a      *)
(* stage was committed with is never replaced.  Who commits it, after how  *)
(* many attempts and which of them were killed does not show.              *)
(*                                                                         *)
(* A machine that loses power may come back with an older state file: the  *)
(* rename that published the newest one had not reached the disk.  Then a  *)
(* tail of the committed stages is forgotten, never one in the middle.     *)
(***************************************************************************)
EXTENDS Integers

CONSTANTS
  N,            \* number of stages
  Result,       \* what a stage may return
  NoResult,     \* the value of a stage that is not committed
  MayLoseTail   \* TRUE where the machine may lose power

VARIABLE recorded   \* the committed result of each stage

Stages == 1 .. N

TypeOK == recorded \in [Stages -> Result \cup {NoResult}]

Init == recorded = [k \in Stages |-> NoResult]

Record(k, r) ==
  /\ recorded[k] = NoResult
  /\ \A j \in 1 .. (k - 1) : recorded[j] # NoResult
  /\ recorded' = [recorded EXCEPT ![k] = r]

LoseTail(k) ==
  /\ MayLoseTail
  /\ recorded' = [j \in Stages |-> IF j < k THEN recorded[j] ELSE NoResult]

Next ==
  \/ \E k \in Stages, r \in Result : Record(k, r)
  \/ \E k \in Stages : LoseTail(k)

Spec == Init /\ [][Next]_recorded

=============================================================================
