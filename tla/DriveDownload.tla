---------------------------- MODULE DriveDownload ----------------------------
(***************************************************************************)
(* scripts/download-drive-file.sh: one source ZIP is fetched by curl into  *)
(* DESTINATION.partial, from the offset it has already, verified and       *)
(* renamed.  The script locks DESTINATION.lock without waiting; curl       *)
(* inherits the descriptor, and with it the lock of a killed script.       *)
(*                                                                         *)
(* A file is its length, in units, and whether its bytes are the right     *)
(* ones.  The server may answer with something else than the file.         *)
(***************************************************************************)
EXTENDS Integers

CONSTANTS
  ExpectedSize,  \* in units, the argument EXPECTED_BYTES
  MaxFaults      \* bound on kills and failures of a behavior

DriveAssumption == ExpectedSize \in Nat \ {0} /\ MaxFaults \in Nat

VARIABLES
  destination,  \* "absent", "right" or "wrong"
  partial,      \* length and rightness of the .partial file
  misled,       \* history: has the server ever sent wrong bytes?
  pc,           \* of the script
  curls,        \* curl processes that write the .partial file
  faults

vars == <<destination, partial, misled, pc, curls, faults>>

\* A .partial file that does not exist is as good as an empty one (touch).
Empty == [size |-> 0, right |-> TRUE]

PC == {"idle", "open", "curl", "verify", "publish"}

\* The server sends at most one unit more than the file has.
Sizes == 0 .. ExpectedSize + 1

TypeOK ==
  /\ destination \in {"absent", "right", "wrong"}
  /\ partial \in [size : Sizes, right : BOOLEAN]
  /\ misled \in BOOLEAN
  /\ pc \in PC
  /\ curls \in 0 .. 2
  /\ faults \in 0 .. MaxFaults

Init ==
  /\ destination = "absent"
  /\ partial = Empty
  /\ misled = FALSE
  /\ pc = "idle"
  /\ curls = 0
  /\ faults = 0

Fault == faults < MaxFaults /\ faults' = faults + 1

-----------------------------------------------------------------------------
\* The lock is free.  A destination that exists is verified, nothing else.
Start ==
  /\ pc = "idle" /\ curls = 0
  /\ pc' = IF destination = "absent" THEN "open" ELSE "idle"
  /\ UNCHANGED <<destination, partial, misled, curls, faults>>

\* A partial file that is too long is refused, one of full length is not
\* fetched again.
Open ==
  /\ pc = "open"
  /\ CASE partial.size > ExpectedSize -> pc' = "idle" /\ UNCHANGED curls
       [] partial.size = ExpectedSize -> pc' = "verify" /\ UNCHANGED curls
       [] OTHER -> pc' = "curl" /\ curls' = curls + 1
  /\ UNCHANGED <<destination, partial, misled, faults>>

\* curl appends from its offset; two of them write over each other.
Append ==
  /\ curls > 0
  /\ partial.size < ExpectedSize
  /\ partial' = [size |-> partial.size + 1, right |-> partial.right /\ curls = 1]
  /\ UNCHANGED <<destination, misled, pc, curls, faults>>

\* Bytes of something else, of any length.
AppendWrong ==
  /\ curls > 0
  /\ Fault
  /\ \E n \in Sizes : /\ n > partial.size
                      /\ partial' = [size |-> n, right |-> FALSE]
  /\ misled' = TRUE
  /\ UNCHANGED <<destination, pc, curls>>

\* curl has got all the server sends: the whole file, or wrong bytes.
CurlEnds ==
  /\ curls > 0
  /\ partial.size >= ExpectedSize \/ misled
  /\ curls' = curls - 1
  /\ pc' = IF pc = "curl" THEN "verify" ELSE pc
  /\ UNCHANGED <<destination, partial, misled, faults>>

\* curl gives up after its retries or is killed, and the script ends.
CurlFails ==
  /\ curls > 0
  /\ Fault
  /\ curls' = curls - 1
  /\ pc' = IF pc = "curl" THEN "idle" ELSE pc
  /\ UNCHANGED <<destination, partial, misled>>

Verify ==
  /\ pc = "verify"
  /\ pc' = IF partial = [size |-> ExpectedSize, right |-> TRUE] THEN "publish" ELSE "idle"
  /\ UNCHANGED <<destination, partial, misled, curls, faults>>

Publish ==
  /\ pc = "publish"
  /\ destination' = IF partial.right THEN "right" ELSE "wrong"
  /\ partial' = Empty
  /\ pc' = "idle"
  /\ UNCHANGED <<misled, curls, faults>>

\* The script is killed; its curl lives on.
Kill ==
  /\ pc # "idle"
  /\ Fault
  /\ pc' = "idle"
  /\ UNCHANGED <<destination, partial, misled, curls>>

Script == Open \/ Verify \/ Publish
Curl   == Append \/ CurlEnds

Next == Start \/ Script \/ Curl \/ AppendWrong \/ CurlFails \/ Kill

Spec == Init /\ [][Next]_vars

-----------------------------------------------------------------------------
(* Properties *)

\* Only a file with the locked digest is published, nobody is writing what is
\* being verified or has been, and resuming does no damage: as long as the
\* server sends what was asked for, the partial file is a prefix of the right
\* one, whoever was killed.
PublishedIsRight ==
  /\ destination # "wrong"
  /\ pc \in {"verify", "publish"} => curls = 0
  /\ ~misled => partial.right /\ partial.size <= ExpectedSize

-----------------------------------------------------------------------------
(* Liveness *)

\* Where the server sends the right bytes, the file is published some day.
\* (After wrong bytes it may never be: a partial file that is too long, or
\* of full length and wrong, is refused by every later attempt.)
Downloads == <>(destination = "right" \/ misled)
=============================================================================
