------------------------------- MODULE DevKey -------------------------------
(***************************************************************************)
(* The development signing key: buildctl.command_init_key and              *)
(* apksign.initialize_key, run by the development_key stage of the         *)
(* resumable runner and by hand.  A pair is made in two temporary files    *)
(* and moved into place with two renames, the key first.                   *)
(*                                                                         *)
(* A run is one process; key and certificate are named by the run that     *)
(* generated them.  It may be killed between any two steps and started     *)
(* again.  init-dev-key takes no lock.  The runner starts one at a time,   *)
(* but when its worker is killed the run lives on, without the run lock    *)
(* (_run of tools/case5ctl.py), and the next worker starts another one.    *)
(***************************************************************************)
EXTENDS Integers

CONSTANTS
    Runs,       \* the processes that run init-dev-key, each at most once
    None,       \* no such file
    MaxFaults   \* bound: kills and failures

KeyAssumption == None \notin Runs /\ MaxFaults \in Nat

VARIABLES
    key,        \* whose private key is at the key path
    certificate,\* whose certificate is at the certificate path
    pc,         \* where each run is
    sawKey,     \* key as a run's verify_key_pair read it
    report,     \* the certificate each successful run reported
    worker,     \* the run a live worker waits for
    overlapped, \* history: have two runs ever been under way at once?
    faults      \* kills and failures so far

files == <<key, certificate>>
vars == <<files, pc, sawKey, report, worker, overlapped, faults>>

Labels == {"idle", "look", "create", "generate", "replace_key", "replace_cert",
           "verify", "compare", "done", "failed", "killed"}
Ended == {"idle", "done", "failed", "killed"}

Init ==
    /\ key = None /\ certificate = None
    /\ pc = [r \in Runs |-> "idle"]
    /\ sawKey = [r \in Runs |-> None]
    /\ report = [r \in Runs |-> None]
    /\ worker = None /\ overlapped = FALSE
    /\ faults = 0

\* A run that ends returns to the worker that waits for it.
Goto(r, label) ==
    /\ pc' = [pc EXCEPT ![r] = label]
    /\ worker' = IF label \in Ended /\ worker = r THEN None ELSE worker

Alone == \A r \in Runs : pc[r] \in Ended

\* A worker executes the stage development_key.
Start(r) ==
    /\ pc[r] = "idle" /\ worker = None
    /\ pc' = [pc EXCEPT ![r] = "look"] /\ worker' = r
    /\ overlapped' = (overlapped \/ ~Alone)
    /\ UNCHANGED <<files, sawKey, report, faults>>

\* The worker is killed, the run it waits for is not.
KillWorker ==
    /\ faults < MaxFaults /\ worker # None
    /\ worker' = None /\ faults' = faults + 1
    /\ UNCHANGED <<files, pc, sawKey, report, overlapped>>

\* Plausible bug: the pair is made afresh every time.
Look_Always(r) ==
    /\ pc[r] = "look" /\ Goto(r, "generate")
    /\ UNCHANGED <<files, sawKey, report, overlapped, faults>>

\* command_init_key: either both files exist, or neither does, or it fails.
Look(r) ==
    /\ pc[r] = "look"
    /\ Goto(r, CASE key = None /\ certificate = None -> "create"
                 [] key # None /\ certificate # None -> "verify"
                 [] OTHER                            -> "failed")
    /\ UNCHANGED <<files, sawKey, report, overlapped, faults>>

\* initialize_key requires once more that neither file exists.
Create(r) ==
    /\ pc[r] = "create"
    /\ Goto(r, IF key = None /\ certificate = None THEN "generate" ELSE "failed")
    /\ UNCHANGED <<files, sawKey, report, overlapped, faults>>

\* openssl makes the pair in the temporary files, which are verified there.
Generate(r) ==
    /\ pc[r] = "generate" /\ Goto(r, "replace_key")
    /\ UNCHANGED <<files, sawKey, report, overlapped, faults>>

\* os.replace of the two finished temporaries, one after the other.
ReplaceKey(r) ==
    /\ pc[r] = "replace_key"
    /\ key' = r /\ Goto(r, "replace_cert")
    /\ UNCHANGED <<certificate, sawKey, report, overlapped, faults>>

ReplaceCertificate(r) ==
    /\ pc[r] = "replace_cert"
    /\ certificate' = r /\ Goto(r, "verify")
    /\ UNCHANGED <<key, sawKey, report, overlapped, faults>>

\* verify_key_pair reads the key, then the certificate, and compares the two.
ReadKey(r) ==
    /\ pc[r] = "verify"
    /\ sawKey' = [sawKey EXCEPT ![r] = key]
    /\ Goto(r, "compare")
    /\ UNCHANGED <<key, certificate, report, overlapped, faults>>

Compare(r) ==
    /\ pc[r] = "compare"
    /\ IF sawKey[r] = certificate
       THEN Goto(r, "done") /\ report' = [report EXCEPT ![r] = certificate]
       ELSE Goto(r, "failed") /\ UNCHANGED report
    /\ UNCHANGED <<files, sawKey, overlapped, faults>>

\* openssl, a rename or a read fails: the temporaries are unlinked, no more.
Fail(r) ==
    /\ faults < MaxFaults
    /\ pc[r] \in {"generate", "replace_key", "replace_cert", "verify", "compare"}
    /\ Goto(r, "failed") /\ faults' = faults + 1
    /\ UNCHANGED <<files, sawKey, report, overlapped>>

\* SIGKILL or a power cut between two steps.
Kill(r) ==
    /\ faults < MaxFaults /\ pc[r] \notin Ended
    /\ Goto(r, "killed") /\ faults' = faults + 1
    /\ UNCHANGED <<files, sawKey, report, overlapped>>

Next ==
    \/ KillWorker
    \/ \E r \in Runs :
        \/ Start(r) \/ Look(r) \/ Create(r) \/ Generate(r)
        \/ ReplaceKey(r) \/ ReplaceCertificate(r) \/ ReadKey(r) \/ Compare(r)
        \/ Fail(r) \/ Kill(r)

Spec == Init /\ [][Next]_vars

----------------------------------------------------------------------------

\* The variables have the types the code gives them.
TypeOK ==
    /\ key \in Runs \cup {None} /\ certificate \in Runs \cup {None}
    /\ pc \in [Runs -> Labels]
    /\ sawKey \in [Runs -> Runs \cup {None}]
    /\ report \in [Runs -> Runs \cup {None}]
    /\ worker \in Runs \cup {None} /\ overlapped \in BOOLEAN
    /\ faults \in 0..MaxFaults

\* However often a run dies half way, a private key and a certificate that are
\* both in place belong together (initialize_key's two renames, and the checks
\* of command_init_key that keep a later run away from what one left behind).
\* And a certificate that was reported - that packages are then signed and
\* evidence recorded with - stays the one in place, with its key.  So it is
\* as long as one run at a time is under way; KeyIsPersistent is about others.
PairAgrees ==
    ~overlapped =>
        /\ key # None /\ certificate # None => key = certificate
        /\ \A r \in Runs : report[r] # None => key = report[r] /\ certificate = report[r]

\* "Create or verify one persistent project development key ... a single-worker
\* flock prevents overlap": when all is quiet, a key and a certificate that are
\* there belong together, whoever was killed.
KeyIsPersistent ==
    Alone /\ key # None /\ certificate # None => key = certificate

=============================================================================
