----------------------------- MODULE MCCheckpoint -----------------------------
(***************************************************************************)
(* An instance of Checkpoint: two images with a snapshot, one made of each *)
(* source, and the one without.                                            *)
(***************************************************************************)
EXTENDS Checkpoint

CONSTANTS system, donor_system, vendor

MCSnapped == <<system, donor_system>>
MCRoleOf  == [i \in {system, donor_system, vendor} |->
                IF i = donor_system THEN "donor" ELSE "base"]
==============================================================================
