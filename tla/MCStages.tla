------------------------------- MODULE MCStages -------------------------------
(***************************************************************************)
(* Small instances of the programs of Stages.                              *)
(*                                                                         *)
(* The build has one path of every kind config/pipeline.toml distinguishes:*)
(*   init      a file of the system-as-root base outside /system           *)
(*   jar       an ordinary file of the donor's /system                     *)
(*   matrix    the VINTF matrix, with a locked digest: base, protected     *)
(*   policy    plat_mac_permissions.xml: base, donor, protected, patched   *)
(*   grants    the generated privileged permissions: patched, from nowhere *)
(*   phone     an APK with a retained shared UID, platform-signed          *)
(*   settings  a replaced package; the selected one has the same directory *)
(*   oat       preopt files in the selected directory                      *)
(*   overlay   a file of the base below the selected directory             *)
(*   launcher  the locked duplicate                                        *)
(*   app       a standalone APK                                            *)
(***************************************************************************)
EXTENDS Stages

CONSTANTS
  base_system, base_vendor, donor_system, donor_product, donor_system_ext,
  init, jar, matrix, policy, grants, phone, settings, oat, overlay, launcher, app

MCBaseImages  == <<base_system, base_vendor>>
MCDonorImages == <<donor_system, donor_product, donor_system_ext>>
MCRoots       == <<base_system, donor_system>>
MCEntrySize   == <<1, 2>>
MCMargin      == 1

MCPath      == {init, jar, matrix, policy, grants, phone, settings, oat, overlay, launcher, app}
MCSystem    == MCPath \ {init}
MCBase      == {init, matrix, policy, phone, overlay}
MCDonor     == {jar, matrix, policy, phone, settings, launcher, app}
MCProtected == {matrix, policy, grants, overlay}
MCRetained  == {phone}
MCReplaced  == {settings}
MCChosen    == {settings, oat, overlay}
MCSelected  == {settings, oat}
MCDuplicate == {launcher}
MCPreopt    == {oat}
MCPatched   == {policy, grants}
MCApk       == {phone, settings, launcher, app}
MCPlatform  == {phone, settings}
MCLockedFrom == [f \in {matrix} |-> "base"]
==============================================================================
