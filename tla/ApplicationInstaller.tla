------------------------ MODULE ApplicationInstaller ------------------------
(***************************************************************************)
(* applicationUpdate::install (updateApplication.cpp) with                 *)
(* applicationImage::copyImage (applicationImage.cpp): an application      *)
(* bundle is verified, copied to a temporary file, renamed over the slot   *)
(* that "application" does not name, and then "application" is switched.   *)
(*                                                                         *)
(* The file system keeps two versions of every slot, what the running      *)
(* system reads and what is stored; data that was written and not synced   *)
(* is cut short when power fails.                                          *)
(***************************************************************************)
EXTENDS UpdateFiles, UpdateEnv

CONSTANTS
  Bundles,      \* contents that verify_application_bundle accepts
  InstallFaults \* what goes wrong: "copy", "rename", "dirsync", "flush"

ASSUME BundlesAssumption ==
  /\ Bundles \subseteq Contents /\ Bundles # {}
  /\ InstallFaults \subseteq {"copy", "rename", "dirsync", "flush"}

Names == Slots \cup {"tmp"}

VARIABLES
  files,        \* app_a.squashfs, app_b.squashfs and the temporary file
  disk,         \* the version of each slot that is stored
  unsynced,     \* names whose data is not stored yet
  application,  \* the slot the environment names
  app,          \* how far the installation of each instance has come
  current,      \* current_app, as install read it
  staged        \* "application" as an instance staged it, or "none"

appVars == <<files, disk, unsynced, application, app, current, staged>>

AppStages == { "none", "started", "verified", "opened", "written", "synced",
               "renamed", "stored", "installed", "failed" }

AppTypeOK ==
  /\ files \in [Names -> File]
  /\ disk \in [Slots -> File]
  /\ unsynced \subseteq Names
  /\ application \in Slots
  /\ app \in [Procs -> AppStages]
  /\ current \in [Procs -> Slots]
  /\ staged \in [Procs -> Slots \cup {"none"}]

(* Both slots hold an application when the board leaves production.        *)
AppInit ==
  /\ disk \in [Slots -> Bundles]
  /\ files = [n \in Names |-> IF n \in Slots THEN disk[n] ELSE "absent"]
  /\ unsynced = {}
  /\ application = "A"
  /\ app = [p \in Procs |-> "none"]
  /\ current = [p \in Procs |-> "A"]
  /\ staged = [p \in Procs |-> "none"]

-----------------------------------------------------------------------------
Reaches(p, stage) == app' = [app EXCEPT ![p] = stage]

(* The slot is chosen and the bundle opened and verified; c is the file at *)
(* the path of the bundle.                                                 *)
verify_application_bundle(p, c) ==
  /\ app[p] = "started"
  /\ current' = [current EXCEPT ![p] = application]
  /\ Reaches(p, IF c \in Bundles THEN "verified" ELSE "failed")
  /\ UNCHANGED <<files, disk, unsynced, application, staged>>

(* perform_installation opens the bundle again, and a new temporary file.  *)
OpenTemporary(p, c) ==
  /\ app[p] = "verified"
  /\ c \in Contents
  /\ Reaches(p, "opened")
  /\ files' = [files EXCEPT !["tmp"] = "partial"]
  /\ unsynced' = unsynced \cup {"tmp"}
  /\ UNCHANGED <<disk, application, current, staged>>

WriteTemporary(p, c) ==
  /\ app[p] = "opened" /\ c \in Contents
  /\ Reaches(p, "written")
  /\ files' = [files EXCEPT !["tmp"] = c]
  /\ UNCHANGED <<disk, unsynced, application, current, staged>>

(* Mutant: the copy is closed without fsync. *)
CloseTemporary(p) ==
  /\ app[p] = "written"
  /\ Reaches(p, "synced")
  /\ UNCHANGED <<files, disk, unsynced, application, current, staged>>

SyncTemporary(p) ==
  /\ app[p] = "written"
  /\ Reaches(p, "synced")
  /\ unsynced' = unsynced \ {"tmp"}
  /\ UNCHANGED <<files, disk, application, current, staged>>

(* copyImage removes what it has written.  Its source may also have been   *)
(* removed or cut short since it was verified.                             *)
CopyFails(p, c) ==
  /\ app[p] \in {"verified", "opened", "written"}
  /\ "copy" \in InstallFaults \/ (app[p] # "written" /\ c \notin Contents)
  /\ Reaches(p, "failed")
  /\ files' = [files EXCEPT !["tmp"] = "absent"]
  /\ unsynced' = unsynced \ {"tmp"}
  /\ UNCHANGED <<disk, application, current, staged>>

(* The target is chosen from "application" once more.                      *)
Rename(p) ==
  /\ app[p] = "synced" /\ files["tmp"] # "absent"
  /\ Reaches(p, "renamed")
  /\ files' = [files EXCEPT ![Other(application)] = files["tmp"], !["tmp"] = "absent"]
  /\ unsynced' = (unsynced \ {"tmp", Other(application)})
                   \cup (IF "tmp" \in unsynced THEN {Other(application)} ELSE {})
  /\ UNCHANGED <<disk, application, current, staged>>

RenameFails(p) ==
  /\ app[p] = "synced"
  /\ "rename" \in InstallFaults \/ files["tmp"] = "absent"
  /\ Reaches(p, "failed")
  /\ UNCHANGED <<files, disk, unsynced, application, current, staged>>

(* What a power failure makes of unsynced data. *)
Settled(s) == IF s \in unsynced THEN "partial" ELSE files[s]

(* Mutant: the rename is left to the file system. *)
SkipDirectory(p) ==
  /\ app[p] = "renamed"
  /\ Reaches(p, "stored")
  /\ UNCHANGED <<files, disk, unsynced, application, current, staged>>

(* The fsync of the directory is not checked.                              *)
SyncDirectory(p) ==
  /\ app[p] = "renamed"
  /\ Reaches(p, "stored")
  /\ disk' \in {[s \in Slots |-> Settled(s)]}
                 \cup (IF "dirsync" \in InstallFaults THEN {disk} ELSE {})
  /\ UNCHANGED <<files, unsynced, application, current, staged>>

(* update_boot_variable and the flush, which is outside of a transaction:  *)
(* what was staged stays staged when it fails.                             *)
update_boot_variable(p) ==
  /\ app[p] = "stored"
  /\ Reaches(p, "installed")
  /\ application' = Other(current[p])
  /\ staged' = [staged EXCEPT ![p] = "none"]
  /\ UNCHANGED <<files, disk, unsynced, current>>

SwitchNotFlushed(p) ==
  /\ app[p] = "stored" /\ "flush" \in InstallFaults
  /\ Reaches(p, "failed")
  /\ staged' = [staged EXCEPT ![p] = Other(current[p])]
  /\ UNCHANGED <<files, disk, unsynced, application, current>>

InstallStep(p, c) ==
  \/ verify_application_bundle(p, c)
  \/ OpenTemporary(p, c) \/ WriteTemporary(p, c) \/ SyncTemporary(p)
  \/ CopyFails(p, c)
  \/ Rename(p) \/ RenameFails(p)
  \/ SyncDirectory(p)
  \/ update_boot_variable(p) \/ SwitchNotFlushed(p)

-----------------------------------------------------------------------------
(* Mutant: an empty buffer is stored as well. *)
StagedOnly(p) == staged[p]

(* What is staged goes with the next flush of the instance. *)
AlsoStaged(p) == IF staged[p] = "none" THEN application ELSE staged[p]

(* Every slot comes back in its stored or in its last version; the         *)
(* temporary file is lost or cut short.                                    *)
PowerLoss ==
  /\ \E last \in SUBSET Slots :
       disk' = [s \in Slots |-> IF s \in last THEN Settled(s) ELSE disk[s]]
  /\ \E t \in {"absent", "partial"} :
       files' = [n \in Names |-> IF n \in Slots THEN disk'[n] ELSE t]
  /\ unsynced' = {}
=============================================================================
