-------------------------- MODULE FirmwareInstaller --------------------------
(***************************************************************************)
(* firmwareUpdate::install (updateFirmware.cpp) on top of                  *)
(* rauc_handler::installBundle (rauc_handler.cpp) and subprocess::Popen:   *)
(* "rauc install" and then "sync" are run, and when the first fails        *)
(* whatever slot rauc has activated is taken back.                         *)
(*                                                                         *)
(* FSUpdate takes this installation in a few steps and lets it return only *)
(* when rauc has ended.  Here its processes run, fail and die on their     *)
(* own.                                                                    *)
(***************************************************************************)
EXTENDS Subprocess

CONSTANT InstallerFaults

AllInstallerFaults == {"rauc", "sync", "flush"}

ASSUME InstallerAssumption == InstallerFaults \subseteq AllInstallerFaults

VARIABLES
  step,      \* where install is
  order,     \* BOOT_ORDER names the "old" or the "new" slot first
  written    \* the new slot holds a complete firmware

vars == <<popen, step, order, written>>

TypeOK ==
  /\ PopenTypeOK
  /\ step \in {"installBundle", "take_back", "sync", "done", "install_failed",
               "take_back_failed", "sync_failed"}
  /\ order \in {"old", "new"}
  /\ written \in BOOLEAN

Init ==
  /\ PopenInit
  /\ step = "installBundle" /\ order = "old" /\ written = FALSE

-----------------------------------------------------------------------------
(* The commands.  rauc writes the slot and makes it the primary one before *)
(* it reports success.                                                     *)

Rauc == command = "running" /\ step # "sync"

RaucWrites ==
  /\ Rauc /\ ~ written
  /\ written' = TRUE
  /\ UNCHANGED <<popen, step, order>>

RaucActivates ==
  /\ Rauc /\ written /\ order = "old"
  /\ order' = "new"
  /\ UNCHANGED <<popen, step, written>>

CommandEndsWell ==
  /\ Rauc => order = "new"
  /\ CommandSucceeds
  /\ UNCHANGED <<step, order, written>>

CommandFails ==
  /\ (IF step = "sync" THEN "sync" ELSE "rauc") \in InstallerFaults
  /\ CommandEnds("failed")
  /\ UNCHANGED <<step, order, written>>

-----------------------------------------------------------------------------
(* The library. *)

(* rauc succeeded; the next Popen runs sync.                               *)
BundleInstalled ==
  /\ step = "installBundle" /\ parent = "returned" /\ result = "successful"
  /\ step' = "sync"
  /\ parent' = "start" /\ child' = "none" /\ command' = "none" /\ left' = 0
  /\ pipe' = 0 /\ readers' = {} /\ writers' = {} /\ result' = "none"
  /\ UNCHANGED <<order, written>>

(* Not successful, or Popen threw: the catch block of installBundle.       *)
installBundleThrows ==
  /\ step = "installBundle" /\ parent = "returned" /\ result # "successful"
  /\ step' = "take_back"
  /\ UNCHANGED <<popen, order, written>>

(* Mutant: nothing is taken back when rauc itself reported the error. *)
TakeBackOnlyAfterException ==
  /\ step = "take_back"
  /\ step' = "install_failed"
  /\ order' = IF result = "unsuccessful" THEN order ELSE "old"
  /\ UNCHANGED <<popen, written>>

TakeBack ==
  /\ step = "take_back"
  /\ step' = "install_failed" /\ order' = "old"
  /\ UNCHANGED <<popen, written>>

TakeBackFails ==
  /\ step = "take_back" /\ order = "new" /\ "flush" \in InstallerFaults
  /\ step' = "take_back_failed"
  /\ UNCHANGED <<popen, order, written>>

(* Mutant: the outcome of sync is not looked at. *)
SyncIgnored ==
  /\ step = "sync" /\ parent = "returned"
  /\ step' = "done"
  /\ UNCHANGED <<popen, order, written>>

Synced ==
  /\ step = "sync" /\ parent = "returned"
  /\ step' = IF result = "successful" THEN "done" ELSE "sync_failed"
  /\ UNCHANGED <<popen, order, written>>

-----------------------------------------------------------------------------
Process(A) == A /\ UNCHANGED <<step, order, written>>

Library ==
  \/ Process(ParentStep)
  \/ BundleInstalled \/ installBundleThrows
  \/ TakeBack
  \/ Synced

Command ==
  \/ RaucWrites \/ RaucActivates
  \/ CommandEndsWell
  \/ Process(CommandWrites) \/ Process(CommandBreaksPipe)

Ended == step \notin {"installBundle", "take_back", "sync"} /\ UNCHANGED vars

Next ==
  \/ Library
  \/ Process(ChildStep)
  \/ Command
  \/ Process(SystemFault)
  \/ CommandFails
  \/ TakeBackFails
  \/ Ended

(* The processes are scheduled and a command ends; faults need not happen. *)
Spec ==
  /\ Init /\ [][Next]_vars
  /\ WF_vars(Library)
  /\ WF_vars(Process(ChildStep))
  /\ WF_vars(Command)

-----------------------------------------------------------------------------
(* install returns only after rauc has written and activated the slot and  *)
(* sync has succeeded.                                                     *)
DoneMeansInstalled ==
  /\ step \in {"sync", "done", "sync_failed"} => written /\ order = "new"
  /\ step = "done" => result = "successful" /\ command = "ok"

(* A failed installation stays taken back: once installBundle has thrown,  *)
(* no late step of rauc switches the boot order, however its processes     *)
(* ended.                                                                  *)
FailureTakenBack == step = "install_failed" => order = "old"

(* install returns or throws: no process waits for another for ever, with  *)
(* the pipe full, unread or broken.                                        *)
InstallReturns == <>(step \notin {"installBundle", "take_back", "sync"})
=============================================================================
