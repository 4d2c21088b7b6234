------------------------- MODULE FSUpdateProperties -------------------------
(***************************************************************************)
(* What the update life cycle promises.  Each property says under which    *)
(* calls, faults and habits of FSUpdate it is meant; the runs check it     *)
(* there, and FSUpdateProofs proves some of it for all of them.            *)
(***************************************************************************)
EXTENDS FSUpdate

(* States in which BOOT_ORDER may differ from BOOT_ORDER_OLD: a firmware   *)
(* update or a firmware rollback waits for its reboot or its confirmation. *)
FirmwareInFlux ==
  { "INCOMPLETE_FW_UPDATE", "INCOMPLETE_APP_FW_UPDATE",
    "ROLLBACK_FW_REBOOT_PENDING", "ROLLBACK_APP_FW_REBOOT_PENDING",
    "INCOMPLETE_FW_ROLLBACK", "INCOMPLETE_APP_FW_ROLLBACK" }

(* The two copies of the boot order agree unless a firmware update or      *)
(* rollback is under way, also between the transactions of a call: a slot  *)
(* switch that the update state does not account for would be taken by the *)
(* next call for its own.                                                  *)
OrdersAgree == env.order # env.orderOld => env.urs \in FirmwareInFlux

(* What is being installed is recorded, and a firmware installation that   *)
(* failed has taken its slot switch back before its handler runs.          *)
WorkRecorded ==
  /\ (stage \in {"rauc", "writing", "activated"} =>
        env.urs = "INCOMPLETE_FW_UPDATE" /\ job \in {"fw", "both"})
  /\ (stage = "fw_failed" => env.order = env.orderOld)
  /\ (stage \in {"app", "app_failed", "app_unflushed"} =>
        \/ job = "app" /\ env.urs = "INCOMPLETE_APP_UPDATE"
        \/ job = "both" /\ env.urs \in {"INCOMPLETE_FW_UPDATE",
                                        "INCOMPLETE_APP_FW_UPDATE"})

(* No slot in which rauc has not written the firmware to its end is        *)
(* recorded as committed: rollback_firmware never switches to it.          *)
PartialUntrusted ==
  \A s \in Slots : image[s] = "partial" => env.fw[s] # STATE_UPDATE_COMMITED

(* The environment accounts for every installation, so that a power        *)
(* failure in it is recognised afterwards: the firmware update is recorded *)
(* before rauc starts and the application update before the image is       *)
(* copied, a failed firmware installation has taken its slot switch back,  *)
(* and a slot that was cut short stays marked, whatever is called and      *)
(* fails later, until an installation writes it again.                     *)
InstallationAccounted == WorkRecorded /\ PartialUntrusted

(* Once the update state is idle again, no slot is left uncommitted: every *)
(* confirmation leaves each slot it decides about committed or bad.        *)
IdleClean ==
  noUpdateProcessing =>
    \A s \in Slots : ~ Uncommitted(env.fw[s]) /\ ~ Uncommitted(env.app[s])

(* Idle, the board runs the first slot of BOOT_ORDER, and that slot has    *)
(* booted before: neither a confirmation nor the handler of a failed       *)
(* installation leaves the order at a slot that was never tried.           *)
IdleBoots ==
  noUpdateProcessing =>
    /\ image[env.order] = "ran"
    /\ up => booted = env.order

(* The slot U-Boot falls back to always holds a firmware that has run; no  *)
(* installation ever writes it.                                            *)
FallbackRuns == image[env.orderOld] = "ran"

(* A failed installation keeps the running system: the next boot selects   *)
(* the firmware that runs, and "application" does not name the slot the    *)
(* installation was writing.                                               *)
FailedInstallKeepsSystem ==
  up /\ env.urs \in {"FAILED_FW_UPDATE", "FAILED_APP_UPDATE"} =>
    /\ Selected = booted
    /\ ~ Uncommitted(AppCur)

(* A client that keeps to the documented order of calls never sees         *)
(* commit_update throw, whatever installation or boot fails on the way.    *)
CommitNeverThrows == last # [call |-> "commit_update", res |-> "throw"]

(* is_reboot_complete does not report the reboot of an update that is      *)
(* installed and still waits for it.                                       *)
RebootReportedTruthfully ==
  up /\ stage = "idle" /\ phase = "changed" /\ last.res = "ok" =>
    /\ last.call \in {"update_firmware", "update_firmware_and_application"}
         => ~ firmware_reboot
    /\ last.call = "update_application" => ~ application_reboot

-----------------------------------------------------------------------------
(* Action properties. *)

(* rollback_firmware of an uncommitted update makes the next boot select   *)
(* the slot the update started from, whichever slot the board runs now.    *)
RollbackReturns ==
  [][RollbackUncommittedFirmware => Selected' = env.orderOld]_vars

(* rollback_firmware without an update switches to the other slot, and     *)
(* only to a firmware that has booted before.                              *)
SwitchReachesRunnable ==
  [][SwitchFirmware => /\ Selected' = Other(booted)
                       /\ image[Other(booted)] = "ran"]_vars

(* commit_update turns a slot from uncommitted to committed only while     *)
(* that very firmware is booted or that very application is mounted.       *)
CommitConfirmsRunning ==
  [][last'.call = "commit_update" =>
       \A s \in Slots :
         /\ Uncommitted(env.fw[s]) /\ env'.fw[s] = STATE_UPDATE_COMMITED
              => booted = s
         /\ Uncommitted(env.app[s]) /\ env'.app[s] = STATE_UPDATE_COMMITED
              => mounted = s]_vars

(* A bad slot stays bad until an installation writes it again; no          *)
(* confirmation and no rollback brings it back.                            *)
BadStaysBad ==
  [][\A s \in Slots :
       /\ Bad(env.fw[s]) => Bad(env'.fw[s]) \/ Uncommitted(env'.fw[s])
       /\ Bad(env.app[s]) => Bad(env'.app[s]) \/ Uncommitted(env'.app[s])]_vars

(* A combined update is confirmed or taken back as a whole: when           *)
(* commit_update has decided about it, "application" names the new         *)
(* application exactly if the new firmware is the one that runs.           *)
CombinedMovesTogether ==
  [][commit_update /\ last'.res = "true" /\ env.urs = "INCOMPLETE_APP_FW_UPDATE"
       => (Uncommitted(env.fw[booted]) <=> Uncommitted(env.app[env'.application]))]_vars

-----------------------------------------------------------------------------
(* Liveness. *)

(* Every update and every rollback is decided: the board comes up again    *)
(* and its update state returns to idle.                                   *)
UpdateSettles == ~ noUpdateProcessing ~> (up /\ noUpdateProcessing)
=============================================================================
