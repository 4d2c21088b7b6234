----------------------------- MODULE Bootstate -----------------------------
(***************************************************************************)
(* updater::Bootstate (handleUpdate.cpp): the questions the library asks   *)
(* of the U-Boot environment, the slot that is booted and the application  *)
(* that is mounted, and the environment each confirmation and rollback     *)
(* handler leaves behind.  The handlers only stage variables; FSUpdate     *)
(* flushes them, so a handler is an operator that returns the new          *)
(* environment and its guard an operator of its own.                       *)
(***************************************************************************)
EXTENDS UpdateEnv

VARIABLES
  env,       \* the U-Boot environment in flash
  booted,    \* rauc_cmd: the firmware slot the board runs from
  mounted    \* the application image behind /dev/loop0

FwCur  == env.fw[booted]
FwNext == env.fw[Other(booted)]
AppCur  == env.app[env.application]
AppNext == env.app[Other(env.application)]

-----------------------------------------------------------------------------
(* Where the boot loader went, from BOOT_ORDER, BOOT_ORDER_OLD, the boot   *)
(* counters and the booted slot.                                           *)

firmware_update_reboot_failed ==
  /\ booted = env.orderOld
  /\ \E s \in Slots : env.left[s] = 0
  /\ env.orderOld # env.order

firmware_update_reboot_successful ==
  /\ booted = env.order
  /\ env.orderOld # env.order

(* Mutant: the booted slot is compared the wrong way round. *)
MissingRebootInverted ==
  /\ booted = env.order
  /\ env.orderOld # env.order

missing_firmware_update_reboot ==
  /\ booted # env.order
  /\ \A s \in Slots : env.left[s] = 3
  /\ env.orderOld # env.order

application_reboot == mounted = env.application

(* is_reboot_complete(true) *)
firmware_reboot ==
  IF env.urs \in {"ROLLBACK_FW_REBOOT_PENDING", "ROLLBACK_APP_FW_REBOOT_PENDING"}
  THEN booted = env.order
  ELSE ~ missing_firmware_update_reboot

-----------------------------------------------------------------------------
(* Which update or rollback is under way. *)

noUpdateProcessing == env.urs = "NO_UPDATE_REBOOT_PENDING"

pendingApplicationUpdate ==
  /\ ~ Uncommitted(FwCur) /\ Uncommitted(AppCur)
  /\ env.urs = "INCOMPLETE_APP_UPDATE"

pendingFirmwareUpdate ==
  /\ \/ Uncommitted(FwCur) /\ ~ Uncommitted(AppCur)
     \/ Uncommitted(FwNext) /\ ~ Uncommitted(AppNext)
  /\ env.urs = "INCOMPLETE_FW_UPDATE"

pendingApplicationFirmwareUpdate ==
  /\ \/ Uncommitted(FwCur) /\ Uncommitted(AppCur)
     \/ Uncommitted(FwNext) /\ (Uncommitted(AppCur) \/ Uncommitted(AppNext))
  /\ env.urs = "INCOMPLETE_APP_FW_UPDATE"

failedFirmwareUpdate ==
  /\ Uncommitted(FwNext) /\ ~ Uncommitted(AppNext)
  /\ env.urs = "FAILED_FW_UPDATE"

failedRebootFirmwareUpdate ==
  /\ Uncommitted(FwCur) /\ ~ Uncommitted(AppCur)
  /\ env.urs = "FW_UPDATE_REBOOT_FAILED"

(* Mutant: the state of the wrong application slot is read. *)
FailedApplicationReadsCurrent ==
  /\ ~ Uncommitted(FwNext) /\ Uncommitted(AppCur)
  /\ env.urs = "FAILED_APP_UPDATE"

failedApplicationUpdate ==
  /\ ~ Uncommitted(FwNext) /\ Uncommitted(AppNext)
  /\ env.urs = "FAILED_APP_UPDATE"

pendingFirmwareRollback ==
  ~ firmware_update_reboot_successful /\ firmware_update_reboot_failed

(* Mutant: an announced application rollback is forgotten. *)
PendingRollbackForgetsApplication ==
  env.urs \in {"INCOMPLETE_FW_ROLLBACK", "INCOMPLETE_APP_FW_ROLLBACK"}

pendingUpdateRollback ==
  \/ env.urs \in {"INCOMPLETE_FW_ROLLBACK", "INCOMPLETE_APP_ROLLBACK",
                  "INCOMPLETE_APP_FW_ROLLBACK"}
  \/ /\ env.urs = "ROLLBACK_APP_FW_REBOOT_PENDING"
     /\ (Uncommitted(FwCur) /\ Uncommitted(AppCur)) \/ pendingFirmwareRollback
  \/ /\ env.urs = "ROLLBACK_FW_REBOOT_PENDING"
     /\ (Uncommitted(FwCur) /\ ~ Uncommitted(AppCur)) \/ pendingFirmwareRollback
  \/ /\ env.urs = "ROLLBACK_APP_REBOOT_PENDING"
     /\ (~ Uncommitted(FwCur) /\ Uncommitted(AppCur)) \/ application_reboot

-----------------------------------------------------------------------------
(* What the confirmations leave in the environment. *)

Idle(e) == [e EXCEPT !.urs = "NO_UPDATE_REBOOT_PENDING"]

(* Mutant: only the counters are restored. *)
RestoreCountersOnly(e) == [e EXCEPT !.left = FullCounters]

(* BOOT_ORDER := BOOT_ORDER_OLD, both counters restored. *)
BackToOldOrder(e) == [e EXCEPT !.order = e.orderOld, !.left = FullCounters]

(* Mutant: BOOT_ORDER_OLD is left behind. *)
KeepStaleOldOrder(e) == [e EXCEPT !.left = FullCounters]

(* BOOT_ORDER_OLD := BOOT_ORDER, both counters restored. *)
KeepNewOrder(e) == [e EXCEPT !.orderOld = e.order, !.left = FullCounters]

(* Mutant: the slot of the failed installation is not marked. *)
ConfirmFailureUnmarked == Idle(env)

confirmFailedFirmwareUpdate ==
  Idle([env EXCEPT !.fw[Other(booted)] = STATE_UPDATE_BAD])

confirmFailedRebootFirmwareUpdate ==
  Idle([env EXCEPT !.fw[booted] = STATE_UPDATE_BAD])

confirmFailedApplicationeUpdate ==
  Idle([env EXCEPT !.app[Other(env.application)] = STATE_UPDATE_BAD])

(* Mutant: the fallback to the old slot is no reason to confirm. *)
ConfirmableOnlyInNewSlot ==
  ~ missing_firmware_update_reboot /\ firmware_update_reboot_successful

(* A pending firmware update can be confirmed when the boot loader fell    *)
(* back or when the new slot runs; otherwise the confirmation throws.      *)
FirmwareConfirmable ==
  \/ firmware_update_reboot_failed
  \/ /\ ~ missing_firmware_update_reboot
     /\ firmware_update_reboot_successful

(* Mutant: the fallback goes unnoticed. *)
ConfirmFirmwareAfterFallback ==
  Idle(KeepNewOrder([env EXCEPT !.fw[booted] = STATE_UPDATE_COMMITED]))

confirmPendingFirmwareUpdate ==
  IF firmware_update_reboot_failed
  THEN Idle(BackToOldOrder([env EXCEPT !.fw[Other(booted)] = STATE_UPDATE_BAD]))
  ELSE Idle(KeepNewOrder([env EXCEPT !.fw[booted] = STATE_UPDATE_COMMITED]))

(* Mutant: confirming an application resets the whole vector. *)
ConfirmApplicationResetsAll ==
  Idle([env EXCEPT !.app[env.application] = STATE_UPDATE_COMMITED,
                   !.fw = [s \in Slots |-> STATE_UPDATE_COMMITED]])

confirmPendingApplicationUpdate ==
  Idle([env EXCEPT !.app[env.application] = STATE_UPDATE_COMMITED])

(* Mutant: after a fallback the new application stays with the old firmware. *)
ConfirmFallbackKeepsApplication ==
  IF firmware_update_reboot_failed
  THEN Idle(BackToOldOrder(
         [env EXCEPT !.app[env.application] = STATE_UPDATE_COMMITED,
                     !.fw[Other(booted)] = STATE_UPDATE_BAD]))
  ELSE Idle(KeepNewOrder(
         [env EXCEPT !.fw[booted] = STATE_UPDATE_COMMITED,
                     !.app[env.application] = STATE_UPDATE_COMMITED]))

(* Mutant: after a fallback the firmware that did not boot is committed. *)
ConfirmFallbackCommits ==
  IF firmware_update_reboot_failed
  THEN Idle(BackToOldOrder(
         [env EXCEPT !.app[env.application] = STATE_UPDATE_COMMITED,
                     !.fw[Other(booted)] = STATE_UPDATE_COMMITED,
                     !.application = Other(env.application)]))
  ELSE Idle(KeepNewOrder(
         [env EXCEPT !.fw[booted] = STATE_UPDATE_COMMITED,
                     !.app[env.application] = STATE_UPDATE_COMMITED]))

confirmPendingApplicationFirmwareUpdate ==
  IF firmware_update_reboot_failed
  THEN Idle(BackToOldOrder(
         [env EXCEPT !.app[env.application] = STATE_UPDATE_COMMITED,
                     !.fw[Other(booted)] = STATE_UPDATE_BAD,
                     !.application = Other(env.application)]))
  ELSE Idle(KeepNewOrder(
         [env EXCEPT !.fw[booted] = STATE_UPDATE_COMMITED,
                     !.app[env.application] = STATE_UPDATE_COMMITED]))

(* Mutant: the new order is kept after every rollback. *)
RolledBackKeepsNewOrder(e) ==
  KeepNewOrder(IF FwNext = STATE_UPDATE_COMMITED THEN e
               ELSE [e EXCEPT !.fw[Other(booted)] = STATE_UPDATE_BAD])

(* The slot that was rolled away from: committed after a switch, in which  *)
(* case the new order is kept, or uncommitted after a rollback of a fresh  *)
(* update, in which case it becomes bad and the old order returns.         *)
FirmwareRolledBack(e) ==
  IF FwNext = STATE_UPDATE_COMMITED
  THEN KeepNewOrder(e)
  ELSE BackToOldOrder([e EXCEPT !.fw[Other(booted)] = STATE_UPDATE_BAD])

(* Mutant: the application rolled away from is not marked. *)
RolledBackUnmarked(e) == e

ApplicationRolledBack(e) ==
  IF AppNext = STATE_UPDATE_UNCOMMITED
  THEN [e EXCEPT !.app[Other(env.application)] = STATE_UPDATE_BAD]
  ELSE e

confirmUpdateRollback ==
  Idle(CASE env.urs \in {"INCOMPLETE_APP_FW_ROLLBACK", "ROLLBACK_APP_FW_REBOOT_PENDING"}
              -> ApplicationRolledBack(FirmwareRolledBack(env))
         [] env.urs \in {"INCOMPLETE_FW_ROLLBACK", "ROLLBACK_FW_REBOOT_PENDING"}
              -> FirmwareRolledBack(env)
         [] OTHER -> ApplicationRolledBack(env))

-----------------------------------------------------------------------------
(* What the rollbacks of an uncommitted update stage. *)

(* Mutant: the counter of the wrong slot is emptied. *)
RollbackEmptiesOtherCounter ==
  IF missing_firmware_update_reboot
  THEN Idle(BackToOldOrder([env EXCEPT !.fw[booted] = STATE_UPDATE_COMMITED]))
  ELSE IF firmware_update_reboot_successful
  THEN [env EXCEPT !.left[Other(booted)] = 0, !.urs = "ROLLBACK_FW_REBOOT_PENDING"]
  ELSE env

(* Before the reboot the boot order is put back; from the new slot its     *)
(* counter is emptied so that the next boot falls back; after a fallback   *)
(* there is nothing to do, and nothing is staged in any other situation.   *)
firmware_rollback ==
  IF missing_firmware_update_reboot
  THEN Idle(BackToOldOrder([env EXCEPT !.fw[booted] = STATE_UPDATE_COMMITED]))
  ELSE IF firmware_update_reboot_successful
  THEN [env EXCEPT !.left[booted] = 0, !.urs = "ROLLBACK_FW_REBOOT_PENDING"]
  ELSE env

(* applicationUpdate::rollback *)
SwitchApplication(e) == [e EXCEPT !.application = Other(env.application)]

applicaton_rollback ==
  IF application_reboot
  THEN [SwitchApplication(env) EXCEPT !.urs = "ROLLBACK_APP_REBOOT_PENDING"]
  ELSE Idle([SwitchApplication(env) EXCEPT
               !.app[env.application] = STATE_UPDATE_COMMITED])
=============================================================================
