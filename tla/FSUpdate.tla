------------------------------ MODULE FSUpdate ------------------------------
(***************************************************************************)
(* The update life cycle of fs-updater-lib: the public calls of            *)
(* fs::FSUpdate (fsupdate.cpp) with the installers they drive              *)
(* (updateFirmware.cpp, rauc_handler.cpp, updateApplication.cpp), and, as  *)
(* the library uses them, RAUC, the U-Boot slot selector and the service   *)
(* that mounts the application.                                            *)
(*                                                                         *)
(* Every EnvTransaction is one atomic step: it holds the inter-process     *)
(* lock of the environment and libubootenv stores the staged variables in  *)
(* one write of its redundant copies.  A flush that fails inside a         *)
(* transaction changes nothing, closing the transaction drops what was     *)
(* staged; it is an action only where the call goes on after it.  Outside  *)
(* of one, what a failed flush has staged stays with the object and goes   *)
(* out with the next flush.  What happens between two transactions of one  *)
(* call, the installation itself, is a step of its own, and power may fail *)
(* there.                                                                  *)
(***************************************************************************)
EXTENDS Bootstate

CONSTANTS
  Calls,    \* the public calls the client of the library makes
  Faults,   \* what may go wrong around the library
  Habits    \* liberties the client takes with the documented order of calls

AllCalls ==
  { "update_firmware", "update_application", "update_firmware_and_application",
    "commit_update", "rollback_firmware", "rollback_application",
    "set_update_state_bad", "update_reboot_state" }

UpdateCalls ==
  {"update_firmware", "update_application", "update_firmware_and_application"}

AllFaults ==
  { "install",   \* rauc or the application installer reports an error
    "pipe",      \* the pipe to rauc breaks after the slot was activated
    "sync",      \* "sync" fails after a successful rauc install
    "flush",     \* storing the environment fails in an installation
    "take_back", \* it fails where installBundle takes BOOT_ORDER back
    "record",    \* it fails where a handler records a failed installation
    "image",     \* a completely written firmware image does not boot
    "fallback_flag",   \* the boot loader records a fallback in update_reboot_state
    "power" }    \* power fails, at any time

AllHabits ==
  { "early_commit",     \* commit_update before the reboot
    "early_rollback",   \* roll back before the reboot of an update or rollback
    "cross_rollback",   \* roll back the component that is not being updated
    "unannounced_rollback",   \* reboot for a rollback without update_reboot_state
    "single_commit",    \* one commit_update after a boot, not until it says FALSE
    "skip_commit" }     \* update or reboot without commit_update after a boot

ASSUME ClientAssumption ==
  /\ Calls \subseteq AllCalls
  /\ Faults \subseteq AllFaults
  /\ Habits \subseteq AllHabits

VARIABLES
  up,       \* the board runs Linux; otherwise it is in the boot loader
  job,      \* the update_* call in progress, or "none"
  stage,    \* how far its installation has come
  image,    \* what each firmware slot holds
  phase,    \* where the client is in the documented order of calls
  last,     \* the last public call that returned, and how
  staged    \* the handler whose variables the object still has staged

vars == <<env, booted, mounted, up, job, stage, image, phase, last, staged>>

Stages == { "idle", "rauc", "writing", "activated", "fw_failed",
            "app", "app_failed", "app_unflushed" }

(* "ran" has booted, "new" is complete and will boot, "broken" is complete *)
(* and does not, "partial" is what rauc has written so far.                *)
Images == {"ran", "new", "broken", "partial"}

(* "fresh" since a boot, "settled" by a commit_update, "changed" by an     *)
(* update or a rollback that waits for its reboot                          *)
Phases == {"fresh", "settled", "changed"}

Results == {"ok", "true", "false", "throw"}

(* "nothing", or the stage whose handler could not flush what it staged. *)
Unflushed == {"nothing", "fw_failed", "app_failed", "app_unflushed"}

TypeOK ==
  /\ env \in EnvType
  /\ booted \in Slots
  /\ mounted \in Slots
  /\ up \in BOOLEAN
  /\ job \in {"none", "fw", "app", "both"}
  /\ stage \in Stages
  /\ image \in [Slots -> Images]
  /\ phase \in Phases
  /\ last \in [call : AllCalls, res : Results]
  /\ staged \in Unflushed

Init ==
  /\ env = FactoryEnv
  /\ booted = "A" /\ mounted = "A" /\ up = TRUE
  /\ job = "none" /\ stage = "idle"
  /\ image = [s \in Slots |-> "ran"]
  /\ phase = "settled"
  /\ last = [call |-> "commit_update", res |-> "false"]
  /\ staged = "nothing"

-----------------------------------------------------------------------------
(* Helpers. *)

Return(c, r) == last' = [call |-> c, res |-> r]

(* The client makes call c; FSUpdate is single-threaded. *)
CallsNow(c) == up /\ stage = "idle" /\ c \in Calls

(* Every call but update_reboot_state reads "update" first. *)
CanRead(c) == CallsNow(c) /\ validate_update_bits(env)

(* The call threw: nothing was flushed. *)
Throw(c) ==
  /\ Return(c, "throw")
  /\ UNCHANGED <<env, booted, mounted, up, job, stage, image>>

Board == <<booted, mounted, up, image>>

(* A flush also stores what a failed handler has left staged, unless the   *)
(* call has staged the same variable anew: then its value is another than  *)
(* the stored one.                                                         *)
StagedFlag ==
  IF staged = "fw_failed" THEN "FAILED_FW_UPDATE" ELSE "FAILED_APP_UPDATE"

Flushed(e) ==
  IF staged = "nothing" THEN e
  ELSE [e EXCEPT !.urs = IF @ = env.urs THEN StagedFlag ELSE @,
                 !.application = IF staged = "app_unflushed"
                                 THEN Other(env.application) ELSE @]

(* Closing a transaction drops what is staged. *)
Closed == staged' = "nothing"

(* Reading "update" throws.  The combined update reads it inside its try   *)
(* block and goes on in the handler of a failed firmware installation.     *)
ReadRejected(c) ==
  /\ CallsNow(c) /\ ~ validate_update_bits(env)
  /\ c # "update_reboot_state"
  /\ ~ (c = "update_firmware_and_application" /\ noUpdateProcessing)
  /\ Throw(c) /\ UNCHANGED phase
  /\ IF c \in UpdateCalls /\ ~ noUpdateProcessing THEN UNCHANGED staged ELSE Closed

-----------------------------------------------------------------------------
(* The update calls: decorator_update_state, then the first transaction.   *)

MayUpdate == phase # "fresh" \/ "skip_commit" \in Habits

decorator_update_state(c) ==
  /\ CanRead(c) /\ MayUpdate
  /\ ~ noUpdateProcessing
  /\ Throw(c) /\ UNCHANGED <<phase, staged>>

(* Mutant: the failed state is written ahead and left to be cleared. *)
BeginFirmwareAsFailed(j) ==
  /\ noUpdateProcessing
  /\ env' = Flushed([env EXCEPT !.fw[Other(booted)] = STATE_UPDATE_UNCOMMITED,
                                !.urs = "FAILED_FW_UPDATE"])
  /\ job' = j /\ stage' = "rauc" /\ Closed
  /\ UNCHANGED <<Board, phase, last>>

BeginFirmware(j) ==
  /\ noUpdateProcessing
  /\ env' = Flushed([env EXCEPT !.fw[Other(booted)] = STATE_UPDATE_UNCOMMITED,
                                !.urs = "INCOMPLETE_FW_UPDATE"])
  /\ job' = j /\ stage' = "rauc" /\ Closed
  /\ UNCHANGED <<Board, phase, last>>

update_firmware ==
  CanRead("update_firmware") /\ MayUpdate /\ BeginFirmware("fw")

update_firmware_and_application ==
  CanRead("update_firmware_and_application") /\ MayUpdate /\ BeginFirmware("both")

(* The first transaction of the combined update fails inside its try.      *)
CombinedUpdateNotStarted ==
  /\ CallsNow("update_firmware_and_application")
  /\ noUpdateProcessing
  /\ "flush" \in Faults \/ ~ validate_update_bits(env)
  /\ job' = "both" /\ stage' = "fw_failed" /\ Closed
  /\ UNCHANGED <<env, Board, phase, last>>

(* The application slot to write is marked uncommitted. *)
MarkApplication(flag) ==
  [env EXCEPT !.app[Other(env.application)] = STATE_UPDATE_UNCOMMITED,
              !.urs = flag]

update_application ==
  /\ CanRead("update_application") /\ MayUpdate
  /\ noUpdateProcessing
  /\ env' = Flushed(MarkApplication("INCOMPLETE_APP_UPDATE"))
  /\ job' = "app" /\ stage' = "app" /\ Closed
  /\ UNCHANGED <<Board, phase, last>>

-----------------------------------------------------------------------------
(* Firmware installation: rauc writes the slot that is not booted and      *)
(* makes it the primary one, then the library calls sync.                  *)

RaucWrite ==
  /\ stage = "rauc"
  /\ stage' = "writing"
  /\ image' = [image EXCEPT ![Other(booted)] = "partial"]
  /\ UNCHANGED <<env, booted, mounted, up, job, phase, last, staged>>

RaucActivate ==
  /\ stage = "writing"
  /\ stage' = "activated"
  /\ \E img \in {"new"} \cup (IF "image" \in Faults THEN {"broken"} ELSE {}) :
       image' = [image EXCEPT ![Other(booted)] = img]
  /\ env' = [env EXCEPT !.order = Other(booted),
                        !.left[Other(booted)] = BootAttempts]
  /\ UNCHANGED <<booted, mounted, up, job, phase, last, staged>>

(* Mutant: the activated slot stays the primary one. *)
InstallBundleFailsOrderKept ==
  /\ \/ stage \in {"rauc", "writing"} /\ "install" \in Faults
     \/ stage = "activated" /\ "pipe" \in Faults
  /\ stage' = "fw_failed"
  /\ UNCHANGED <<env, Board, job, phase, last, staged>>

(* installBundle: rauc failed, or its pipe did; whatever rauc activated is *)
(* taken back before the exception travels on.                             *)
installBundleFails ==
  /\ \/ stage \in {"rauc", "writing"} /\ "install" \in Faults
     \/ stage = "activated" /\ "pipe" \in Faults
  /\ env' = [env EXCEPT !.order = env.orderOld]
  /\ stage' = "fw_failed"
  /\ UNCHANGED <<Board, job, phase, last, staged>>

(* Taking back fails as well, if there is anything to take back.           *)
TakeBackFails ==
  /\ "take_back" \in Faults
  /\ \/ stage \in {"rauc", "writing"} /\ "install" \in Faults
     \/ stage = "activated" /\ "pipe" \in Faults
  /\ stage' = "fw_failed"
  /\ UNCHANGED <<env, Board, job, phase, last, staged>>

SyncFails ==
  /\ stage = "activated" /\ "sync" \in Faults
  /\ stage' = "fw_failed"
  /\ UNCHANGED <<env, Board, job, phase, last, staged>>

FirmwareCall == IF job = "fw" THEN "update_firmware"
                ELSE "update_firmware_and_application"

FirmwareInstallFailed ==
  /\ stage = "fw_failed"
  /\ env' = [env EXCEPT !.urs = "FAILED_FW_UPDATE"]
  /\ job' = "none" /\ stage' = "idle"
  /\ Return(FirmwareCall, "throw")
  /\ UNCHANGED <<Board, phase, staged>>

(* The handler cannot record the failure either: what it has staged stays  *)
(* with the object, for as long as the client keeps it.                    *)
FirmwareFailureUnrecorded ==
  /\ stage = "fw_failed" /\ "record" \in Faults
  /\ job' = "none" /\ stage' = "idle"
  /\ staged' \in {"nothing", stage}
  /\ Return(FirmwareCall, "throw")
  /\ UNCHANGED <<env, Board, phase>>

FirmwareInstalled ==
  /\ stage = "activated" /\ job = "fw"
  /\ job' = "none" /\ stage' = "idle" /\ phase' = "changed"
  /\ Return("update_firmware", "ok")
  /\ UNCHANGED <<env, Board, staged>>

(* The combined update goes on with the application. *)
FirmwareInstalledApplicationNext ==
  /\ stage = "activated" /\ job = "both"
  /\ env' = MarkApplication("INCOMPLETE_APP_FW_UPDATE")
  /\ stage' = "app"
  /\ UNCHANGED <<Board, job, phase, last, staged>>

-----------------------------------------------------------------------------
(* Application installation: verify, copy, rename over the slot that       *)
(* "application" does not name, then make "application" name it.           *)

AppCall == IF job = "app" THEN "update_application"
           ELSE "update_firmware_and_application"

ApplicationInstalled ==
  /\ stage = "app"
  /\ env' = SwitchApplication(env)
  /\ job' = "none" /\ stage' = "idle" /\ phase' = "changed"
  /\ Return(AppCall, "ok")
  /\ UNCHANGED <<Board, staged>>

ApplicationInstallFails ==
  /\ stage = "app"
  /\ \/ "install" \in Faults /\ stage' = "app_failed"
     \/ "flush" \in Faults /\ stage' = "app_unflushed"
  /\ UNCHANGED <<env, Board, job, phase, last, staged>>

(* The second transaction of the combined update fails inside its try.     *)
ApplicationNotMarked ==
  /\ stage = "activated" /\ job = "both" /\ "flush" \in Faults
  /\ stage' = "app_failed"
  /\ UNCHANGED <<env, Board, job, phase, last, staged>>

(* The handler flushes whatever is staged: after a failed flush that still *)
(* includes the switched "application".                                    *)
AlsoStaged(e) ==
  IF stage = "app_unflushed" THEN SwitchApplication(e) ELSE e

(* Mutant: the firmware of a failed combined update is left activated. *)
ApplicationInstallFailedOrderKept ==
  /\ stage \in {"app_failed", "app_unflushed"}
  /\ env' = AlsoStaged(
       IF job = "app" THEN [env EXCEPT !.urs = "FAILED_APP_UPDATE"]
       ELSE [MarkApplication("FAILED_APP_UPDATE") EXCEPT
               !.fw[Other(booted)] = STATE_UPDATE_COMMITED])
  /\ job' = "none" /\ stage' = "idle"
  /\ Return(AppCall, "throw")
  /\ UNCHANGED <<Board, phase, staged>>

ApplicationInstallFailed ==
  /\ stage \in {"app_failed", "app_unflushed"}
  /\ env' = AlsoStaged(
       IF job = "app" THEN [env EXCEPT !.urs = "FAILED_APP_UPDATE"]
       ELSE [MarkApplication("FAILED_APP_UPDATE") EXCEPT
               !.fw[Other(booted)] = STATE_UPDATE_COMMITED,
               !.order = env.orderOld])
  /\ job' = "none" /\ stage' = "idle"
  /\ Return(AppCall, "throw")
  /\ UNCHANGED <<Board, phase, staged>>

(* The handler's flush fails: that of the combined update is a transaction *)
(* whose end drops what was staged.                                        *)
ApplicationFailureUnrecorded ==
  /\ stage \in {"app_failed", "app_unflushed"} /\ "record" \in Faults
  /\ job' = "none" /\ stage' = "idle"
  /\ staged' \in {"nothing"} \cup (IF job = "app" THEN {stage} ELSE {})
  /\ Return(AppCall, "throw")
  /\ UNCHANGED <<env, Board, phase>>

-----------------------------------------------------------------------------
(* commit_update: the first question answered yes decides. *)

MayCommit == phase # "changed" \/ "early_commit" \in Habits

(* commit_update without an update to confirm: mark the booted slot good.  *)
MarkGood == [env EXCEPT !.left[booted] = BootAttempts]

CommitOutcome ==
  CASE pendingApplicationUpdate ->
         [can |-> application_reboot, env |-> confirmPendingApplicationUpdate]
    [] pendingFirmwareUpdate ->
         [can |-> FirmwareConfirmable, env |-> confirmPendingFirmwareUpdate]
    [] pendingApplicationFirmwareUpdate ->
         [can |-> FirmwareConfirmable, env |-> confirmPendingApplicationFirmwareUpdate]
    [] failedFirmwareUpdate -> [can |-> TRUE, env |-> confirmFailedFirmwareUpdate]
    [] failedRebootFirmwareUpdate ->
         [can |-> TRUE, env |-> confirmFailedRebootFirmwareUpdate]
    [] failedApplicationUpdate -> [can |-> TRUE, env |-> confirmFailedApplicationeUpdate]
    [] noUpdateProcessing -> [can |-> TRUE, env |-> MarkGood]
    [] OTHER -> [can |-> pendingUpdateRollback, env |-> confirmUpdateRollback]

CommitResult ==
  IF ~ CommitOutcome.can THEN "throw"
  ELSE IF noUpdateProcessing /\ env.left[booted] = BootAttempts THEN "false"
  ELSE "true"

commit_update ==
  /\ CanRead("commit_update") /\ MayCommit
  /\ env' = IF CommitOutcome.can THEN Flushed(CommitOutcome.env) ELSE env
  /\ Closed
  /\ Return("commit_update", CommitResult)
  /\ phase' = IF phase = "fresh"
                 /\ (CommitResult # "true" \/ "single_commit" \in Habits)
              THEN "settled" ELSE phase
  /\ UNCHANGED <<Board, job, stage>>

-----------------------------------------------------------------------------
(* rollback_firmware *)

FirmwareStates == {"FW_UPDATE_REBOOT_FAILED", "INCOMPLETE_FW_UPDATE",
                   "FAILED_FW_UPDATE", "ROLLBACK_FW_REBOOT_PENDING",
                   "INCOMPLETE_FW_ROLLBACK"}
ApplicationStates == {"INCOMPLETE_APP_UPDATE", "FAILED_APP_UPDATE",
                      "ROLLBACK_APP_REBOOT_PENDING", "INCOMPLETE_APP_ROLLBACK"}
CombinedStates == {"INCOMPLETE_APP_FW_UPDATE", "ROLLBACK_APP_FW_REBOOT_PENDING",
                   "INCOMPLETE_APP_FW_ROLLBACK"}

RollbackAnswers(c) ==
  /\ CanRead(c)
  /\ phase # "changed" \/ "early_rollback" \in Habits
  /\ ~ (noUpdateProcessing /\ phase = "fresh") \/ "skip_commit" \in Habits
  /\ \/ "cross_rollback" \in Habits
     \/ env.urs \notin (IF c = "rollback_firmware" THEN ApplicationStates
                        ELSE FirmwareStates \cup CombinedStates)

Rolled(c, e) ==
  /\ env' = e /\ Closed
  /\ phase' = "changed"
  /\ Return(c, "ok")
  /\ UNCHANGED <<Board, job, stage>>

RollbackUncommittedFirmware ==
  /\ RollbackAnswers("rollback_firmware")
  /\ pendingFirmwareUpdate \/ pendingApplicationFirmwareUpdate
  /\ Rolled("rollback_firmware",
            Flushed(IF pendingApplicationFirmwareUpdate
            THEN [SwitchApplication(firmware_rollback) EXCEPT
                    !.urs = "ROLLBACK_APP_FW_REBOOT_PENDING"]
            ELSE firmware_rollback))

(* Mutant: a bad slot is no obstacle to the switch. *)
SwitchFirmwareToBad ==
  /\ RollbackAnswers("rollback_firmware")
  /\ ~ pendingFirmwareUpdate /\ ~ pendingApplicationFirmwareUpdate
  /\ ~ pendingUpdateRollback
  /\ ~ Uncommitted(FwNext)
  /\ Rolled("rollback_firmware",
            Flushed([env EXCEPT !.order = Other(booted), !.orderOld = booted,
                                !.urs = "ROLLBACK_FW_REBOOT_PENDING"]))

(* Switch to the other firmware slot, allowed while it is committed. *)
SwitchFirmware ==
  /\ RollbackAnswers("rollback_firmware")
  /\ ~ pendingFirmwareUpdate /\ ~ pendingApplicationFirmwareUpdate
  /\ ~ pendingUpdateRollback
  /\ ~ Uncommitted(FwNext) /\ ~ Bad(FwNext)
  /\ Rolled("rollback_firmware",
            Flushed([env EXCEPT !.order = Other(booted), !.orderOld = booted,
                                !.urs = "ROLLBACK_FW_REBOOT_PENDING"]))

RollbackFirmwareRefused ==
  /\ RollbackAnswers("rollback_firmware")
  /\ ~ pendingFirmwareUpdate /\ ~ pendingApplicationFirmwareUpdate
  /\ pendingUpdateRollback \/ Uncommitted(FwNext) \/ Bad(FwNext)
  /\ Throw("rollback_firmware") /\ Closed /\ UNCHANGED phase

rollback_firmware ==
  \/ RollbackUncommittedFirmware
  \/ SwitchFirmware
  \/ RollbackFirmwareRefused

-----------------------------------------------------------------------------
(* rollback_application.  With a combined update pending the rollback is   *)
(* staged but never flushed, and closing the transaction drops it.         *)

RollbackUncommittedApplication ==
  /\ RollbackAnswers("rollback_application")
  /\ pendingApplicationUpdate \/ pendingApplicationFirmwareUpdate
  /\ Rolled("rollback_application",
            IF pendingApplicationUpdate THEN Flushed(applicaton_rollback)
            ELSE env)

SwitchToOtherApplication ==
  /\ RollbackAnswers("rollback_application")
  /\ ~ pendingApplicationUpdate /\ ~ pendingApplicationFirmwareUpdate
  /\ ~ pendingUpdateRollback
  /\ ~ Uncommitted(AppNext) /\ ~ Bad(AppNext)
  /\ Rolled("rollback_application",
            Flushed([SwitchApplication(env) EXCEPT
                       !.urs = "ROLLBACK_APP_REBOOT_PENDING"]))

RollbackApplicationRefused ==
  /\ RollbackAnswers("rollback_application")
  /\ ~ pendingApplicationUpdate /\ ~ pendingApplicationFirmwareUpdate
  /\ pendingUpdateRollback \/ Uncommitted(AppNext) \/ Bad(AppNext)
  /\ Throw("rollback_application") /\ Closed /\ UNCHANGED phase

rollback_application ==
  \/ RollbackUncommittedApplication
  \/ SwitchToOtherApplication
  \/ RollbackApplicationRefused

-----------------------------------------------------------------------------
(* The remaining calls that write. *)

(* Mutant: the flag is added, also to a slot that has it. *)
AddBad(state) == state + STATE_UPDATE_BAD

MarkBad(state) == IF Bad(state) THEN state ELSE STATE_UPDATE_BAD

set_update_state_bad(s, id) ==
  /\ CanRead("set_update_state_bad")
  /\ env' = Flushed(IF id = 0 THEN [env EXCEPT !.fw[s] = MarkBad(@)]
                              ELSE [env EXCEPT !.app[s] = MarkBad(@)])
  /\ Closed
  /\ Return("set_update_state_bad", "ok")
  /\ UNCHANGED <<Board, job, stage, phase>>

RollbackPending == { "ROLLBACK_FW_REBOOT_PENDING", "ROLLBACK_APP_REBOOT_PENDING",
                     "ROLLBACK_APP_FW_REBOOT_PENDING" }

(* The raw setter; the client uses it to announce that the reboot of a     *)
(* rollback follows ("apply").                                             *)
Applied(flag) ==
  CASE flag = "ROLLBACK_FW_REBOOT_PENDING" -> "INCOMPLETE_FW_ROLLBACK"
    [] flag = "ROLLBACK_APP_REBOOT_PENDING" -> "INCOMPLETE_APP_ROLLBACK"
    [] OTHER -> "INCOMPLETE_APP_FW_ROLLBACK"

update_reboot_state ==
  /\ CallsNow("update_reboot_state")
  /\ env.urs \in RollbackPending
  /\ env' = Flushed([env EXCEPT !.urs = Applied(env.urs)]) /\ Closed
  /\ phase' = "changed"
  /\ Return("update_reboot_state", "ok")
  /\ UNCHANGED <<Board, job, stage>>

-----------------------------------------------------------------------------
(* The board: reboot, power failure, slot selection, application mount.    *)

Reboot ==
  /\ up /\ stage = "idle"
  /\ phase # "fresh" \/ "skip_commit" \in Habits
  /\ env.urs \notin RollbackPending \/ "unannounced_rollback" \in Habits
  /\ up' = FALSE /\ staged' = "nothing"
  /\ UNCHANGED <<env, booted, mounted, job, stage, image, phase, last>>

PowerFails ==
  /\ up /\ "power" \in Faults
  /\ up' = FALSE
  /\ job' = "none" /\ stage' = "idle" /\ staged' = "nothing"
  /\ UNCHANGED <<env, booted, mounted, image, phase, last>>

(* U-Boot takes the first slot of BOOT_ORDER with attempts left. *)
Selected == IF env.left[env.order] > 0 THEN env.order ELSE Other(env.order)

(* A boot loader that tells a fallback from a pending firmware update.     *)
FallbackFlag ==
  IF /\ "fallback_flag" \in Faults
     /\ Selected # env.order /\ env.urs = "INCOMPLETE_FW_UPDATE"
  THEN "FW_UPDATE_REBOOT_FAILED" ELSE env.urs

BootAttempt ==
  /\ ~ up
  /\ env.left[Selected] > 0
  /\ env' = [env EXCEPT !.left[Selected] = @ - 1, !.urs = FallbackFlag]
  /\ IF image[Selected] \in {"broken", "partial"}
     THEN UNCHANGED <<booted, mounted, up, image, phase>>
     ELSE /\ up' = TRUE /\ booted' = Selected
          /\ mounted' = env.application
          /\ image' = [image EXCEPT ![Selected] = "ran"]
          /\ phase' = "fresh"
  /\ UNCHANGED <<job, stage, last, staged>>

ResetCounters ==
  /\ ~ up
  /\ \A s \in Slots : env.left[s] = 0
  /\ env' = [env EXCEPT !.left = FullCounters]
  /\ UNCHANGED <<Board, job, stage, phase, last, staged>>

-----------------------------------------------------------------------------
ClientCall ==
  \/ \E c \in AllCalls : ReadRejected(c)
  \/ \E c \in UpdateCalls : decorator_update_state(c)
  \/ update_firmware
  \/ update_application
  \/ update_firmware_and_application
  \/ CombinedUpdateNotStarted
  \/ commit_update
  \/ rollback_firmware
  \/ rollback_application
  \/ \E s \in Slots, id \in {0, 1} : set_update_state_bad(s, id)
  \/ update_reboot_state

Installation ==
  \/ RaucWrite
  \/ RaucActivate
  \/ installBundleFails
  \/ TakeBackFails
  \/ SyncFails
  \/ FirmwareInstallFailed
  \/ FirmwareFailureUnrecorded
  \/ FirmwareInstalled
  \/ FirmwareInstalledApplicationNext
  \/ ApplicationInstalled
  \/ ApplicationInstallFails
  \/ ApplicationNotMarked
  \/ ApplicationInstallFailed
  \/ ApplicationFailureUnrecorded

BoardStep ==
  \/ Reboot
  \/ PowerFails
  \/ BootAttempt
  \/ ResetCounters

Next == ClientCall \/ Installation \/ BoardStep

Spec == Init /\ [][Next]_vars

(* An installation runs to its end, the boot loader keeps trying, and the  *)
(* client announces its rollback, reboots and commits when it is due.      *)
(* Commits need strong fairness: a reboot interrupts them time and again.  *)
FairSpec ==
  /\ Spec
  /\ WF_vars(Installation)
  /\ WF_vars(BootAttempt)
  /\ WF_vars(ResetCounters)
  /\ WF_vars(update_reboot_state)
  /\ WF_vars(Reboot)
  /\ SF_vars(commit_update)
=============================================================================
