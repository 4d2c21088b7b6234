----------------------- MODULE FSUpdateLifecycleProofs -----------------------
(***************************************************************************)
(* Proofs about the life cycle of a client that keeps to the documented    *)
(* order of calls, while any installation and any image may fail: what the *)
(* runs of such clients check, for all of them, and last that FSUpdate     *)
(* implements UpdateLifecycle for them.                                    *)
(***************************************************************************)
EXTENDS FSUpdateLifecycle, FSUpdateProofs

(* The documented protocol.  Combined updates and firmware rollbacks do    *)
(* not go together (README, section 5).                                    *)
Combined == "update_firmware_and_application" \in Calls

DocumentedClient ==
  /\ Faults \subseteq {"install", "pipe", "image"}
  /\ Habits = {}
  /\ "set_update_state_bad" \notin Calls
  /\ ~ (Combined /\ "rollback_firmware" \in Calls)

-----------------------------------------------------------------------------
(* The inductive invariant: what update_reboot_state tells of everything   *)
(* else.  Old is the slot the board returns to, New the other one.         *)
Old == env.orderOld
New == Other(env.orderOld)

Full == \A s \in Slots : env.left[s] = BootAttempts

(* States in which New is the first slot of BOOT_ORDER.                    *)
Leaving ==
  \/ env.urs \in {"INCOMPLETE_APP_FW_UPDATE", "ROLLBACK_FW_REBOOT_PENDING",
                  "INCOMPLETE_FW_ROLLBACK"}
  \/ env.urs = "INCOMPLETE_FW_UPDATE" /\ stage \in {"idle", "activated"}

InstallationTells ==
  /\ stage = "idle" <=> job = "none"
  /\ stage # "app_unflushed"
  /\ stage \in {"rauc", "writing", "activated", "fw_failed"} =>
       job \in {"fw", "both"} /\ env.urs = "INCOMPLETE_FW_UPDATE"
  /\ stage \in {"app", "app_failed"} =>
       \/ job = "app" /\ env.urs = "INCOMPLETE_APP_UPDATE"
       \/ job = "both" /\ env.urs = "INCOMPLETE_APP_FW_UPDATE"
  /\ stage # "idle" => up /\ phase = "settled" /\ booted = Old /\ Full
  /\ job = "both" => Combined

StateTells ==
  /\ env.urs \notin {"FW_UPDATE_REBOOT_FAILED", "ROLLBACK_APP_FW_REBOOT_PENDING",
                     "INCOMPLETE_APP_FW_ROLLBACK"}
  /\ env.urs = "INCOMPLETE_APP_FW_UPDATE" => Combined
  /\ env.order = IF Leaving THEN New ELSE Old

FirmwareTells ==
  /\ env.fw[Old] = 0 /\ image[Old] = "ran"
  /\ env.fw[New] \in
       CASE env.urs \in {"INCOMPLETE_FW_UPDATE", "INCOMPLETE_APP_FW_UPDATE",
                         "FAILED_FW_UPDATE"} -> {1}
         [] env.urs \in {"ROLLBACK_FW_REBOOT_PENDING", "INCOMPLETE_FW_ROLLBACK"} -> {0, 1}
         [] OTHER -> {0, 2}
  /\ env.urs \in {"ROLLBACK_FW_REBOOT_PENDING", "INCOMPLETE_FW_ROLLBACK"} =>
       image[New] = "ran"
  /\ ~ Combined /\ env.fw[New] = 0 => image[New] = "ran"

ApplicationOnTrial ==
  /\ stage = "idle"
  /\ env.urs \in {"INCOMPLETE_APP_UPDATE", "INCOMPLETE_APP_FW_UPDATE"}

ApplicationTells ==
  /\ AppCur = IF ApplicationOnTrial THEN 1 ELSE 0
  /\ AppNext \in
       CASE ApplicationOnTrial -> {0}
         [] env.urs \in {"INCOMPLETE_APP_UPDATE", "INCOMPLETE_APP_FW_UPDATE",
                         "FAILED_APP_UPDATE"} /\ ~ ApplicationOnTrial -> {1}
         [] env.urs \in {"ROLLBACK_APP_REBOOT_PENDING", "INCOMPLETE_APP_ROLLBACK"} -> {0, 1}
         [] OTHER -> {0, 2}

(* Where the client is in the documented order of calls. *)
PhaseTells ==
  /\ ~ up => phase # "fresh" /\ env.urs \notin RollbackPending
  /\ env.urs \in {"NO_UPDATE_REBOOT_PENDING", "FAILED_FW_UPDATE", "FAILED_APP_UPDATE"} =>
       phase # "changed"
  /\ env.urs \in RollbackPending => phase = "changed"
  /\ phase = "settled" /\ stage = "idle" =>
       env.urs \in {"NO_UPDATE_REBOOT_PENDING", "FAILED_FW_UPDATE", "FAILED_APP_UPDATE"}

(* Which slot was booted, and which the next boot will select. *)
BootTells ==
  /\ ~ Leaving => booted = Old
  /\ Leaving => image[New] # "partial"
  /\ Leaving /\ stage # "idle" => image[New] # "ran"
  /\ stage = "idle" /\ env.urs \in {"INCOMPLETE_FW_UPDATE", "INCOMPLETE_APP_FW_UPDATE"} =>
       /\ image[New] = "new" => booted = Old /\ phase = "changed" /\ Full
       /\ image[New] = "ran" =>
            up /\ booted = New /\ phase = "fresh" /\ env.left[Old] = BootAttempts
       /\ image[New] = "broken" =>
            booted = Old /\ (phase = "fresh" => env.left[New] = 0)
  /\ env.urs \in {"ROLLBACK_FW_REBOOT_PENDING", "INCOMPLETE_FW_ROLLBACK"} =>
       /\ phase = "fresh" => booted = IF env.fw[New] = 1 THEN Old ELSE New
       /\ phase = "changed" =>
            IF env.fw[New] = 1
            THEN booted = New /\ env.left[New] = 0 /\ env.left[Old] = BootAttempts
            ELSE booted = Old /\ env.left[New] = BootAttempts

(* Boot attempts that are left while Old leads the order: enough for the   *)
(* reboots the protocol still has before the next commit.                  *)
AttemptsLeft ==
  CASE phase = "settled" -> 3
    [] phase = "fresh" ->
         IF env.urs \in {"NO_UPDATE_REBOOT_PENDING", "INCOMPLETE_APP_ROLLBACK"}
         THEN 1 ELSE 2
    [] OTHER -> IF env.urs = "INCOMPLETE_APP_UPDATE" THEN 3 ELSE 2

CountersTell ==
  ~ Leaving => env.left[New] = BootAttempts /\ env.left[Old] >= AttemptsLeft

MountTells ==
  /\ phase = "fresh" /\ ~ noUpdateProcessing => mounted = env.application
  /\ ~ Combined =>
       /\ env.urs \notin {"INCOMPLETE_APP_UPDATE", "ROLLBACK_APP_REBOOT_PENDING",
                          "INCOMPLETE_APP_ROLLBACK"} \/ stage # "idle"
            => mounted = env.application
       /\ env.urs = "INCOMPLETE_APP_UPDATE" /\ stage = "idle" /\ phase = "changed"
            => mounted # env.application

LastTells ==
  /\ CommitNeverThrows
  /\ up /\ stage = "idle" /\ phase = "changed" /\ last.res = "ok" =>
       /\ last.call = "update_firmware" =>
            env.urs = "INCOMPLETE_FW_UPDATE" /\ booted = Old /\ Full
       /\ last.call = "update_application" => env.urs = "INCOMPLETE_APP_UPDATE"
       /\ last.call = "update_firmware_and_application" => Combined

Tells ==
  /\ InstallationTells /\ StateTells /\ FirmwareTells /\ ApplicationTells
  /\ PhaseTells /\ BootTells /\ CountersTell /\ MountTells /\ LastTells

PInv == TypeOK /\ Tells /\ staged = "nothing"

-----------------------------------------------------------------------------
(* Every slot is the one the board returns to or the other one. *)
LEMMA TwoSlots ==
  ASSUME TypeOK
  PROVE  /\ Slots = {Old, New} /\ Old # New
         /\ Other(Old) = New /\ Other(New) = Old
         /\ booted \in {Old, New} /\ env.order \in {Old, New}
         /\ env.application \in Slots /\ Other(env.application) \in Slots
         /\ Other(env.application) # env.application
         /\ Other(Other(env.application)) = env.application
BY DEF TypeOK, EnvType, Old, New, Other, Slots

(* At most one slot of a kind is uncommitted: "update" is never rejected.  *)
LEMMA UpdateBitsValid ==
  ASSUME TypeOK, Tells
  PROVE  validate_update_bits(env)
<1>1. env.fw[Old] = 0 /\ Old \in Slots
  BY TwoSlots DEF Tells, FirmwareTells
<1>2. AppCur = 0 \/ AppNext = 0
  <2>1. CASE ApplicationOnTrial
    BY <2>1 DEF Tells, ApplicationTells, ApplicationOnTrial
  <2>2. CASE ~ ApplicationOnTrial
    BY <2>2 DEF Tells, ApplicationTells, ApplicationOnTrial
  <2> QED
    BY <2>1, <2>2
<1>3. \E s \in Slots : ~ Uncommitted(env.fw[s])
  BY <1>1 DEF Uncommitted
<1>4. \E s \in Slots : ~ Uncommitted(env.app[s])
  BY <1>2, TwoSlots DEF Uncommitted, AppCur, AppNext
<1> QED
  BY <1>3, <1>4 DEF validate_update_bits

-----------------------------------------------------------------------------
(* The update calls: the installation begins. *)
LEMMA BeginFirmwareTells ==
  ASSUME DocumentedClient, TypeOK, Tells, staged = "nothing", TypeOK',
         up, stage = "idle", MayUpdate,
         NEW j \in {"fw", "both"}, j = "both" => Combined, BeginFirmware(j)
  PROVE  Tells'
<1> USE TwoSlots DEF Tells
<1>1. /\ env.urs = "NO_UPDATE_REBOOT_PENDING" /\ phase = "settled" /\ booted = Old
      /\ env.order = Old
  BY DEF BeginFirmware, noUpdateProcessing, MayUpdate, DocumentedClient, PhaseTells,
         TypeOK, Phases, BootTells, Leaving, StateTells
<1>2. Full
  BY <1>1 DEF Full, CountersTell, Leaving, AttemptsLeft, TypeOK, EnvType, BootAttempts
<1>3. /\ env'.fw[Old] = env.fw[Old] /\ env'.fw[New] = 1
      /\ env'.app = env.app /\ env'.application = env.application
      /\ env'.urs = "INCOMPLETE_FW_UPDATE"
      /\ env'.order = env.order /\ env'.orderOld = env.orderOld
      /\ env'.left = env.left
  BY <1>1 DEF BeginFirmware, Flushed, TypeOK, EnvType, STATE_UPDATE_UNCOMMITED
<1>4. /\ stage' = "rauc" /\ job' = j
      /\ UNCHANGED <<booted, mounted, up, image, phase, last>>
  BY DEF BeginFirmware, Board
<1>5. InstallationTells'
  BY <1>1, <1>2, <1>3, <1>4 DEF InstallationTells, Full, Old
<1>6. StateTells'
  BY <1>1, <1>3, <1>4 DEF StateTells, Leaving, Old, New
<1>7. FirmwareTells'
  BY <1>3, <1>4 DEF FirmwareTells, Old, New
<1>8. ApplicationTells'
  BY <1>1, <1>3, <1>4 DEF ApplicationTells, ApplicationOnTrial, AppCur, AppNext
<1>9. PhaseTells'
  BY <1>1, <1>3, <1>4 DEF PhaseTells, RollbackPending
<1>10. BootTells'
  BY <1>1, <1>3, <1>4 DEF BootTells, Leaving, Old, New
<1>11. CountersTell' /\ MountTells' /\ LastTells'
  BY <1>1, <1>2, <1>3, <1>4
     DEF CountersTell, Leaving, AttemptsLeft, Full, BootAttempts, Old, New,
         MountTells, noUpdateProcessing, LastTells, CommitNeverThrows
<1> QED
  BY <1>5, <1>6, <1>7, <1>8, <1>9, <1>10, <1>11

(* The same for the application. *)
LEMMA UpdateApplicationTells ==
  ASSUME DocumentedClient, TypeOK, Tells, staged = "nothing", TypeOK',
         update_application
  PROVE  Tells'
<1> USE TwoSlots DEF Tells
<1>1. /\ env.urs = "NO_UPDATE_REBOOT_PENDING" /\ phase = "settled" /\ booted = Old
      /\ env.order = Old /\ up /\ stage = "idle"
  BY DEF update_application, CanRead, CallsNow, noUpdateProcessing, MayUpdate,
         DocumentedClient, PhaseTells, TypeOK, Phases, BootTells, Leaving, StateTells
<1>2. Full
  BY <1>1 DEF Full, CountersTell, Leaving, AttemptsLeft, TypeOK, EnvType, BootAttempts
<1>3. /\ env'.fw = env.fw /\ env'.application = env.application
      /\ AppCur' = AppCur /\ AppNext' = 1
      /\ env'.urs = "INCOMPLETE_APP_UPDATE"
      /\ env'.order = env.order /\ env'.orderOld = env.orderOld
      /\ env'.left = env.left
  BY DEF update_application, Flushed, MarkApplication, TypeOK, EnvType,
         STATE_UPDATE_UNCOMMITED, AppCur, AppNext
<1>4. /\ stage' = "app" /\ job' = "app"
      /\ UNCHANGED <<booted, mounted, up, image, phase, last>>
  BY DEF update_application, Board
<1>5. InstallationTells'
  BY <1>1, <1>2, <1>3, <1>4 DEF InstallationTells, Full, Old
<1>6. StateTells'
  BY <1>1, <1>3, <1>4 DEF StateTells, Leaving, Old, New
<1>7. FirmwareTells'
  BY <1>1, <1>3, <1>4 DEF FirmwareTells, Old, New
<1>8. ApplicationTells'
  BY <1>1, <1>3, <1>4 DEF ApplicationTells, ApplicationOnTrial
<1>9. PhaseTells'
  BY <1>1, <1>3, <1>4 DEF PhaseTells, RollbackPending
<1>10. BootTells'
  BY <1>1, <1>3, <1>4 DEF BootTells, Leaving, Old, New
<1>11. CountersTell' /\ MountTells' /\ LastTells'
  BY <1>1, <1>2, <1>3, <1>4
     DEF CountersTell, Leaving, AttemptsLeft, Full, BootAttempts, Old, New,
         MountTells, noUpdateProcessing, LastTells, CommitNeverThrows
<1> QED
  BY <1>5, <1>6, <1>7, <1>8, <1>9, <1>10, <1>11

-----------------------------------------------------------------------------
(* Firmware installation. *)
LEMMA RaucWriteTells ==
  ASSUME DocumentedClient, TypeOK, Tells, TypeOK', RaucWrite
  PROVE  Tells'
<1> USE TwoSlots DEF Tells
<1>1. /\ stage = "rauc" /\ stage' = "writing" /\ booted = Old
      /\ image'[Old] = image[Old] /\ image'[New] = "partial"
      /\ UNCHANGED <<env, booted, mounted, up, job, phase, last>>
  BY DEF RaucWrite, InstallationTells, TypeOK
<1>2. InstallationTells'
  BY <1>1 DEF InstallationTells, Full, Old
<1>3. StateTells'
  BY <1>1 DEF StateTells, InstallationTells, Leaving, Old, New
<1>4. FirmwareTells'
  BY <1>1 DEF FirmwareTells, InstallationTells, Old, New
<1>5. ApplicationTells'
  BY <1>1 DEF ApplicationTells, InstallationTells, ApplicationOnTrial, AppCur, AppNext
<1>6. BootTells'
  BY <1>1 DEF BootTells, InstallationTells, Leaving, Full, Old, New
<1>7. PhaseTells' /\ CountersTell' /\ MountTells' /\ LastTells'
  BY <1>1 DEF PhaseTells, InstallationTells, CountersTell, Leaving, AttemptsLeft,
              MountTells, noUpdateProcessing, LastTells, CommitNeverThrows, Full,
              Old, New
<1> QED
  BY <1>2, <1>3, <1>4, <1>5, <1>6, <1>7

(* rauc finishes and makes the slot it wrote the first one. *)
LEMMA RaucActivateTells ==
  ASSUME DocumentedClient, TypeOK, Tells, TypeOK', RaucActivate
  PROVE  Tells'
<1> USE TwoSlots DEF Tells
<1>1. /\ stage = "writing" /\ stage' = "activated" /\ booted = Old
      /\ image'[Old] = image[Old] /\ image'[New] \in {"new", "broken"}
      /\ UNCHANGED <<booted, mounted, up, job, phase, last>>
  BY DEF RaucActivate, InstallationTells, TypeOK
<1>2. Full
  BY <1>1 DEF InstallationTells
<1>3. /\ env'.order = New /\ env'.orderOld = env.orderOld
      /\ env'.left = env.left
      /\ env'.fw = env.fw /\ env'.app = env.app
      /\ env'.urs = env.urs /\ env'.application = env.application
  BY <1>1, <1>2 DEF RaucActivate, TypeOK, EnvType, Full
<1>4. InstallationTells'
  BY <1>1, <1>3 DEF InstallationTells, Full, Old
<1>5. StateTells'
  BY <1>1, <1>3 DEF StateTells, InstallationTells, Leaving, Old, New
<1>6. FirmwareTells'
  BY <1>1, <1>3 DEF FirmwareTells, InstallationTells, Old, New
<1>7. ApplicationTells'
  BY <1>1, <1>3 DEF ApplicationTells, InstallationTells, ApplicationOnTrial, AppCur, AppNext
<1>8. BootTells'
  BY <1>1, <1>3 DEF BootTells, InstallationTells, Leaving, Full, Old, New
<1>9. PhaseTells' /\ CountersTell' /\ MountTells' /\ LastTells'
  BY <1>1, <1>3 DEF PhaseTells, InstallationTells, CountersTell, Leaving,
              MountTells, noUpdateProcessing, LastTells, CommitNeverThrows, Full
<1> QED
  BY <1>4, <1>5, <1>6, <1>7, <1>8, <1>9

(* installBundle fails and takes the slot switch back. *)
LEMMA installBundleFailsTells ==
  ASSUME DocumentedClient, TypeOK, Tells, TypeOK', installBundleFails
  PROVE  Tells'
<1> USE TwoSlots DEF Tells
<1>1. /\ stage \in {"rauc", "writing", "activated"} /\ stage' = "fw_failed"
      /\ booted = Old /\ Full /\ env.urs = "INCOMPLETE_FW_UPDATE"
      /\ phase = "settled" /\ up
      /\ UNCHANGED <<booted, mounted, up, job, image, phase, last>>
  BY DEF installBundleFails, InstallationTells, Board
<1>2. /\ env'.order = Old /\ env'.orderOld = env.orderOld
      /\ env'.left = env.left
      /\ env'.fw = env.fw /\ env'.app = env.app
      /\ env'.urs = env.urs /\ env'.application = env.application
  BY <1>1 DEF installBundleFails, TypeOK, EnvType, Old
<1>3. InstallationTells'
  BY <1>1, <1>2 DEF InstallationTells, Full, Old
<1>4. StateTells'
  BY <1>1, <1>2 DEF StateTells, Leaving, Old, New
<1>5. FirmwareTells'
  BY <1>1, <1>2 DEF FirmwareTells, Old, New
<1>6. ApplicationTells'
  BY <1>1, <1>2 DEF ApplicationTells, ApplicationOnTrial, AppCur, AppNext
<1>7. BootTells'
  BY <1>1, <1>2 DEF BootTells, Leaving, Old, New
<1>8. PhaseTells' /\ CountersTell' /\ MountTells' /\ LastTells'
  BY <1>1, <1>2 DEF PhaseTells, RollbackPending, CountersTell, Leaving, AttemptsLeft, Full,
              BootAttempts, MountTells, noUpdateProcessing, LastTells, CommitNeverThrows,
              Old, New
<1> QED
  BY <1>3, <1>4, <1>5, <1>6, <1>7, <1>8

(* The failure is recorded and the call throws. *)
LEMMA FirmwareInstallFailedTells ==
  ASSUME DocumentedClient, TypeOK, Tells, TypeOK', FirmwareInstallFailed
  PROVE  Tells'
<1> USE TwoSlots DEF Tells
<1>1. /\ stage = "fw_failed" /\ stage' = "idle" /\ job' = "none"
      /\ booted = Old /\ Full /\ env.urs = "INCOMPLETE_FW_UPDATE"
      /\ phase = "settled" /\ up /\ env.order = Old
      /\ UNCHANGED <<booted, mounted, up, image, phase>>
      /\ last'.res = "throw" /\ last'.call # "commit_update"
  BY DEF FirmwareInstallFailed, FirmwareCall, InstallationTells, Board, StateTells,
         Leaving, Return
<1>2. /\ env'.urs = "FAILED_FW_UPDATE"
      /\ env'.order = env.order /\ env'.orderOld = env.orderOld
      /\ env'.left = env.left
      /\ env'.fw = env.fw /\ env'.app = env.app /\ env'.application = env.application
  BY DEF FirmwareInstallFailed, TypeOK, EnvType
<1>3. InstallationTells' /\ StateTells'
  BY <1>1, <1>2 DEF InstallationTells, StateTells, Leaving, Old, New
<1>4. FirmwareTells'
  BY <1>1, <1>2 DEF FirmwareTells, Old, New
<1>5. ApplicationTells'
  BY <1>1, <1>2 DEF ApplicationTells, ApplicationOnTrial, AppCur, AppNext
<1>6. BootTells' /\ PhaseTells'
  BY <1>1, <1>2 DEF BootTells, PhaseTells, RollbackPending, Leaving, Old, New
<1>7. CountersTell' /\ MountTells' /\ LastTells'
  BY <1>1, <1>2 DEF CountersTell, Leaving, AttemptsLeft, Full,
              BootAttempts, MountTells, noUpdateProcessing, LastTells, CommitNeverThrows,
              Old, New
<1> QED
  BY <1>3, <1>4, <1>5, <1>6, <1>7

(* update_firmware returns: the new slot is on trial. *)
LEMMA FirmwareInstalledTells ==
  ASSUME DocumentedClient, TypeOK, Tells, TypeOK', FirmwareInstalled
  PROVE  Tells'
<1> USE TwoSlots DEF Tells
<1>1. /\ stage = "activated" /\ stage' = "idle" /\ job' = "none"
      /\ booted = Old /\ Full /\ env.urs = "INCOMPLETE_FW_UPDATE"
      /\ phase = "settled" /\ phase' = "changed" /\ up
      /\ UNCHANGED <<env, booted, mounted, up, image>>
      /\ last' = [call |-> "update_firmware", res |-> "ok"]
  BY DEF FirmwareInstalled, InstallationTells, Board, Return
<1>2. InstallationTells' /\ StateTells'
  BY <1>1 DEF InstallationTells, StateTells, Leaving, Old, New
<1>3. FirmwareTells'
  BY <1>1 DEF FirmwareTells, Old, New
<1>4. ApplicationTells'
  BY <1>1 DEF ApplicationTells, ApplicationOnTrial, AppCur, AppNext
<1>5. image[New] \in {"new", "broken"}
  BY <1>1 DEF BootTells, Leaving, TypeOK, Images
<1>6. BootTells' /\ PhaseTells'
  BY <1>1, <1>5 DEF BootTells, PhaseTells, RollbackPending, Leaving, Full, Old, New
<1>7. CountersTell' /\ MountTells' /\ LastTells'
  BY <1>1 DEF CountersTell, Leaving, Full,
              MountTells, noUpdateProcessing, LastTells, CommitNeverThrows, Old, New
<1> QED
  BY <1>2, <1>3, <1>4, <1>6, <1>7

(* The combined update marks the application slot and goes on. *)
LEMMA FirmwareInstalledApplicationNextTells ==
  ASSUME DocumentedClient, TypeOK, Tells, TypeOK', FirmwareInstalledApplicationNext
  PROVE  Tells'
<1> USE TwoSlots DEF Tells
<1>1. /\ stage = "activated" /\ stage' = "app" /\ job = "both" /\ Combined
      /\ booted = Old /\ Full /\ env.urs = "INCOMPLETE_FW_UPDATE"
      /\ phase = "settled" /\ up /\ env.order = New /\ image[New] # "ran"
      /\ UNCHANGED <<booted, mounted, up, image, job, phase, last>>
  BY DEF FirmwareInstalledApplicationNext, InstallationTells, Board, StateTells,
         Leaving, BootTells
<1>2. /\ env'.fw = env.fw /\ env'.application = env.application
      /\ AppCur' = AppCur /\ AppNext' = 1
      /\ env'.urs = "INCOMPLETE_APP_FW_UPDATE"
      /\ env'.order = env.order /\ env'.orderOld = env.orderOld
      /\ env'.left = env.left
  BY DEF FirmwareInstalledApplicationNext, MarkApplication, TypeOK, EnvType,
         STATE_UPDATE_UNCOMMITED, AppCur, AppNext
<1>3. InstallationTells' /\ StateTells'
  BY <1>1, <1>2 DEF InstallationTells, StateTells, Leaving, Full, Old, New
<1>4. FirmwareTells'
  BY <1>1, <1>2 DEF FirmwareTells, Old, New
<1>5. ApplicationTells'
  BY <1>1, <1>2 DEF ApplicationTells, ApplicationOnTrial
<1>6. BootTells' /\ PhaseTells'
  BY <1>1, <1>2 DEF BootTells, PhaseTells, RollbackPending, Leaving, Full, Old, New
<1>7. CountersTell' /\ MountTells' /\ LastTells'
  BY <1>1, <1>2 DEF CountersTell, Leaving, MountTells, noUpdateProcessing,
              LastTells, CommitNeverThrows, Combined
<1> QED
  BY <1>3, <1>4, <1>5, <1>6, <1>7

-----------------------------------------------------------------------------
(* Application installation. *)
LEMMA ApplicationInstalledTells ==
  ASSUME DocumentedClient, TypeOK, Tells, TypeOK', ApplicationInstalled
  PROVE  Tells'
<1> USE TwoSlots DEF Tells
<1>1. /\ stage = "app" /\ stage' = "idle" /\ job' = "none" /\ booted = Old /\ Full
      /\ phase = "settled" /\ phase' = "changed" /\ up
      /\ UNCHANGED <<booted, mounted, up, image>>
  BY DEF ApplicationInstalled, InstallationTells, Board
<1>2. /\ env.urs \in {"INCOMPLETE_APP_UPDATE", "INCOMPLETE_APP_FW_UPDATE"}
      /\ last'.call = "update_application" => env.urs = "INCOMPLETE_APP_UPDATE"
      /\ last'.call \in {"update_application", "update_firmware_and_application"}
      /\ last'.call = "update_firmware_and_application" => Combined
      /\ last'.res = "ok"
  BY <1>1 DEF ApplicationInstalled, InstallationTells, AppCall, Return
<1>3. /\ env'.fw = env.fw /\ env'.application = Other(env.application)
      /\ AppCur' = AppNext /\ AppNext' = AppCur
      /\ env'.urs = env.urs
      /\ env'.order = env.order /\ env'.orderOld = env.orderOld
      /\ env'.left = env.left
  BY DEF ApplicationInstalled, SwitchApplication, TypeOK, EnvType, AppCur, AppNext
<1>4. InstallationTells' /\ StateTells'
  BY <1>1, <1>2, <1>3 DEF InstallationTells, StateTells, Leaving, Full, Old, New
<1>5. FirmwareTells'
  BY <1>1, <1>2, <1>3 DEF FirmwareTells, Old, New
<1>6. ApplicationTells'
  BY <1>1, <1>2, <1>3 DEF ApplicationTells, ApplicationOnTrial
<1>7. BootTells' /\ PhaseTells'
  BY <1>1, <1>2, <1>3
     DEF BootTells, PhaseTells, RollbackPending, Leaving, Full, Old, New, TypeOK, Images
<1>8. CountersTell'
  BY <1>1, <1>2, <1>3 DEF CountersTell, Leaving, AttemptsLeft, Full, BootAttempts, Old, New
<1>9. MountTells' /\ LastTells'
  BY <1>1, <1>2, <1>3 DEF MountTells, StateTells, noUpdateProcessing,
              LastTells, CommitNeverThrows
<1> QED
  BY <1>4, <1>5, <1>6, <1>7, <1>8, <1>9

(* The application installer reports an error. *)
LEMMA ApplicationInstallFailsTells ==
  ASSUME DocumentedClient, TypeOK, Tells, TypeOK', ApplicationInstallFails
  PROVE  Tells'
<1> USE TwoSlots DEF Tells
<1>1. /\ stage = "app" /\ stage' = "app_failed"
      /\ UNCHANGED <<env, booted, mounted, up, image, job, phase, last>>
  BY DEF ApplicationInstallFails, Board, DocumentedClient
<1>2. InstallationTells' /\ StateTells'
  BY <1>1 DEF InstallationTells, StateTells, Leaving, Full, Old, New
<1>3. FirmwareTells' /\ ApplicationTells'
  BY <1>1 DEF FirmwareTells, ApplicationTells, ApplicationOnTrial, AppCur, AppNext, Old, New
<1>4. BootTells' /\ PhaseTells'
  BY <1>1 DEF BootTells, PhaseTells, InstallationTells, Leaving, Full, Old, New
<1>5. CountersTell' /\ MountTells' /\ LastTells'
  BY <1>1 DEF CountersTell, Leaving, AttemptsLeft, MountTells, noUpdateProcessing,
              LastTells, CommitNeverThrows, Old, New
<1> QED
  BY <1>2, <1>3, <1>4, <1>5

(* Its failure is recorded, with the firmware of a combined update. *)
LEMMA ApplicationInstallFailedTells ==
  ASSUME DocumentedClient, TypeOK, Tells, TypeOK', ApplicationInstallFailed
  PROVE  Tells'
<1> USE TwoSlots DEF Tells
<1>1. /\ stage = "app_failed" /\ stage' = "idle" /\ job' = "none"
      /\ booted = Old /\ Full /\ phase = "settled" /\ up
      /\ UNCHANGED <<booted, mounted, up, image, phase>>
      /\ last'.res = "throw" /\ last'.call # "commit_update"
  BY DEF ApplicationInstallFailed, InstallationTells, Board, Return, AppCall
<1>2. /\ job = "app" => env.urs = "INCOMPLETE_APP_UPDATE"
      /\ job # "app" => env.urs = "INCOMPLETE_APP_FW_UPDATE" /\ Combined
  BY <1>1 DEF InstallationTells
<1>3. /\ env'.urs = "FAILED_APP_UPDATE"
      /\ env'.order = Old /\ env'.orderOld = env.orderOld
      /\ env'.left = env.left /\ env'.application = env.application
      /\ AppCur' = AppCur /\ AppNext' = 1
      /\ env'.fw[Old] = env.fw[Old]
      /\ env'.fw[New] = IF job = "app" THEN env.fw[New] ELSE 0
  <2>1. CASE job = "app"
    <3>1. env' = [env EXCEPT !.urs = "FAILED_APP_UPDATE"]
      BY <1>1, <2>1 DEF ApplicationInstallFailed, AlsoStaged
    <3>2. env.order = Old /\ AppNext = 1
      BY <1>1, <1>2, <2>1 DEF StateTells, Leaving, ApplicationTells, ApplicationOnTrial
    <3> QED
      BY <2>1, <3>1, <3>2 DEF TypeOK, EnvType, AppCur, AppNext
  <2>2. CASE job # "app"
    <3>1. env' = [MarkApplication("FAILED_APP_UPDATE") EXCEPT
                    !.fw[Other(booted)] = STATE_UPDATE_COMMITED,
                    !.order = env.orderOld]
      BY <1>1, <2>2 DEF ApplicationInstallFailed, AlsoStaged
    <3> QED
      BY <1>1, <2>2, <3>1 DEF TypeOK, EnvType, MarkApplication, AppCur, AppNext, Old,
         STATE_UPDATE_COMMITED, STATE_UPDATE_UNCOMMITED
  <2> QED
    BY <2>1, <2>2
<1>4. InstallationTells' /\ StateTells'
  BY <1>1, <1>3 DEF InstallationTells, StateTells, Leaving, Old, New
<1>5. FirmwareTells'
  BY <1>1, <1>2, <1>3 DEF FirmwareTells, Old, New
<1>6. ApplicationTells'
  BY <1>1, <1>2, <1>3 DEF ApplicationTells, ApplicationOnTrial
<1>7. BootTells' /\ PhaseTells'
  BY <1>1, <1>3 DEF BootTells, PhaseTells, RollbackPending, Leaving, Old, New
<1>8. CountersTell' /\ MountTells' /\ LastTells'
  BY <1>1, <1>2, <1>3 DEF CountersTell, Leaving, AttemptsLeft, Full, BootAttempts, Old, New,
        MountTells, noUpdateProcessing, LastTells, CommitNeverThrows
<1> QED
  BY <1>4, <1>5, <1>6, <1>7, <1>8

-----------------------------------------------------------------------------
(* commit_update.  The states it may be called in. *)
CommitState ==
  /\ up /\ stage = "idle" /\ phase \in {"fresh", "settled"}
  /\ env.urs \notin RollbackPending

(* What commit_update does about the update or rollback it finds. *)
LEMMA CommitIdle ==
  ASSUME DocumentedClient, TypeOK, Tells, CommitState, noUpdateProcessing
  PROVE  /\ CommitOutcome = [can |-> TRUE, env |-> MarkGood]
         /\ booted = Old
BY TwoSlots
   DEF noUpdateProcessing, CommitOutcome, pendingApplicationUpdate, pendingFirmwareUpdate,
       pendingApplicationFirmwareUpdate, failedFirmwareUpdate,
       failedRebootFirmwareUpdate, failedApplicationUpdate, Tells, BootTells, Leaving

(* A pending application runs from the old firmware and is confirmed. *)
LEMMA CommitApplication ==
  ASSUME DocumentedClient, TypeOK, Tells, CommitState, env.urs = "INCOMPLETE_APP_UPDATE"
  PROVE  /\ CommitOutcome = [can |-> TRUE, env |-> confirmPendingApplicationUpdate]
         /\ booted = Old /\ phase = "fresh" /\ mounted = env.application
<1>1. booted = Old /\ phase = "fresh" /\ mounted = env.application
  BY TwoSlots DEF Tells, CommitState, BootTells, Leaving, PhaseTells, MountTells,
                  noUpdateProcessing
<1>2. AppCur = 1 /\ env.fw[Old] = 0
  BY DEF Tells, CommitState, ApplicationTells, ApplicationOnTrial, FirmwareTells
<1>3. pendingApplicationUpdate /\ application_reboot
  BY <1>1, <1>2 DEF pendingApplicationUpdate, Uncommitted, FwCur, application_reboot
<1> QED
  BY <1>1, <1>3
     DEF CommitOutcome, pendingApplicationUpdate, pendingFirmwareUpdate,
         pendingApplicationFirmwareUpdate, failedFirmwareUpdate,
         failedRebootFirmwareUpdate, failedApplicationUpdate, noUpdateProcessing,
         Uncommitted, application_reboot, FirmwareConfirmable

(* A pending firmware runs and is confirmed, or was fallen back from. *)
LEMMA CommitFirmware ==
  ASSUME DocumentedClient, TypeOK, Tells, CommitState, env.urs = "INCOMPLETE_FW_UPDATE"
  PROVE  /\ CommitOutcome = [can |-> TRUE, env |-> confirmPendingFirmwareUpdate]
         /\ phase = "fresh"
         /\ \/ booted = Old /\ firmware_update_reboot_failed
            \/ booted = New /\ image[New] = "ran" /\ ~ firmware_update_reboot_failed
<1>1. /\ phase = "fresh" /\ env.order = New
      /\ \/ booted = New /\ image[New] = "ran" /\ env.left[Old] = BootAttempts
         \/ booted = Old /\ env.left[New] = 0
  BY TwoSlots DEF Tells, CommitState, BootTells, Leaving, PhaseTells, StateTells,
                  TypeOK, Images
<1>2. /\ AppCur = 0 /\ AppNext \in {0, 2} /\ env.fw[New] = 1 /\ env.fw[Old] = 0
  BY DEF Tells, CommitState, ApplicationTells, ApplicationOnTrial, FirmwareTells
<1>3. ~ pendingApplicationUpdate /\ pendingFirmwareUpdate
  BY <1>1, <1>2, TwoSlots
     DEF pendingApplicationUpdate, pendingFirmwareUpdate, Uncommitted, FwCur, FwNext
<1>4. \/ booted = Old /\ firmware_update_reboot_failed
      \/ booted = New /\ image[New] = "ran" /\ ~ firmware_update_reboot_failed
  BY <1>1, TwoSlots DEF firmware_update_reboot_failed, Old
<1>5. FirmwareConfirmable
  BY <1>1, <1>4, TwoSlots DEF FirmwareConfirmable, missing_firmware_update_reboot,
                    firmware_update_reboot_successful, Old
<1> QED
  BY <1>1, <1>3, <1>4, <1>5
     DEF CommitOutcome, pendingApplicationUpdate, pendingFirmwareUpdate,
         pendingApplicationFirmwareUpdate, failedFirmwareUpdate,
         failedRebootFirmwareUpdate, failedApplicationUpdate, noUpdateProcessing,
         Uncommitted, application_reboot, FirmwareConfirmable

(* So for a combined update. *)
LEMMA CommitCombined ==
  ASSUME DocumentedClient, TypeOK, Tells, CommitState, env.urs = "INCOMPLETE_APP_FW_UPDATE"
  PROVE  /\ CommitOutcome = [can |-> TRUE, env |-> confirmPendingApplicationFirmwareUpdate]
         /\ phase = "fresh" /\ Combined
         /\ \/ booted = Old /\ firmware_update_reboot_failed
            \/ booted = New /\ image[New] = "ran" /\ ~ firmware_update_reboot_failed
<1>1. /\ phase = "fresh" /\ env.order = New /\ Combined
      /\ \/ booted = New /\ image[New] = "ran" /\ env.left[Old] = BootAttempts
         \/ booted = Old /\ env.left[New] = 0
  BY TwoSlots DEF Tells, CommitState, BootTells, Leaving, PhaseTells, StateTells,
                  TypeOK, Images
<1>2. /\ AppCur = 1 /\ AppNext = 0 /\ env.fw[New] = 1 /\ env.fw[Old] = 0
  BY DEF Tells, CommitState, ApplicationTells, ApplicationOnTrial, FirmwareTells
<1>3. /\ ~ pendingApplicationUpdate /\ ~ pendingFirmwareUpdate
      /\ pendingApplicationFirmwareUpdate
  BY <1>1, <1>2, TwoSlots
     DEF pendingApplicationUpdate, pendingFirmwareUpdate,
         pendingApplicationFirmwareUpdate, Uncommitted, FwCur, FwNext
<1>4. \/ booted = Old /\ firmware_update_reboot_failed
      \/ booted = New /\ image[New] = "ran" /\ ~ firmware_update_reboot_failed
  BY <1>1, TwoSlots DEF firmware_update_reboot_failed, Old
<1>5. FirmwareConfirmable
  BY <1>1, <1>4, TwoSlots DEF FirmwareConfirmable, missing_firmware_update_reboot,
                    firmware_update_reboot_successful, Old
<1> QED
  BY <1>1, <1>3, <1>4, <1>5
     DEF CommitOutcome, pendingApplicationUpdate, pendingFirmwareUpdate,
         pendingApplicationFirmwareUpdate, failedFirmwareUpdate,
         failedRebootFirmwareUpdate, failedApplicationUpdate, noUpdateProcessing,
         Uncommitted, application_reboot, FirmwareConfirmable

(* A failed firmware installation is recognised and its slot marked. *)
LEMMA CommitFailedFirmware ==
  ASSUME DocumentedClient, TypeOK, Tells, CommitState, env.urs = "FAILED_FW_UPDATE"
  PROVE  /\ CommitOutcome = [can |-> TRUE, env |-> confirmFailedFirmwareUpdate]
         /\ booted = Old
<1>1. booted = Old
  BY DEF Tells, BootTells, Leaving
<1>2. AppNext \in {0, 2} /\ env.fw[New] = 1
  BY DEF Tells, ApplicationTells, ApplicationOnTrial, FirmwareTells
<1>3. failedFirmwareUpdate
  BY <1>1, <1>2, TwoSlots DEF failedFirmwareUpdate, Uncommitted, FwNext
<1> QED
  BY <1>1, <1>3
     DEF CommitOutcome, pendingApplicationUpdate, pendingFirmwareUpdate,
         pendingApplicationFirmwareUpdate, failedFirmwareUpdate,
         failedRebootFirmwareUpdate, failedApplicationUpdate, noUpdateProcessing,
         Uncommitted, application_reboot, FirmwareConfirmable

(* So for a failed application installation. *)
LEMMA CommitFailedApplication ==
  ASSUME DocumentedClient, TypeOK, Tells, CommitState, env.urs = "FAILED_APP_UPDATE"
  PROVE  /\ CommitOutcome = [can |-> TRUE, env |-> confirmFailedApplicationeUpdate]
         /\ booted = Old
<1>1. booted = Old
  BY DEF Tells, BootTells, Leaving
<1>2. AppNext = 1 /\ env.fw[New] \in {0, 2}
  BY DEF Tells, ApplicationTells, ApplicationOnTrial, FirmwareTells
<1>3. failedApplicationUpdate
  BY <1>1, <1>2, TwoSlots DEF failedApplicationUpdate, Uncommitted, FwNext
<1> QED
  BY <1>1, <1>3
     DEF CommitOutcome, pendingApplicationUpdate, pendingFirmwareUpdate,
         pendingApplicationFirmwareUpdate, failedFirmwareUpdate,
         failedRebootFirmwareUpdate, failedApplicationUpdate, noUpdateProcessing,
         Uncommitted, application_reboot, FirmwareConfirmable

(* An announced rollback is confirmed in the slot it led to. *)
LEMMA CommitRollback ==
  ASSUME DocumentedClient, TypeOK, Tells, CommitState,
         env.urs \in {"INCOMPLETE_FW_ROLLBACK", "INCOMPLETE_APP_ROLLBACK"}
  PROVE  /\ CommitOutcome = [can |-> TRUE, env |-> confirmUpdateRollback]
         /\ phase = "fresh" /\ mounted = env.application
         /\ env.urs = "INCOMPLETE_APP_ROLLBACK" => booted = Old
         /\ env.urs = "INCOMPLETE_FW_ROLLBACK" =>
              /\ booted = IF env.fw[New] = 1 THEN Old ELSE New
              /\ image[New] = "ran"
<1>1. pendingUpdateRollback
  BY DEF pendingUpdateRollback
<1>2. CommitOutcome = [can |-> TRUE, env |-> confirmUpdateRollback]
  BY <1>1 DEF CommitOutcome, pendingApplicationUpdate, pendingFirmwareUpdate,
                    pendingApplicationFirmwareUpdate, failedFirmwareUpdate,
                    failedRebootFirmwareUpdate, failedApplicationUpdate, noUpdateProcessing
<1>3. phase = "fresh" /\ mounted = env.application
  BY DEF CommitState, Tells, PhaseTells, MountTells, noUpdateProcessing
<1>4. env.urs = "INCOMPLETE_APP_ROLLBACK" => booted = Old
  BY DEF Tells, BootTells, Leaving
<1>5. env.urs = "INCOMPLETE_FW_ROLLBACK" =>
              /\ booted = IF env.fw[New] = 1 THEN Old ELSE New
              /\ image[New] = "ran"
  BY <1>3 DEF Tells, BootTells, FirmwareTells
<1> QED
  BY <1>2, <1>3, <1>4, <1>5

(* The state commit_update leaves behind: idle, one order, the running     *)
(* firmware and the named application committed.                           *)
Settled ==
  /\ env'.urs = "NO_UPDATE_REBOOT_PENDING"
  /\ env'.order = booted /\ env'.orderOld = booted /\ image[booted] = "ran"
  /\ env'.fw[booted] = 0 /\ env'.fw[Other(booted)] \in {0, 2}
  /\ ~ Combined /\ env'.fw[Other(booted)] = 0 => image[Other(booted)] = "ran"
  /\ env'.app[env'.application] = 0 /\ env'.app[Other(env'.application)] \in {0, 2}
  /\ env'.left[Other(booted)] = BootAttempts /\ env'.left[booted] >= 1
  /\ noUpdateProcessing \/ phase = "settled" => env'.left[booted] = BootAttempts
  /\ ~ Combined => mounted = env'.application

(* The states commit_update may find. *)
LEMMA CommitStates ==
  ASSUME TypeOK, Tells, CommitState
  PROVE  env.urs \in { "NO_UPDATE_REBOOT_PENDING", "INCOMPLETE_APP_UPDATE",
                       "INCOMPLETE_FW_UPDATE", "INCOMPLETE_APP_FW_UPDATE",
                       "FAILED_FW_UPDATE", "FAILED_APP_UPDATE",
                       "INCOMPLETE_APP_ROLLBACK", "INCOMPLETE_FW_ROLLBACK" }
BY DEF CommitState, RollbackPending, Tells, StateTells, TypeOK, EnvType, RebootStates

(* None of them makes it throw. *)
LEMMA CommitPossible ==
  ASSUME DocumentedClient, TypeOK, Tells, CommitState
  PROVE  CommitOutcome.can
<1>1. CASE noUpdateProcessing
  BY <1>1, CommitIdle
<1> QED
  BY <1>1, CommitStates, CommitApplication, CommitFirmware, CommitCombined,
     CommitFailedFirmware, CommitFailedApplication, CommitRollback
     DEF noUpdateProcessing

(* Whatever it finds, it leaves the board settled. *)
LEMMA CommitSettles ==
  ASSUME DocumentedClient, TypeOK, Tells, CommitState, env' = CommitOutcome.env
  PROVE  Settled
<1> USE TwoSlots DEF Tells
<1>1. CASE noUpdateProcessing
  <2>1. env' = MarkGood /\ booted = Old
    BY <1>1, CommitIdle
  <2>2. /\ env.urs = "NO_UPDATE_REBOOT_PENDING" /\ env.order = Old
        /\ env.left[New] = BootAttempts
        /\ ~ Combined => mounted = env.application
    BY <1>1 DEF noUpdateProcessing, StateTells, Leaving, CountersTell, MountTells
  <2>3. /\ env.fw[New] \in {0, 2} /\ AppCur = 0 /\ AppNext \in {0, 2}
        /\ env.fw[Old] = 0 /\ image[Old] = "ran"
        /\ ~ Combined /\ env.fw[New] = 0 => image[New] = "ran"
    BY <2>2 DEF FirmwareTells, ApplicationTells, ApplicationOnTrial
  <2> QED
    BY <2>1, <2>2, <2>3
       DEF Settled, MarkGood, TypeOK, EnvType, AppCur, AppNext, BootAttempts, Old
<1>2. CASE env.urs = "INCOMPLETE_APP_UPDATE"
  <2>1. /\ env' = confirmPendingApplicationUpdate
        /\ booted = Old /\ phase = "fresh" /\ mounted = env.application
    BY <1>2, CommitApplication
  <2>2. env.order = Old /\ env.left[New] = BootAttempts /\ env.left[Old] >= 1
    BY <1>2, <2>1 DEF StateTells, Leaving, CountersTell, AttemptsLeft, TypeOK, EnvType
  <2>3. /\ env.fw[New] \in {0, 2} /\ AppNext = 0
        /\ env.fw[Old] = 0 /\ image[Old] = "ran"
        /\ ~ Combined /\ env.fw[New] = 0 => image[New] = "ran"
    BY <1>2 DEF CommitState, FirmwareTells, ApplicationTells, ApplicationOnTrial
  <2> QED
    BY <1>2, <2>1, <2>2, <2>3
       DEF Settled, confirmPendingApplicationUpdate, Idle, TypeOK, EnvType, AppNext,
           STATE_UPDATE_COMMITED, noUpdateProcessing, Old
<1>3. CASE env.urs = "INCOMPLETE_FW_UPDATE"
  <2>1. /\ env' = confirmPendingFirmwareUpdate /\ phase = "fresh"
        /\ \/ booted = Old /\ firmware_update_reboot_failed
           \/ booted = New /\ image[New] = "ran" /\ ~ firmware_update_reboot_failed
    BY <1>3, CommitFirmware
  <2>2. /\ env.order = New /\ env.fw[Old] = 0 /\ image[Old] = "ran"
        /\ AppCur = 0 /\ AppNext \in {0, 2}
        /\ ~ Combined => mounted = env.application
    BY <1>3 DEF CommitState, StateTells, Leaving, FirmwareTells, ApplicationTells,
                ApplicationOnTrial, MountTells
  <2>3. CASE booted = Old /\ firmware_update_reboot_failed
    <3>1. env' = Idle(BackToOldOrder([env EXCEPT !.fw[New] = STATE_UPDATE_BAD]))
      BY <2>1, <2>3 DEF confirmPendingFirmwareUpdate
    <3> QED
      BY <2>1, <2>2, <2>3, <3>1
         DEF Settled, Idle, BackToOldOrder, FullCounters, STATE_UPDATE_BAD, BootAttempts,
             TypeOK, EnvType, AppCur, AppNext, Old
  <2>4. CASE booted = New /\ image[New] = "ran" /\ ~ firmware_update_reboot_failed
    <3>1. env' = Idle(KeepNewOrder([env EXCEPT !.fw[New] = STATE_UPDATE_COMMITED]))
      BY <2>1, <2>4 DEF confirmPendingFirmwareUpdate
    <3> QED
      BY <2>1, <2>2, <2>4, <3>1
         DEF Settled, Idle, KeepNewOrder, FullCounters, STATE_UPDATE_COMMITED, BootAttempts,
             TypeOK, EnvType, AppCur, AppNext
  <2> QED
    BY <2>1, <2>3, <2>4
<1>4. CASE env.urs = "INCOMPLETE_APP_FW_UPDATE"
  <2>1. /\ env' = confirmPendingApplicationFirmwareUpdate
        /\ phase = "fresh" /\ Combined
        /\ \/ booted = Old /\ firmware_update_reboot_failed
           \/ booted = New /\ image[New] = "ran" /\ ~ firmware_update_reboot_failed
    BY <1>4, CommitCombined
  <2>2. /\ env.order = New /\ env.fw[Old] = 0 /\ image[Old] = "ran" /\ AppNext = 0
    BY <1>4 DEF CommitState, StateTells, Leaving, FirmwareTells, ApplicationTells,
                ApplicationOnTrial
  <2>3. CASE booted = Old /\ firmware_update_reboot_failed
    <3>1. env' = Idle(BackToOldOrder(
                   [env EXCEPT !.app[env.application] = STATE_UPDATE_COMMITED,
                               !.fw[New] = STATE_UPDATE_BAD,
                               !.application = Other(env.application)]))
      BY <2>1, <2>3 DEF confirmPendingApplicationFirmwareUpdate
    <3> QED
      BY <2>1, <2>2, <2>3, <3>1
         DEF Settled, Idle, BackToOldOrder, FullCounters, STATE_UPDATE_BAD,
             STATE_UPDATE_COMMITED, BootAttempts, TypeOK, EnvType, AppNext, Old
  <2>4. CASE booted = New /\ image[New] = "ran" /\ ~ firmware_update_reboot_failed
    <3>1. env' = Idle(KeepNewOrder(
                   [env EXCEPT !.fw[New] = STATE_UPDATE_COMMITED,
                               !.app[env.application] = STATE_UPDATE_COMMITED]))
      BY <2>1, <2>4 DEF confirmPendingApplicationFirmwareUpdate
    <3> QED
      BY <2>1, <2>2, <2>4, <3>1
         DEF Settled, Idle, KeepNewOrder, FullCounters, STATE_UPDATE_COMMITED, BootAttempts,
             TypeOK, EnvType, AppNext
  <2> QED
    BY <2>1, <2>3, <2>4
<1>5. CASE env.urs = "FAILED_FW_UPDATE"
  <2>1. env' = confirmFailedFirmwareUpdate /\ booted = Old
    BY <1>5, CommitFailedFirmware
  <2>2. /\ env.order = Old /\ env.left[New] = BootAttempts /\ env.left[Old] >= 1
        /\ phase = "settled" => env.left[Old] = BootAttempts
        /\ ~ Combined => mounted = env.application
    BY <1>5 DEF CommitState, StateTells, Leaving, CountersTell, AttemptsLeft, MountTells,
                TypeOK, EnvType, BootAttempts
  <2>3. /\ AppCur = 0 /\ AppNext \in {0, 2} /\ env.fw[Old] = 0 /\ image[Old] = "ran"
    BY <1>5 DEF FirmwareTells, ApplicationTells, ApplicationOnTrial
  <2> QED
    BY <1>5, <2>1, <2>2, <2>3
       DEF Settled, confirmFailedFirmwareUpdate, Idle, TypeOK, EnvType, AppCur, AppNext,
           STATE_UPDATE_BAD, noUpdateProcessing, Old
<1>6. CASE env.urs = "FAILED_APP_UPDATE"
  <2>1. env' = confirmFailedApplicationeUpdate /\ booted = Old
    BY <1>6, CommitFailedApplication
  <2>2. /\ env.order = Old /\ env.left[New] = BootAttempts /\ env.left[Old] >= 1
        /\ phase = "settled" => env.left[Old] = BootAttempts
        /\ ~ Combined => mounted = env.application
    BY <1>6 DEF CommitState, StateTells, Leaving, CountersTell, AttemptsLeft, MountTells,
                TypeOK, EnvType, BootAttempts
  <2>3. /\ AppCur = 0 /\ env.fw[Old] = 0 /\ image[Old] = "ran" /\ env.fw[New] \in {0, 2}
        /\ ~ Combined /\ env.fw[New] = 0 => image[New] = "ran"
    BY <1>6 DEF FirmwareTells, ApplicationTells, ApplicationOnTrial
  <2> QED
    BY <1>6, <2>1, <2>2, <2>3
       DEF Settled, confirmFailedApplicationeUpdate, Idle, TypeOK, EnvType, AppCur,
           STATE_UPDATE_BAD, noUpdateProcessing, Old
<1>7. CASE env.urs = "INCOMPLETE_APP_ROLLBACK"
  <2>1. /\ env' = confirmUpdateRollback
        /\ phase = "fresh" /\ mounted = env.application /\ booted = Old
    BY <1>7, CommitRollback
  <2>2. env' = Idle(IF AppNext = 1
                    THEN [env EXCEPT !.app[Other(env.application)] = 2] ELSE env)
    BY <1>7, <2>1 DEF confirmUpdateRollback, ApplicationRolledBack,
                      STATE_UPDATE_UNCOMMITED, STATE_UPDATE_BAD
  <2>3. env.order = Old /\ env.left[New] = BootAttempts /\ env.left[Old] >= 1
    BY <1>7, <2>1 DEF StateTells, Leaving, CountersTell, AttemptsLeft, TypeOK, EnvType
  <2>4. /\ AppCur = 0 /\ AppNext \in {0, 1} /\ env.fw[New] \in {0, 2}
        /\ env.fw[Old] = 0 /\ image[Old] = "ran"
        /\ ~ Combined /\ env.fw[New] = 0 => image[New] = "ran"
    BY <1>7 DEF CommitState, FirmwareTells, ApplicationTells, ApplicationOnTrial
  <2> QED
    BY <1>7, <2>1, <2>2, <2>3, <2>4
       DEF Settled, Idle, TypeOK, EnvType, AppCur, AppNext, noUpdateProcessing, Old
<1>8. CASE env.urs = "INCOMPLETE_FW_ROLLBACK"
  <2>1. /\ env' = confirmUpdateRollback
        /\ phase = "fresh" /\ mounted = env.application
        /\ booted = IF env.fw[New] = 1 THEN Old ELSE New
        /\ image[New] = "ran"
    BY <1>8, CommitRollback
  <2>2. env' = Idle(IF FwNext = 0 THEN KeepNewOrder(env)
                    ELSE BackToOldOrder([env EXCEPT !.fw[Other(booted)] = 2]))
    BY <1>8, <2>1 DEF confirmUpdateRollback, FirmwareRolledBack,
                      STATE_UPDATE_COMMITED, STATE_UPDATE_BAD
  <2>3. /\ env.order = New /\ AppCur = 0 /\ AppNext \in {0, 2} /\ env.fw[New] \in {0, 1}
        /\ env.fw[Old] = 0 /\ image[Old] = "ran"
    BY <1>8 DEF CommitState, FirmwareTells, ApplicationTells, ApplicationOnTrial,
                StateTells, Leaving
  <2>4. CASE env.fw[New] = 1
    <3>1. env' = Idle(BackToOldOrder([env EXCEPT !.fw[New] = 2])) /\ booted = Old
      BY <2>1, <2>2, <2>4 DEF FwNext
    <3> QED
      BY <2>1, <2>3, <2>4, <3>1
         DEF Settled, Idle, BackToOldOrder, FullCounters, BootAttempts,
             TypeOK, EnvType, AppCur, AppNext, Old
  <2>5. CASE env.fw[New] = 0
    <3>1. env' = Idle(KeepNewOrder(env)) /\ booted = New
      BY <2>1, <2>2, <2>3, <2>5 DEF FwNext
    <3> QED
      BY <2>1, <2>3, <2>5, <3>1
         DEF Settled, Idle, KeepNewOrder, FullCounters, BootAttempts,
             TypeOK, EnvType, AppCur, AppNext
  <2> QED
    BY <2>3, <2>4, <2>5
<1> QED
  BY <1>1, <1>2, <1>3, <1>4, <1>5, <1>6, <1>7, <1>8, CommitStates DEF noUpdateProcessing

(* What a call of commit_update does, and that it returns. *)
LEMMA CommitCalled ==
  ASSUME DocumentedClient, TypeOK, Tells, staged = "nothing", commit_update
  PROVE  /\ CommitState /\ env' = CommitOutcome.env /\ CommitOutcome.can /\ Settled
         /\ last' = [call |-> "commit_update", res |-> CommitResult]
         /\ CommitResult \in {"true", "false"}
<1>1. CommitState
  BY DEF commit_update, CanRead, CallsNow, MayCommit, DocumentedClient, Tells,
         PhaseTells, CommitState, TypeOK, Phases
<1>2. CommitOutcome.can
  BY <1>1, CommitPossible
<1> QED
  BY <1>1, <1>2, CommitSettles DEF commit_update, Flushed, Return, CommitResult

(* The state of a settled board tells everything else. *)
LEMMA CommitTells ==
  ASSUME DocumentedClient, TypeOK, Tells, staged = "nothing", TypeOK',
         commit_update
  PROVE  Tells'
<1>1. /\ CommitState /\ Settled /\ last'.res # "throw" /\ last'.call = "commit_update"
      /\ UNCHANGED <<booted, mounted, up, image, job, stage>>
  BY CommitCalled DEF commit_update, Board
<1>2. /\ phase' \in {"fresh", "settled"}
      /\ phase' = "settled" => env'.left[booted] = BootAttempts
  <2>1. phase' = IF phase = "fresh" /\ CommitResult # "true" THEN "settled" ELSE phase
    BY DEF commit_update, DocumentedClient
  <2>2. CommitResult # "true" => noUpdateProcessing
    BY CommitCalled DEF CommitResult
  <2> QED
    BY <1>1, <2>1, <2>2 DEF CommitState, Settled
<1>3. /\ Old' = booted /\ New' = Other(booted) /\ ~ Leaving' /\ Other(booted) # booted
  BY <1>1, TwoSlots DEF Settled, Old, New, Leaving
<1>4. InstallationTells' /\ StateTells'
  BY <1>1, <1>3 DEF CommitState, Settled, Tells, InstallationTells, StateTells
<1>5. FirmwareTells' /\ ApplicationTells'
  BY <1>1, <1>3 DEF CommitState, Settled, FirmwareTells, ApplicationTells,
                    ApplicationOnTrial, AppCur, AppNext
<1>6. PhaseTells' /\ BootTells'
  BY <1>1, <1>2, <1>3 DEF CommitState, Settled, PhaseTells, RollbackPending, BootTells
<1>7. CountersTell'
  BY <1>1, <1>2, <1>3 DEF Settled, CountersTell, AttemptsLeft, BootAttempts
<1>8. MountTells' /\ LastTells'
  BY <1>1, <1>2 DEF Settled, MountTells, noUpdateProcessing, LastTells, CommitNeverThrows
<1> QED
  BY <1>4, <1>5, <1>6, <1>7, <1>8 DEF Tells

-----------------------------------------------------------------------------
(* The rollbacks. *)

(* rollback_firmware finds an uncommitted update only after its reboot. *)
LEMMA RollbackUncommittedFirmwareSteps ==
  ASSUME DocumentedClient, TypeOK, Tells, staged = "nothing", RollbackUncommittedFirmware
  PROVE  /\ env.urs = "INCOMPLETE_FW_UPDATE" /\ phase = "fresh" /\ ~ Combined
         /\ up /\ stage = "idle" /\ env.order = New
         /\ \/ booted = Old /\ env.left[New] = 0 /\ env' = env
            \/ /\ booted = New /\ image[New] = "ran" /\ env.left[Old] = BootAttempts
               /\ env' = [env EXCEPT !.left[New] = 0, !.urs = "ROLLBACK_FW_REBOOT_PENDING"]
<1> USE TwoSlots
<1>1. up /\ stage = "idle" /\ phase # "changed" /\ ~ Combined
  BY DEF RollbackUncommittedFirmware, RollbackAnswers, CanRead, CallsNow, DocumentedClient
<1>2. ~ pendingApplicationFirmwareUpdate
  BY <1>1 DEF pendingApplicationFirmwareUpdate, Tells, StateTells
<1>3. env.urs = "INCOMPLETE_FW_UPDATE" /\ env' = firmware_rollback
  BY <1>2 DEF RollbackUncommittedFirmware, pendingFirmwareUpdate, Rolled, Flushed,
              pendingApplicationFirmwareUpdate
<1>4. phase = "fresh" /\ env.order = New
  BY <1>1, <1>3 DEF Tells, PhaseTells, StateTells, Leaving, TypeOK, Phases
<1>5. \/ booted = Old /\ env.left[New] = 0
      \/ booted = New /\ image[New] = "ran" /\ env.left[Old] = BootAttempts
  <2>1. image[New] \in {"ran", "new", "broken"}
    BY <1>1, <1>3 DEF Tells, BootTells, Leaving, TypeOK, Images
  <2> QED
    BY <1>1, <1>3, <1>4, <2>1 DEF Tells, BootTells
<1>6. ~ missing_firmware_update_reboot
  BY <1>4, <1>5 DEF missing_firmware_update_reboot
<1>7. firmware_update_reboot_successful <=> booted = New
  BY <1>4 DEF firmware_update_reboot_successful, Old
<1> QED
  BY <1>1, <1>3, <1>4, <1>5, <1>6, <1>7 DEF firmware_rollback

(* Either nothing is left to take back, or the next boot falls back. *)
LEMMA RollbackUncommittedFirmwareTells ==
  ASSUME DocumentedClient, TypeOK, Tells, staged = "nothing", TypeOK',
         RollbackUncommittedFirmware
  PROVE  Tells'
<1> USE TwoSlots DEF Tells
<1>1. /\ phase' = "changed" /\ last' = [call |-> "rollback_firmware", res |-> "ok"]
      /\ UNCHANGED <<booted, mounted, up, image, job, stage>>
  BY DEF RollbackUncommittedFirmware, Rolled, Return, Board
<1>2. /\ env.urs = "INCOMPLETE_FW_UPDATE" /\ phase = "fresh" /\ ~ Combined
      /\ up /\ stage = "idle" /\ env.order = New
      /\ env.fw[New] = 1 /\ AppCur = 0 /\ AppNext \in {0, 2}
  BY RollbackUncommittedFirmwareSteps
     DEF FirmwareTells, ApplicationTells, ApplicationOnTrial
<1>3. CASE booted = Old /\ env.left[New] = 0 /\ env' = env
  <2>1. InstallationTells' /\ StateTells'
    BY <1>1, <1>2, <1>3 DEF InstallationTells, StateTells, Leaving, Old, New
  <2>2. FirmwareTells' /\ ApplicationTells'
    BY <1>1, <1>2, <1>3 DEF FirmwareTells, ApplicationTells, ApplicationOnTrial,
                            AppCur, AppNext, Old, New
  <2>3. PhaseTells' /\ BootTells'
    BY <1>1, <1>2, <1>3 DEF PhaseTells, RollbackPending, BootTells, Leaving, BootAttempts,
                            Full, TypeOK, Images, Old, New
  <2>4. CountersTell' /\ MountTells' /\ LastTells'
    BY <1>1, <1>2, <1>3 DEF CountersTell, Leaving, MountTells, LastTells, CommitNeverThrows
  <2> QED
    BY <2>1, <2>2, <2>3, <2>4
<1>4. CASE /\ booted = New /\ image[New] = "ran" /\ env.left[Old] = BootAttempts
           /\ env' = [env EXCEPT !.left[New] = 0, !.urs = "ROLLBACK_FW_REBOOT_PENDING"]
  <2>1. /\ env'.fw = env.fw /\ env'.app = env.app /\ env'.application = env.application
        /\ env'.urs = "ROLLBACK_FW_REBOOT_PENDING"
        /\ env'.order = env.order /\ env'.orderOld = env.orderOld
        /\ env'.left[New] = 0 /\ env'.left[Old] = BootAttempts
    BY <1>4 DEF TypeOK, EnvType
  <2>2. InstallationTells' /\ StateTells'
    BY <1>1, <1>2, <2>1 DEF InstallationTells, StateTells, Leaving, Old, New
  <2>3. FirmwareTells' /\ ApplicationTells'
    BY <1>1, <1>2, <1>4, <2>1 DEF FirmwareTells, ApplicationTells, ApplicationOnTrial,
                            AppCur, AppNext, Old, New
  <2>4. PhaseTells' /\ BootTells'
    BY <1>1, <1>2, <1>4, <2>1 DEF PhaseTells, RollbackPending, BootTells, Leaving, Old, New
  <2>5. CountersTell' /\ MountTells' /\ LastTells'
    BY <1>1, <1>2, <2>1 DEF CountersTell, Leaving, MountTells, LastTells, CommitNeverThrows
  <2> QED
    BY <2>2, <2>3, <2>4, <2>5
<1> QED
  BY <1>3, <1>4, RollbackUncommittedFirmwareSteps

(* A switch to the other firmware starts from a settled board, and the     *)
(* other firmware has run.                                                 *)
LEMMA SwitchFirmwareSteps ==
  ASSUME DocumentedClient, TypeOK, Tells, staged = "nothing", SwitchFirmware
  PROVE  /\ env.urs = "NO_UPDATE_REBOOT_PENDING" /\ phase = "settled" /\ ~ Combined
         /\ up /\ stage = "idle" /\ booted = Old /\ env.order = Old
         /\ env.fw[New] = 0 /\ image[New] = "ran" /\ Full
         /\ env' = [env EXCEPT !.order = New, !.orderOld = Old,
                               !.urs = "ROLLBACK_FW_REBOOT_PENDING"]
<1> USE TwoSlots
<1>1. /\ up /\ stage = "idle" /\ phase # "changed" /\ ~ Combined
      /\ env.urs = "NO_UPDATE_REBOOT_PENDING" => phase # "fresh"
      /\ env.urs \notin ApplicationStates
      /\ ~ pendingFirmwareUpdate /\ ~ pendingUpdateRollback
      /\ ~ Uncommitted(FwNext) /\ ~ Bad(FwNext)
  BY DEF SwitchFirmware, RollbackAnswers, CanRead, CallsNow, DocumentedClient,
         noUpdateProcessing
<1>2. env.urs # "INCOMPLETE_FW_UPDATE"
  <2>1. SUFFICES ASSUME env.urs = "INCOMPLETE_FW_UPDATE" PROVE pendingFirmwareUpdate
    BY <1>1
  <2>2. AppCur = 0 /\ AppNext \in {0, 2} /\ env.fw[New] = 1
    BY <2>1 DEF Tells, ApplicationTells, ApplicationOnTrial, FirmwareTells
  <2> QED
    BY <2>1, <2>2 DEF pendingFirmwareUpdate, Uncommitted, FwCur, FwNext
<1>3. env.urs # "FAILED_FW_UPDATE"
  <2>1. SUFFICES ASSUME env.urs = "FAILED_FW_UPDATE" PROVE Uncommitted(FwNext)
    BY <1>1
  <2>2. env.fw[New] = 1 /\ booted = Old
    BY <2>1 DEF Tells, FirmwareTells, BootTells, Leaving
  <2> QED
    BY <2>2 DEF Uncommitted, FwNext
<1>4. env.urs \notin {"INCOMPLETE_FW_ROLLBACK", "INCOMPLETE_APP_FW_ROLLBACK"}
  BY <1>1 DEF pendingUpdateRollback
<1>5. env.urs = "NO_UPDATE_REBOOT_PENDING"
  BY <1>1, <1>2, <1>3, <1>4 DEF ApplicationStates, Tells, StateTells, PhaseTells,
       RollbackPending, TypeOK, EnvType, RebootStates
<1>6. phase = "settled" /\ booted = Old /\ env.order = Old
  BY <1>1, <1>5 DEF TypeOK, Phases, Tells, BootTells, Leaving, StateTells
<1>7. Full
  BY <1>5, <1>6 DEF Full, Tells, CountersTell, Leaving, AttemptsLeft, TypeOK, EnvType,
                    BootAttempts
<1>8. env.fw[New] = 0
  BY <1>1, <1>5, <1>6 DEF Tells, FirmwareTells, Bad, FwNext
<1>9. image[New] = "ran"
  BY <1>1, <1>8 DEF Tells, FirmwareTells
<1>10. env' = [env EXCEPT !.order = New, !.orderOld = Old,
                          !.urs = "ROLLBACK_FW_REBOOT_PENDING"]
  BY <1>6 DEF SwitchFirmware, Rolled, Flushed
<1> QED
  BY <1>1, <1>5, <1>6, <1>7, <1>8, <1>9, <1>10

(* After the switch the other firmware leads BOOT_ORDER. *)
LEMMA SwitchFirmwareTells ==
  ASSUME DocumentedClient, TypeOK, Tells, staged = "nothing", TypeOK',
         SwitchFirmware
  PROVE  Tells'
<1> USE TwoSlots DEF Tells
<1>1. /\ phase' = "changed" /\ last' = [call |-> "rollback_firmware", res |-> "ok"]
      /\ UNCHANGED <<booted, mounted, up, image, job, stage>>
  BY DEF SwitchFirmware, Rolled, Return, Board
<1>2. /\ env.urs = "NO_UPDATE_REBOOT_PENDING" /\ ~ Combined
      /\ up /\ stage = "idle" /\ booted = Old
      /\ env.fw[New] = 0 /\ image[New] = "ran" /\ Full
      /\ AppCur = 0 /\ AppNext \in {0, 2} /\ mounted = env.application
  BY SwitchFirmwareSteps DEF ApplicationTells, ApplicationOnTrial, MountTells
<1>3. /\ env'.fw = env.fw /\ env'.app = env.app /\ env'.application = env.application
      /\ env'.urs = "ROLLBACK_FW_REBOOT_PENDING"
      /\ env'.order = New /\ env'.orderOld = env.orderOld /\ env'.left = env.left
  BY SwitchFirmwareSteps DEF TypeOK, EnvType, Old
<1>4. InstallationTells' /\ StateTells'
  BY <1>1, <1>2, <1>3 DEF InstallationTells, StateTells, Leaving, Old, New
<1>5. FirmwareTells' /\ ApplicationTells'
  BY <1>1, <1>2, <1>3 DEF FirmwareTells, ApplicationTells, ApplicationOnTrial,
                          AppCur, AppNext, Old, New
<1>6. PhaseTells' /\ BootTells'
  BY <1>1, <1>2, <1>3 DEF PhaseTells, RollbackPending, BootTells, Leaving, Full, Old, New
<1>7. CountersTell' /\ MountTells' /\ LastTells'
  BY <1>1, <1>2, <1>3 DEF CountersTell, Leaving, MountTells, LastTells, CommitNeverThrows
<1> QED
  BY <1>4, <1>5, <1>6, <1>7

(* rollback_application finds an uncommitted update only after its reboot. *)
LEMMA RollbackUncommittedApplicationSteps ==
  ASSUME DocumentedClient, TypeOK, Tells, staged = "nothing", RollbackUncommittedApplication
  PROVE  /\ env.urs = "INCOMPLETE_APP_UPDATE" /\ phase = "fresh"
         /\ up /\ stage = "idle" /\ booted = Old /\ mounted = env.application
         /\ env' = [env EXCEPT !.application = Other(env.application),
                               !.urs = "ROLLBACK_APP_REBOOT_PENDING"]
<1>1. /\ up /\ stage = "idle" /\ phase # "changed"
      /\ env.urs \notin CombinedStates
  BY DEF RollbackUncommittedApplication, RollbackAnswers, CanRead, CallsNow,
         DocumentedClient
<1>2. pendingApplicationUpdate /\ env.urs = "INCOMPLETE_APP_UPDATE"
  BY <1>1 DEF RollbackUncommittedApplication, pendingApplicationUpdate,
              pendingApplicationFirmwareUpdate, CombinedStates
<1>3. /\ phase = "fresh" /\ booted = Old /\ mounted = env.application
  BY <1>1, <1>2 DEF Tells, PhaseTells, BootTells, Leaving, MountTells,
                    noUpdateProcessing, TypeOK, Phases
<1>4. env' = applicaton_rollback
  BY <1>2 DEF RollbackUncommittedApplication, Rolled, Flushed, pendingApplicationUpdate
<1> QED
  BY <1>1, <1>2, <1>3, <1>4
     DEF applicaton_rollback, application_reboot, SwitchApplication, TypeOK, EnvType

(* Taking it back names the committed application again. *)
LEMMA RollbackUncommittedApplicationTells ==
  ASSUME DocumentedClient, TypeOK, Tells, staged = "nothing", TypeOK',
         RollbackUncommittedApplication
  PROVE  Tells'
<1> USE TwoSlots DEF Tells
<1>1. /\ phase' = "changed" /\ last' = [call |-> "rollback_application", res |-> "ok"]
      /\ UNCHANGED <<booted, mounted, up, image, job, stage>>
  BY DEF RollbackUncommittedApplication, Rolled, Return, Board
<1>2. /\ env.urs = "INCOMPLETE_APP_UPDATE" /\ phase = "fresh"
      /\ up /\ stage = "idle" /\ booted = Old
      /\ AppCur = 1 /\ AppNext = 0 /\ env.order = Old
      /\ env.left[New] = BootAttempts /\ env.left[Old] >= 2
  BY RollbackUncommittedApplicationSteps
     DEF ApplicationTells, ApplicationOnTrial, StateTells, Leaving, CountersTell,
         AttemptsLeft
<1>3. /\ env'.fw = env.fw /\ env'.application = Other(env.application)
      /\ AppCur' = AppNext /\ AppNext' = AppCur
      /\ env'.urs = "ROLLBACK_APP_REBOOT_PENDING"
      /\ env'.order = env.order /\ env'.orderOld = env.orderOld /\ env'.left = env.left
  BY RollbackUncommittedApplicationSteps DEF TypeOK, EnvType, AppCur, AppNext
<1>4. InstallationTells' /\ StateTells'
  BY <1>1, <1>2, <1>3 DEF InstallationTells, StateTells, Leaving, Old, New
<1>5. FirmwareTells' /\ ApplicationTells'
  BY <1>1, <1>2, <1>3 DEF FirmwareTells, ApplicationTells, ApplicationOnTrial, Old, New
<1>6. PhaseTells' /\ BootTells'
  BY <1>1, <1>2, <1>3 DEF PhaseTells, RollbackPending, BootTells, Leaving, Old, New
<1>7. CountersTell' /\ MountTells' /\ LastTells'
  BY <1>1, <1>2, <1>3 DEF CountersTell, Leaving, AttemptsLeft, MountTells,
                          noUpdateProcessing, LastTells, CommitNeverThrows, Old, New
<1> QED
  BY <1>4, <1>5, <1>6, <1>7

(* A switch to the other application starts from a settled board. *)
LEMMA SwitchToOtherApplicationSteps ==
  ASSUME DocumentedClient, TypeOK, Tells, staged = "nothing", SwitchToOtherApplication
  PROVE  /\ env.urs = "NO_UPDATE_REBOOT_PENDING" /\ phase = "settled"
         /\ up /\ stage = "idle" /\ booted = Old /\ env.order = Old /\ Full
         /\ AppCur = 0 /\ AppNext = 0
         /\ env' = [env EXCEPT !.application = Other(env.application),
                               !.urs = "ROLLBACK_APP_REBOOT_PENDING"]
<1> USE TwoSlots
<1>1. /\ up /\ stage = "idle" /\ phase # "changed"
      /\ env.urs = "NO_UPDATE_REBOOT_PENDING" => phase # "fresh"
      /\ env.urs \notin FirmwareStates \cup CombinedStates
      /\ ~ pendingApplicationUpdate /\ ~ pendingUpdateRollback
      /\ ~ Uncommitted(AppNext) /\ ~ Bad(AppNext)
  BY DEF SwitchToOtherApplication, RollbackAnswers, CanRead, CallsNow, DocumentedClient,
         noUpdateProcessing
<1>2. env.urs # "INCOMPLETE_APP_UPDATE"
  <2>1. SUFFICES ASSUME env.urs = "INCOMPLETE_APP_UPDATE" PROVE pendingApplicationUpdate
    BY <1>1
  <2>2. AppCur = 1 /\ env.fw[Old] = 0 /\ booted = Old
    BY <1>1, <2>1 DEF Tells, ApplicationTells, ApplicationOnTrial, FirmwareTells,
                      BootTells, Leaving
  <2> QED
    BY <2>1, <2>2 DEF pendingApplicationUpdate, Uncommitted, FwCur
<1>3. env.urs # "FAILED_APP_UPDATE"
  <2>1. SUFFICES ASSUME env.urs = "FAILED_APP_UPDATE" PROVE Uncommitted(AppNext)
    BY <1>1
  <2>2. AppNext = 1
    BY <2>1 DEF Tells, ApplicationTells, ApplicationOnTrial
  <2> QED
    BY <2>2 DEF Uncommitted
<1>4. env.urs # "INCOMPLETE_APP_ROLLBACK"
  BY <1>1 DEF pendingUpdateRollback
<1>5. env.urs = "NO_UPDATE_REBOOT_PENDING"
  BY <1>1, <1>2, <1>3, <1>4 DEF FirmwareStates, CombinedStates, Tells, StateTells,
       PhaseTells, RollbackPending, TypeOK, EnvType, RebootStates
<1>6. phase = "settled" /\ booted = Old /\ env.order = Old
  BY <1>1, <1>5 DEF TypeOK, Phases, Tells, BootTells, Leaving, StateTells
<1>7. Full
  BY <1>5, <1>6 DEF Full, Tells, CountersTell, Leaving, AttemptsLeft, TypeOK, EnvType,
                    BootAttempts
<1>8. AppCur = 0 /\ AppNext = 0
  BY <1>1, <1>5 DEF Tells, ApplicationTells, ApplicationOnTrial, Bad
<1>9. env' = [env EXCEPT !.application = Other(env.application),
                         !.urs = "ROLLBACK_APP_REBOOT_PENDING"]
  BY DEF SwitchToOtherApplication, Rolled, Flushed, SwitchApplication, TypeOK, EnvType
<1> QED
  BY <1>1, <1>5, <1>6, <1>7, <1>8, <1>9

(* After the switch "application" names the other image. *)
LEMMA SwitchToOtherApplicationTells ==
  ASSUME DocumentedClient, TypeOK, Tells, staged = "nothing", TypeOK',
         SwitchToOtherApplication
  PROVE  Tells'
<1> USE TwoSlots DEF Tells
<1>1. /\ phase' = "changed" /\ last' = [call |-> "rollback_application", res |-> "ok"]
      /\ UNCHANGED <<booted, mounted, up, image, job, stage>>
  BY DEF SwitchToOtherApplication, Rolled, Return, Board
<1>2. /\ env.urs = "NO_UPDATE_REBOOT_PENDING" /\ phase = "settled"
      /\ up /\ stage = "idle" /\ booted = Old /\ env.order = Old /\ Full
      /\ AppCur = 0 /\ AppNext = 0
  BY SwitchToOtherApplicationSteps
<1>3. /\ env'.fw = env.fw /\ env'.application = Other(env.application)
      /\ AppCur' = AppNext /\ AppNext' = AppCur
      /\ env'.urs = "ROLLBACK_APP_REBOOT_PENDING"
      /\ env'.order = env.order /\ env'.orderOld = env.orderOld /\ env'.left = env.left
  BY SwitchToOtherApplicationSteps DEF TypeOK, EnvType, AppCur, AppNext
<1>4. InstallationTells' /\ StateTells'
  BY <1>1, <1>2, <1>3 DEF InstallationTells, StateTells, Leaving, Old, New
<1>5. FirmwareTells' /\ ApplicationTells'
  BY <1>1, <1>2, <1>3 DEF FirmwareTells, ApplicationTells, ApplicationOnTrial, Old, New
<1>6. PhaseTells' /\ BootTells'
  BY <1>1, <1>2, <1>3 DEF PhaseTells, RollbackPending, BootTells, Leaving, Old, New
<1>7. CountersTell' /\ MountTells' /\ LastTells'
  BY <1>1, <1>2, <1>3 DEF CountersTell, Leaving, AttemptsLeft, Full, BootAttempts,
        MountTells, noUpdateProcessing, LastTells, CommitNeverThrows, Old, New
<1> QED
  BY <1>4, <1>5, <1>6, <1>7

(* Announcing the reboot of a rollback. *)
LEMMA UpdateRebootStateTells ==
  ASSUME DocumentedClient, TypeOK, Tells, staged = "nothing", TypeOK',
         update_reboot_state
  PROVE  Tells'
<1> USE TwoSlots DEF Tells
<1>1. /\ phase' = "changed" /\ last' = [call |-> "update_reboot_state", res |-> "ok"]
      /\ up /\ stage = "idle" /\ phase = "changed"
      /\ UNCHANGED <<booted, mounted, up, image, job, stage>>
  BY DEF update_reboot_state, CallsNow, Return, Board, PhaseTells
<1>2. \/ /\ env.urs = "ROLLBACK_FW_REBOOT_PENDING"
         /\ env' = [env EXCEPT !.urs = "INCOMPLETE_FW_ROLLBACK"]
      \/ /\ env.urs = "ROLLBACK_APP_REBOOT_PENDING"
         /\ env' = [env EXCEPT !.urs = "INCOMPLETE_APP_ROLLBACK"]
  BY DEF update_reboot_state, Flushed, Applied, RollbackPending, StateTells
<1>3. /\ env'.fw = env.fw /\ env'.app = env.app /\ env'.application = env.application
      /\ env'.order = env.order /\ env'.orderOld = env.orderOld /\ env'.left = env.left
      /\ \/ /\ env.urs = "ROLLBACK_FW_REBOOT_PENDING"
            /\ env'.urs = "INCOMPLETE_FW_ROLLBACK"
         \/ /\ env.urs = "ROLLBACK_APP_REBOOT_PENDING"
            /\ env'.urs = "INCOMPLETE_APP_ROLLBACK"
  BY <1>2 DEF TypeOK, EnvType
<1>4. InstallationTells' /\ StateTells'
  BY <1>1, <1>3 DEF InstallationTells, StateTells, Leaving, Old, New
<1>5. FirmwareTells' /\ ApplicationTells'
  BY <1>1, <1>3 DEF FirmwareTells, ApplicationTells, ApplicationOnTrial, AppCur, AppNext,
                    Old, New
<1>6. PhaseTells' /\ BootTells'
  BY <1>1, <1>3 DEF PhaseTells, RollbackPending, BootTells, Leaving, Old, New
<1>7. CountersTell' /\ MountTells' /\ LastTells'
  BY <1>1, <1>3 DEF CountersTell, Leaving, AttemptsLeft, MountTells,
                          noUpdateProcessing, LastTells, CommitNeverThrows, Old, New
<1> QED
  BY <1>4, <1>5, <1>6, <1>7

(* A call other than commit_update that throws. *)
LEMMA ThrowTells ==
  ASSUME DocumentedClient, TypeOK, Tells, NEW c \in AllCalls, c # "commit_update",
         Throw(c), UNCHANGED phase
  PROVE  Tells'
<1> USE DEF Tells
<1>1. /\ last' = [call |-> c, res |-> "throw"]
      /\ UNCHANGED <<env, booted, mounted, up, image, job, stage, phase>>
  BY DEF Throw, Return
<1>2. InstallationTells' /\ StateTells'
  BY <1>1 DEF InstallationTells, StateTells, Leaving, Full, Old, New
<1>3. FirmwareTells' /\ ApplicationTells'
  BY <1>1 DEF FirmwareTells, ApplicationTells, ApplicationOnTrial, AppCur, AppNext, Old, New
<1>4. PhaseTells' /\ BootTells'
  BY <1>1 DEF PhaseTells, BootTells, Leaving, Full, Old, New
<1>5. CountersTell' /\ MountTells' /\ LastTells'
  BY <1>1 DEF CountersTell, Leaving, AttemptsLeft, MountTells, noUpdateProcessing,
              LastTells, CommitNeverThrows, Old, New
<1> QED
  BY <1>2, <1>3, <1>4, <1>5

-----------------------------------------------------------------------------
(* The board and its boot loader. *)

(* The board goes down in a state the boot loader can go on from. *)
LEMMA RebootTells ==
  ASSUME DocumentedClient, TypeOK, Tells, TypeOK', Reboot
  PROVE  Tells'
<1> USE DEF Tells
<1>1. /\ up /\ stage = "idle" /\ phase # "fresh" /\ env.urs \notin RollbackPending
      /\ up' = FALSE
      /\ UNCHANGED <<env, booted, mounted, image, job, stage, phase, last>>
  BY DEF Reboot, DocumentedClient
<1>2. InstallationTells' /\ StateTells'
  BY <1>1 DEF InstallationTells, StateTells, Leaving, Full, Old, New
<1>3. FirmwareTells' /\ ApplicationTells'
  BY <1>1 DEF FirmwareTells, ApplicationTells, ApplicationOnTrial, AppCur, AppNext, Old, New
<1>4. PhaseTells' /\ BootTells'
  BY <1>1 DEF PhaseTells, BootTells, Leaving, Full, Old, New
<1>5. CountersTell' /\ MountTells' /\ LastTells'
  BY <1>1 DEF CountersTell, Leaving, AttemptsLeft, MountTells, noUpdateProcessing,
              LastTells, CommitNeverThrows, Old, New
<1> QED
  BY <1>2, <1>3, <1>4, <1>5

(* The slot a boot attempt selects: Old, unless New leads and has attempts *)
(* left; and New then boots unless its image is broken.                    *)
LEMMA BootSelects ==
  ASSUME DocumentedClient, TypeOK, Tells, BootAttempt
  PROVE  /\ ~ up /\ stage = "idle" /\ env.urs \notin RollbackPending
         /\ phase \in {"settled", "changed"} /\ FallbackFlag = env.urs
         /\ Leaving => phase = "changed" /\ env.urs # "ROLLBACK_FW_REBOOT_PENDING"
         /\ Selected = IF Leaving /\ env.left[New] > 0 THEN New ELSE Old
         /\ env.left[Selected] > 0 /\ image[Old] = "ran"
         /\ env' = [env EXCEPT !.left[Selected] = @ - 1]
<1> USE TwoSlots
<1>1. /\ ~ up /\ stage = "idle" /\ env.urs \notin RollbackPending
      /\ phase \in {"settled", "changed"}
  BY DEF BootAttempt, Tells, InstallationTells, PhaseTells, TypeOK, Phases
<1>2. FallbackFlag = env.urs
  BY DEF FallbackFlag, DocumentedClient
<1>3. Leaving => phase = "changed" /\ env.urs # "ROLLBACK_FW_REBOOT_PENDING"
  BY <1>1 DEF Leaving, Tells, PhaseTells, RollbackPending
<1>4. ~ Leaving => env.left[Old] > 0
  BY DEF Tells, CountersTell, AttemptsLeft, TypeOK, EnvType
<1>5. env.order = IF Leaving THEN New ELSE Old
  BY DEF Tells, StateTells
<1>6. Selected = IF Leaving /\ env.left[New] > 0 THEN New ELSE Old
  BY <1>4, <1>5 DEF Selected, Leaving
<1>7. env' = [env EXCEPT !.left[Selected] = @ - 1]
  BY <1>2 DEF BootAttempt, TypeOK, EnvType
<1>8. env.left[Selected] > 0 /\ image[Old] = "ran"
  BY DEF BootAttempt, Tells, FirmwareTells
<1> QED
  BY <1>1, <1>2, <1>3, <1>6, <1>7, <1>8

(* Whatever the boot loader selects, the environment still tells what      *)
(* runs.                                                                   *)
LEMMA BootAttemptTells ==
  ASSUME DocumentedClient, TypeOK, Tells, TypeOK', BootAttempt
  PROVE  Tells'
<1> USE TwoSlots DEF Tells
<1>1. /\ ~ up /\ stage = "idle" /\ env.urs \notin RollbackPending
      /\ phase \in {"settled", "changed"}
      /\ Leaving => phase = "changed" /\ env.urs # "ROLLBACK_FW_REBOOT_PENDING"
      /\ image[Old] = "ran" /\ env.left[Selected] > 0
      /\ UNCHANGED <<job, stage, last>>
  BY BootSelects DEF BootAttempt
<1>2. /\ env'.fw = env.fw /\ env'.app = env.app /\ env'.application = env.application
      /\ env'.order = env.order /\ env'.orderOld = env.orderOld /\ env'.urs = env.urs
      /\ Old' = Old /\ New' = New
  BY BootSelects DEF TypeOK, EnvType, Old, New
<1>3. ApplicationTells'
  BY <1>1, <1>2 DEF ApplicationTells, ApplicationOnTrial, AppCur, AppNext
<1>4. InstallationTells' /\ StateTells'
  BY <1>1, <1>2 DEF InstallationTells, StateTells, Leaving
<1>5. CASE Selected = Old
  <2>1. /\ env'.left[Old] = env.left[Old] - 1 /\ env'.left[New] = env.left[New]
        /\ env.left[Old] > 0
    BY <1>1, <1>5, BootSelects DEF TypeOK, EnvType
  <2>2. Leaving => env.left[New] = 0
    BY <1>5, BootSelects DEF Leaving, TypeOK, EnvType
  <2>3. /\ up' = TRUE /\ booted' = Old /\ mounted' = env.application
        /\ image'[Old] = "ran" /\ image'[New] = image[New] /\ phase' = "fresh"
    BY <1>1, <1>5 DEF BootAttempt, TypeOK
  <2>4. FirmwareTells'
    BY <1>2, <2>1, <2>2, <2>3 DEF FirmwareTells
  <2>5. PhaseTells'
    BY <1>1, <1>2, <2>1, <2>2, <2>3 DEF PhaseTells
  <2>6. BootTells'
    BY <1>1, <1>2, <2>1, <2>2, <2>3 DEF BootTells, Leaving, Full, TypeOK, Images, BootAttempts
  <2>7. CountersTell'
    BY <1>1, <1>2, <2>1, <2>2, <2>3 DEF CountersTell, Leaving, AttemptsLeft, PhaseTells, StateTells,
          RollbackPending, TypeOK, EnvType, RebootStates
  <2>8. MountTells' /\ LastTells'
    BY <1>1, <1>2, <2>1, <2>2, <2>3 DEF MountTells, noUpdateProcessing, LastTells, CommitNeverThrows
  <2> QED
    BY <1>3, <1>4, <2>4, <2>5, <2>6, <2>7, <2>8
<1>6. CASE Selected # Old
  <2>1. Selected = New /\ Leaving /\ env.left[New] > 0 /\ phase = "changed"
    BY <1>1, <1>6, BootSelects
  <2>2. env'.left[New] = env.left[New] - 1 /\ env'.left[Old] = env.left[Old]
    BY <2>1, BootSelects DEF TypeOK, EnvType
  <2>3. CASE image[New] \in {"broken", "partial"}
    <3>1. UNCHANGED <<booted, mounted, up, image, phase>>
      BY <2>1, <2>3 DEF BootAttempt
    <3>2. FirmwareTells' /\ PhaseTells'
      BY <1>1, <1>2, <3>1 DEF FirmwareTells, PhaseTells
    <3>3. BootTells'
      BY <1>1, <1>2, <2>1, <2>3, <3>1
         DEF BootTells, FirmwareTells, Leaving, RollbackPending
    <3>4. CountersTell' /\ MountTells' /\ LastTells'
      BY <1>1, <1>2, <2>1, <3>1 DEF CountersTell, Leaving, MountTells, noUpdateProcessing,
                                    LastTells, CommitNeverThrows
    <3> QED
      BY <1>3, <1>4, <3>2, <3>3, <3>4
  <2>4. CASE image[New] \notin {"broken", "partial"}
    <3>1. /\ up' = TRUE /\ booted' = New /\ mounted' = env.application
          /\ image'[New] = "ran" /\ image'[Old] = image[Old] /\ phase' = "fresh"
      BY <2>1, <2>4 DEF BootAttempt, TypeOK
    <3>2. FirmwareTells'
      BY <1>1, <1>2, <3>1 DEF FirmwareTells
    <3>3. PhaseTells'
      BY <1>1, <1>2, <3>1 DEF PhaseTells
    <3>4. env.urs # "INCOMPLETE_FW_ROLLBACK" => Full
      BY <1>1, <2>1, <2>4 DEF BootTells, Leaving, TypeOK, Images
    <3>5. env.urs = "INCOMPLETE_FW_ROLLBACK" => env.fw[New] = 0
      BY <2>1 DEF BootTells, FirmwareTells
    <3>6. BootTells'
      BY <1>1, <1>2, <2>1, <2>2, <3>1, <3>4, <3>5
         DEF BootTells, Leaving, Full, RollbackPending
    <3>7. CountersTell' /\ MountTells' /\ LastTells'
      BY <1>1, <1>2, <2>1, <3>1 DEF CountersTell, Leaving, MountTells, noUpdateProcessing,
                                    LastTells, CommitNeverThrows
    <3> QED
      BY <1>3, <1>4, <3>2, <3>3, <3>6, <3>7
  <2> QED
    BY <2>3, <2>4
<1> QED
  BY <1>5, <1>6

(* The counters run out only under an order that New leads. *)
LEMMA ResetCountersTells ==
  ASSUME DocumentedClient, TypeOK, Tells, TypeOK', ResetCounters
  PROVE  Tells'
<1> USE TwoSlots DEF Tells
<1>1. /\ ~ up /\ stage = "idle" /\ phase # "fresh" /\ env.left[New] = 0
      /\ env.left[Old] = 0
      /\ UNCHANGED <<booted, mounted, up, image, job, stage, phase, last>>
  BY DEF ResetCounters, Board, PhaseTells, InstallationTells
<1>2. /\ env'.fw = env.fw /\ env'.app = env.app /\ env'.application = env.application
      /\ env'.order = env.order /\ env'.orderOld = env.orderOld /\ env'.urs = env.urs
      /\ env'.left[Old] = BootAttempts /\ env'.left[New] = BootAttempts
      /\ Old' = Old /\ New' = New
  BY DEF ResetCounters, FullCounters, TypeOK, EnvType, Old, New
<1>3. Leaving
  BY <1>1 DEF CountersTell, BootAttempts
<1>4. InstallationTells' /\ StateTells'
  BY <1>1, <1>2 DEF InstallationTells, StateTells, Leaving
<1>5. FirmwareTells' /\ ApplicationTells'
  BY <1>1, <1>2 DEF FirmwareTells, ApplicationTells, ApplicationOnTrial, AppCur, AppNext
<1>6. PhaseTells' /\ BootTells'
  BY <1>1, <1>2, <1>3 DEF PhaseTells, BootTells, Leaving, Full, BootAttempts
<1>7. CountersTell' /\ MountTells' /\ LastTells'
  BY <1>1, <1>2, <1>3 DEF CountersTell, Leaving, AttemptsLeft, MountTells,
                          noUpdateProcessing, LastTells, CommitNeverThrows
<1> QED
  BY <1>4, <1>5, <1>6, <1>7

-----------------------------------------------------------------------------
(* What the documented client and its faults rule out altogether. *)
LEMMA NeverHappens ==
  ASSUME DocumentedClient, TypeOK, Tells
  PROVE  /\ ~ (\E c \in AllCalls : ReadRejected(c))
         /\ ~ CombinedUpdateNotStarted /\ ~ TakeBackFails /\ ~ SyncFails
         /\ ~ FirmwareFailureUnrecorded
         /\ ~ ApplicationNotMarked /\ ~ ApplicationFailureUnrecorded
         /\ ~ (\E s \in Slots, id \in {0, 1} : set_update_state_bad(s, id))
         /\ ~ PowerFails
BY UpdateBitsValid
   DEF ReadRejected, CombinedUpdateNotStarted, TakeBackFails, SyncFails,
       FirmwareFailureUnrecorded, ApplicationNotMarked, ApplicationFailureUnrecorded,
       set_update_state_bad, CanRead, CallsNow, PowerFails, DocumentedClient

(* PInv is inductive. *)
LEMMA ClientCallTells ==
  ASSUME DocumentedClient, TypeOK, Tells, staged = "nothing", TypeOK',
         ClientCall
  PROVE  Tells'
<1>1. CASE \E c \in UpdateCalls : decorator_update_state(c)
  BY <1>1, ThrowTells DEF decorator_update_state, UpdateCalls, AllCalls
<1>2. CASE update_firmware
  BY <1>2, BeginFirmwareTells DEF update_firmware, CanRead, CallsNow
<1>3. CASE update_firmware_and_application
  BY <1>3, BeginFirmwareTells
     DEF update_firmware_and_application, CanRead, CallsNow, Combined
<1>4. CASE update_application
  BY <1>4, UpdateApplicationTells
<1>5. CASE commit_update
  BY <1>5, CommitTells
<1>6. CASE rollback_firmware
  BY <1>6, RollbackUncommittedFirmwareTells, SwitchFirmwareTells, ThrowTells
     DEF rollback_firmware, RollbackFirmwareRefused, AllCalls
<1>7. CASE rollback_application
  BY <1>7, RollbackUncommittedApplicationTells, SwitchToOtherApplicationTells, ThrowTells
     DEF rollback_application, RollbackApplicationRefused, AllCalls
<1>8. CASE update_reboot_state
  BY <1>8, UpdateRebootStateTells
<1> QED
  BY <1>1, <1>2, <1>3, <1>4, <1>5, <1>6, <1>7, <1>8, NeverHappens DEF ClientCall

(* PInv is inductive. *)
LEMMA NextPInv ==
  ASSUME DocumentedClient, PInv, [Next]_vars
  PROVE  PInv'
<1> USE DEF PInv
<1>1. TypeOK' /\ staged' = "nothing"
  BY NextType, StagesNothing DEF DocumentedClient
<1>2. CASE ClientCall
  BY <1>1, <1>2, ClientCallTells
<1>3. CASE Installation
  BY <1>1, <1>3, NeverHappens, RaucWriteTells, RaucActivateTells, installBundleFailsTells,
     FirmwareInstallFailedTells, FirmwareInstalledTells,
     FirmwareInstalledApplicationNextTells, ApplicationInstalledTells,
     ApplicationInstallFailsTells, ApplicationInstallFailedTells
     DEF Installation
<1>4. CASE BoardStep
  BY <1>1, <1>4, NeverHappens, RebootTells, BootAttemptTells, ResetCountersTells
     DEF BoardStep
<1>5. CASE UNCHANGED vars
  <2>1. InstallationTells' /\ StateTells'
    BY <1>5 DEF vars, Tells, InstallationTells, StateTells, Leaving, Full, Old, New
  <2>2. FirmwareTells' /\ ApplicationTells'
    BY <1>5 DEF vars, Tells, FirmwareTells, ApplicationTells, ApplicationOnTrial,
                AppCur, AppNext, Old, New
  <2>3. PhaseTells' /\ BootTells'
    BY <1>5 DEF vars, Tells, PhaseTells, BootTells, Leaving, Full, Old, New
  <2>4. CountersTell' /\ MountTells' /\ LastTells'
    BY <1>5 DEF vars, Tells, CountersTell, Leaving, AttemptsLeft, MountTells,
                noUpdateProcessing, LastTells, CommitNeverThrows, Full, Old, New
  <2> QED
    BY <1>1, <2>1, <2>2, <2>3, <2>4 DEF Tells
<1> QED
  BY <1>2, <1>3, <1>4, <1>5 DEF Next

(* PInv holds as the board leaves production. *)
LEMMA InitialPInv == ASSUME Init PROVE PInv
<1>1. TypeOK /\ staged = "nothing"
  BY InitialType DEF Init
<1>2. /\ env.urs = "NO_UPDATE_REBOOT_PENDING" /\ env.order = Old /\ booted = Old
      /\ env.fw[Old] = 0 /\ env.fw[New] = 0 /\ AppCur = 0 /\ AppNext = 0
      /\ Full /\ mounted = env.application /\ up /\ job = "none" /\ stage = "idle"
      /\ image[Old] = "ran" /\ image[New] = "ran" /\ phase = "settled"
      /\ last = [call |-> "commit_update", res |-> "false"]
      /\ env.left[Old] = BootAttempts /\ env.left[New] = BootAttempts
  BY <1>1, TwoSlots
     DEF Init, FactoryEnv, Full, AppCur, AppNext, STATE_UPDATE_COMMITED, Slots, Other,
         Old, New
<1>3. InstallationTells /\ StateTells /\ FirmwareTells /\ ApplicationTells
  BY <1>2 DEF InstallationTells, StateTells, Leaving, FirmwareTells, ApplicationTells,
              ApplicationOnTrial
<1>4. PhaseTells /\ BootTells
  BY <1>2 DEF PhaseTells, RollbackPending, BootTells, Leaving
<1>5. CountersTell /\ MountTells /\ LastTells
  BY <1>2 DEF CountersTell, AttemptsLeft, BootAttempts, MountTells, noUpdateProcessing,
              LastTells, CommitNeverThrows
<1> QED
  BY <1>1, <1>3, <1>4, <1>5 DEF PInv, Tells

(* PInv holds in every reachable state. *)
LEMMA InductivePInv == DocumentedClient => (Spec => []PInv)
<1> SUFFICES ASSUME DocumentedClient PROVE Spec => []PInv
  OBVIOUS
<1>1. PInv /\ [Next]_vars => PInv'
  BY NextPInv
<1> QED
  BY <1>1, InitialPInv, PTL DEF Spec

-----------------------------------------------------------------------------
(* Safety. *)

(* For a client that keeps to the documented order of calls, whichever     *)
(* installation and whichever image fails: once update_reboot_state is     *)
(* idle again, every firmware and application slot is committed or bad.    *)
THEOREM DocumentedIdleClean == DocumentedClient => (Spec => []IdleClean)
<1> SUFFICES ASSUME DocumentedClient PROVE Spec => []IdleClean
  OBVIOUS
<1>1. ASSUME PInv PROVE IdleClean
  <2>1. /\ Slots = {Old, New} /\ Slots = {env.application, Other(env.application)}
    BY <1>1, TwoSlots DEF PInv, Slots
  <2>2. noUpdateProcessing =>
          /\ env.fw[Old] = 0 /\ env.fw[New] \in {0, 2}
          /\ AppCur = 0 /\ AppNext \in {0, 2}
    BY <1>1 DEF PInv, Tells, noUpdateProcessing, FirmwareTells, ApplicationTells,
                ApplicationOnTrial
  <2> QED
    BY <2>1, <2>2 DEF IdleClean, Uncommitted, AppCur, AppNext
<1> QED
  BY <1>1, InductivePInv, PTL

(* For such a client an idle board runs the first slot of BOOT_ORDER, and  *)
(* that slot has booted before: no confirmation and no failure handler     *)
(* leaves the order at a firmware that was never tried.                    *)
THEOREM DocumentedIdleBoots == DocumentedClient => (Spec => []IdleBoots)
<1> SUFFICES ASSUME DocumentedClient PROVE Spec => []IdleBoots
  OBVIOUS
<1>1. ASSUME PInv PROVE IdleBoots
  BY <1>1 DEF PInv, Tells, IdleBoots, noUpdateProcessing, StateTells, FirmwareTells,
              BootTells, Leaving
<1> QED
  BY <1>1, InductivePInv, PTL

(* For such a client the slot U-Boot falls back to always holds a firmware *)
(* that has run: no installation is ever started in it.                    *)
THEOREM DocumentedFallbackRuns == DocumentedClient => (Spec => []FallbackRuns)
<1> SUFFICES ASSUME DocumentedClient PROVE Spec => []FallbackRuns
  OBVIOUS
<1>1. ASSUME PInv PROVE FallbackRuns
  BY <1>1 DEF PInv, Tells, FallbackRuns, FirmwareTells, Old
<1> QED
  BY <1>1, InductivePInv, PTL

(* For such a client a failed installation keeps the running system: the   *)
(* next boot selects the firmware that runs, and "application" does not    *)
(* name the slot that was being written.                                   *)
THEOREM DocumentedFailedInstallKeepsSystem ==
  DocumentedClient => (Spec => []FailedInstallKeepsSystem)
<1> SUFFICES ASSUME DocumentedClient PROVE Spec => []FailedInstallKeepsSystem
  OBVIOUS
<1>1. ASSUME PInv PROVE FailedInstallKeepsSystem
  <2> SUFFICES ASSUME env.urs \in {"FAILED_FW_UPDATE", "FAILED_APP_UPDATE"}
               PROVE  Selected = booted /\ ~ Uncommitted(AppCur)
    BY DEF FailedInstallKeepsSystem
  <2>1. env.order = Old /\ booted = Old /\ env.left[Old] > 0
    BY <1>1 DEF PInv, Tells, StateTells, BootTells, Leaving, CountersTell, AttemptsLeft,
                TypeOK, EnvType, Old
  <2>2. AppCur = 0
    BY <1>1 DEF PInv, Tells, ApplicationTells, ApplicationOnTrial
  <2> QED
    BY <2>1, <2>2 DEF Selected, Uncommitted
<1> QED
  BY <1>1, InductivePInv, PTL

(* For such a client commit_update never throws: in every state it may be  *)
(* called in, one of its questions is answered yes and the confirmation    *)
(* behind it accepts.                                                      *)
THEOREM DocumentedCommitNeverThrows == DocumentedClient => (Spec => []CommitNeverThrows)
<1> SUFFICES ASSUME DocumentedClient PROVE Spec => []CommitNeverThrows
  OBVIOUS
<1>1. PInv => CommitNeverThrows
  BY DEF PInv, Tells, LastTells
<1> QED
  BY <1>1, InductivePInv, PTL

(* For such a client that updates firmware and application separately,     *)
(* is_reboot_complete does not report the reboot of an update that still   *)
(* waits for it.  With combined updates this is false: a fallback takes    *)
(* the application back while the new one stays mounted until the next     *)
(* boot.                                                                   *)
THEOREM SeparateRebootReportedTruthfully ==
  DocumentedClient /\ ~ Combined => (Spec => []RebootReportedTruthfully)
<1> SUFFICES ASSUME DocumentedClient, ~ Combined PROVE Spec => []RebootReportedTruthfully
  OBVIOUS
<1>1. ASSUME PInv PROVE RebootReportedTruthfully
  <2> SUFFICES ASSUME up, stage = "idle", phase = "changed", last.res = "ok"
               PROVE  /\ last.call \in {"update_firmware", "update_firmware_and_application"}
                           => ~ firmware_reboot
                      /\ last.call = "update_application" => ~ application_reboot
    BY DEF RebootReportedTruthfully
  <2> USE <1>1, TwoSlots DEF PInv, Tells
  <2>1. last.call # "update_firmware_and_application"
    BY DEF LastTells
  <2>2. ASSUME last.call = "update_firmware" PROVE ~ firmware_reboot
    <3>1. env.urs = "INCOMPLETE_FW_UPDATE" /\ booted = Old /\ Full /\ env.order = New
      BY <2>2 DEF LastTells, StateTells, Leaving
    <3> QED
      BY <3>1 DEF firmware_reboot, missing_firmware_update_reboot, Full, BootAttempts, Old
  <2>3. ASSUME last.call = "update_application" PROVE ~ application_reboot
    BY <2>3 DEF LastTells, MountTells, application_reboot
  <2> QED
    BY <2>1, <2>2, <2>3
<1> QED
  BY <1>1, InductivePInv, PTL

-----------------------------------------------------------------------------
(* Action properties. *)

(* For such a client rollback_firmware of an uncommitted update makes the  *)
(* next boot select the slot the update started from.                      *)
THEOREM DocumentedRollbackReturns == DocumentedClient => (Spec => RollbackReturns)
<1> SUFFICES ASSUME DocumentedClient PROVE Spec => RollbackReturns
  OBVIOUS
<1>1. ASSUME PInv, RollbackUncommittedFirmware PROVE Selected' = env.orderOld
  <2>1. env'.order = New /\ env'.left[New] = 0
    <3>1. /\ env.order = New
          /\ \/ env' = env /\ env.left[New] = 0
             \/ env' = [env EXCEPT !.left[New] = 0, !.urs = "ROLLBACK_FW_REBOOT_PENDING"]
      BY <1>1, RollbackUncommittedFirmwareSteps DEF PInv
    <3>2. CASE env' = [env EXCEPT !.left[New] = 0, !.urs = "ROLLBACK_FW_REBOOT_PENDING"]
      BY <1>1, <3>1, <3>2, TwoSlots DEF PInv, TypeOK, EnvType
    <3> QED
      BY <3>1, <3>2
  <2> QED
    BY <1>1, <2>1, TwoSlots DEF PInv, Selected, Old
<1>2. PInv /\ [Next]_vars => [RollbackUncommittedFirmware => Selected' = env.orderOld]_vars
  BY <1>1
<1> QED
  BY <1>2, InductivePInv, PTL DEF Spec, RollbackReturns

(* For such a client rollback_firmware without an update makes the next    *)
(* boot select the other slot, and that slot holds a firmware that has     *)
(* run.                                                                    *)
THEOREM DocumentedSwitchReachesRunnable == DocumentedClient => (Spec => SwitchReachesRunnable)
<1> SUFFICES ASSUME DocumentedClient PROVE Spec => SwitchReachesRunnable
  OBVIOUS
<1>1. ASSUME PInv, SwitchFirmware
      PROVE  Selected' = Other(booted) /\ image[Other(booted)] = "ran"
  <2>1. env'.order = New /\ env'.left[New] = BootAttempts
    BY <1>1, TwoSlots, SwitchFirmwareSteps DEF PInv, Full, TypeOK, EnvType
  <2>2. booted = Old /\ image[New] = "ran"
    BY <1>1, SwitchFirmwareSteps DEF PInv
  <2> QED
    BY <1>1, <2>1, <2>2, TwoSlots DEF PInv, Selected, BootAttempts
<1>2. PInv /\ [Next]_vars =>
        [SwitchFirmware => /\ Selected' = Other(booted)
                           /\ image[Other(booted)] = "ran"]_vars
  BY <1>1
<1> QED
  BY <1>2, InductivePInv, PTL DEF Spec, SwitchReachesRunnable

(* For such a client commit_update confirms a combined update or takes it  *)
(* back as a whole: "application" names the new application afterwards     *)
(* exactly if the new firmware is the one that runs.                       *)
THEOREM DocumentedCombinedMovesTogether ==
  DocumentedClient => (Spec => CombinedMovesTogether)
<1> SUFFICES ASSUME DocumentedClient PROVE Spec => CombinedMovesTogether
  OBVIOUS
<1>1. ASSUME PInv, commit_update, env.urs = "INCOMPLETE_APP_FW_UPDATE"
      PROVE  Uncommitted(env.fw[booted]) <=> Uncommitted(env.app[env'.application])
  <2>1. CommitState /\ env' = CommitOutcome.env
    BY <1>1, CommitCalled DEF PInv
  <2>2. /\ env' = confirmPendingApplicationFirmwareUpdate
        /\ \/ booted = Old /\ firmware_update_reboot_failed
           \/ booted = New /\ ~ firmware_update_reboot_failed
    BY <1>1, <2>1, CommitCombined DEF PInv
  <2>3. env.fw[Old] = 0 /\ env.fw[New] = 1 /\ AppCur = 1 /\ AppNext = 0
    BY <1>1, <2>1 DEF PInv, Tells, CommitState, FirmwareTells, ApplicationTells,
                      ApplicationOnTrial
  <2>4. env'.application = IF booted = Old THEN Other(env.application)
                           ELSE env.application
    BY <1>1, <2>2, TwoSlots
       DEF PInv, confirmPendingApplicationFirmwareUpdate, Idle, BackToOldOrder,
           KeepNewOrder, TypeOK, EnvType
  <2> QED
    BY <1>1, <2>2, <2>3, <2>4, TwoSlots DEF PInv, Uncommitted, AppCur, AppNext
<1>2. PInv /\ [Next]_vars =>
        [commit_update /\ last'.res = "true" /\ env.urs = "INCOMPLETE_APP_FW_UPDATE"
           => (Uncommitted(env.fw[booted]) <=> Uncommitted(env.app[env'.application]))]_vars
  BY <1>1
<1> QED
  BY <1>2, InductivePInv, PTL DEF Spec, CombinedMovesTogether

-----------------------------------------------------------------------------
(* FSUpdate implements UpdateLifecycle for such a client: its initial      *)
(* states are initial states of the life cycle and every step is a step of *)
(* it or a stutter, under the mapping of FSUpdateLifecycle.                *)

(* The two pairs in terms of the inductive invariant: the application      *)
(* switched when an update of it is on trial or was rolled back from a     *)
(* committed one, and the new firmware is tried while it leads BOOT_ORDER  *)
(* unless its client has already taken it back.                            *)
Switched ==
  \/ env.urs \in {"INCOMPLETE_APP_UPDATE", "INCOMPLETE_APP_FW_UPDATE"}
  \/ env.urs \in {"ROLLBACK_APP_REBOOT_PENDING", "INCOMPLETE_APP_ROLLBACK"} /\ AppNext = 0

Trying ==
  /\ Leaving
  /\ env.urs \in {"ROLLBACK_FW_REBOOT_PENDING", "INCOMPLETE_FW_ROLLBACK"} => env.fw[New] = 0

SystemsAre ==
  /\ TrustedSystem = [fw |-> Old, app |-> IF stage = "idle" /\ Switched
                                          THEN Other(env.application) ELSE env.application]
  /\ TargetSystem = [fw |-> IF stage = "idle" /\ Trying THEN New ELSE Old,
                     app |-> env.application]

(* What is trusted and what is on trial, from the update state. *)
LEMMA Systems == DocumentedClient => (PInv => SystemsAre)
<1> SUFFICES ASSUME DocumentedClient, TypeOK, Tells PROVE SystemsAre
  BY DEF PInv
<1>1. stage = "idle" => (ApplicationSwitched <=> Switched)
  BY DEF ApplicationSwitched, Switched, Tells, ApplicationTells, ApplicationOnTrial, Uncommitted
<1>2. stage = "idle" => (FirmwareWithdrawn <=> Leaving /\ ~ Trying)
  <2>1. env.urs \in {"ROLLBACK_FW_REBOOT_PENDING", "INCOMPLETE_FW_ROLLBACK"} =>
          env.order = New /\ env.fw[New] \in {0, 1}
    BY DEF Tells, FirmwareTells, StateTells, Leaving
  <2> QED
    BY <2>1 DEF FirmwareWithdrawn, Trying, Leaving, Uncommitted
<1>3. env.order = IF Leaving THEN New ELSE Old
  BY DEF Tells, StateTells
<1> QED
  BY <1>1, <1>2, <1>3
     DEF SystemsAre, TrustedSystem, TargetSystem, ApplicationSwitched, Old, Switched,
         Trying, FirmwareWithdrawn, Leaving

(* The same after a step. *)
LEMMA SystemsAfter == ASSUME DocumentedClient, PInv' PROVE SystemsAre'
<1>1. (PInv => SystemsAre)'
  BY Systems, PTL
<1> QED
  BY <1>1

(* A step that changes neither pair, nor what runs, nor the last answer.   *)
LEMMA StutterStep ==
  ASSUME UNCHANGED <<TrustedSystem, TargetSystem, up, booted, mounted, last>>
  PROVE  UNCHANGED Lifecycle!lifecycleVars
BY DEF Lifecycle!lifecycleVars

(* A call that changes neither pair nor what runs. *)
LEMMA AnswerStep ==
  ASSUME TypeOK, up, UNCHANGED <<TrustedSystem, TargetSystem, up, booted, mounted>>
  PROVE  Lifecycle!Next
<1>1. [fw |-> booted, app |-> mounted] # Lifecycle!Down
  BY DEF TypeOK, Slots, Lifecycle!Down
<1> QED
  BY <1>1 DEF Lifecycle!Answer, Lifecycle!Next

(* The installation shows nothing until the call returns. *)
LEMMA HiddenSteps ==
  ASSUME DocumentedClient, PInv, PInv',
         \/ update_firmware \/ update_firmware_and_application \/ update_application
         \/ RaucWrite \/ RaucActivate \/ installBundleFails
         \/ FirmwareInstalledApplicationNext \/ ApplicationInstallFails
  PROVE  UNCHANGED Lifecycle!lifecycleVars
<1>1. /\ env'.orderOld = env.orderOld /\ env'.application = env.application
      /\ UNCHANGED <<booted, mounted, up, last>> /\ stage' # "idle"
  BY DEF PInv, TypeOK, EnvType, update_firmware, update_firmware_and_application,
         BeginFirmware, Flushed, update_application, MarkApplication, RaucWrite, RaucActivate,
         installBundleFails, FirmwareInstalledApplicationNext, ApplicationInstallFails, Board
<1>2. stage = "idle" => env.urs = "NO_UPDATE_REBOOT_PENDING"
  BY DEF update_firmware, update_firmware_and_application,
         BeginFirmware, update_application, RaucWrite, RaucActivate, noUpdateProcessing,
         installBundleFails, FirmwareInstalledApplicationNext, ApplicationInstallFails
<1>3. ~ (stage = "idle" /\ Switched) /\ ~ (stage = "idle" /\ Trying)
  BY <1>2 DEF Switched, Trying, Leaving
<1>4. /\ TrustedSystem = [fw |-> Old, app |-> env.application]
      /\ TargetSystem = [fw |-> Old, app |-> env.application]
  BY <1>3, Systems DEF SystemsAre
<1>5. /\ TrustedSystem' = [fw |-> Old, app |-> env.application]
      /\ TargetSystem' = [fw |-> Old, app |-> env.application]
  BY <1>1, SystemsAfter DEF SystemsAre, Old
<1> QED
  BY <1>1, <1>4, <1>5, StutterStep

(* A failed installation changes neither pair. *)
LEMMA FailedInstallationAnswers ==
  ASSUME DocumentedClient, PInv, PInv', FirmwareInstallFailed \/ ApplicationInstallFailed
  PROVE  Lifecycle!Next
<1>1. /\ env'.orderOld = env.orderOld /\ env'.application = env.application
      /\ env'.urs \in {"FAILED_FW_UPDATE", "FAILED_APP_UPDATE"}
      /\ UNCHANGED <<booted, mounted, up>> /\ stage # "idle" /\ up
  <2>1. CASE FirmwareInstallFailed
    BY <2>1 DEF FirmwareInstallFailed, PInv, Tells, InstallationTells, TypeOK, EnvType, Board
  <2>2. CASE ApplicationInstallFailed
    <3>1. stage = "app_failed"
      BY <2>2 DEF ApplicationInstallFailed, PInv, Tells, InstallationTells
    <3> QED
      BY <2>2, <3>1 DEF ApplicationInstallFailed, AlsoStaged, MarkApplication, PInv, Tells,
                        InstallationTells, TypeOK, EnvType, Board
  <2> QED
    BY <2>1, <2>2
<1>2. /\ TrustedSystem = [fw |-> Old, app |-> env.application]
      /\ TargetSystem = [fw |-> Old, app |-> env.application]
  BY <1>1, Systems DEF SystemsAre
<1>3. /\ TrustedSystem' = [fw |-> Old, app |-> env.application]
      /\ TargetSystem' = [fw |-> Old, app |-> env.application]
  BY <1>1, SystemsAfter DEF SystemsAre, Switched, Trying, Leaving, Old
<1> QED
  BY <1>1, <1>2, <1>3, AnswerStep DEF PInv

(* A pair other than the trusted one is installed. *)
LEMMA InstallStep ==
  ASSUME TypeOK, up, TargetSystem = TrustedSystem, booted = TrustedSystem.fw,
         TrustedSystem' = TrustedSystem, TargetSystem' # TrustedSystem,
         TargetSystem' \in Lifecycle!Systems,
         last'.call \in Lifecycle!Updates \cup Lifecycle!Rollbacks,
         UNCHANGED <<up, booted, mounted>>
  PROVE  Lifecycle!Next
<1>1. ~ Lifecycle!OnTrial
  BY DEF Lifecycle!OnTrial
<1>2. Lifecycle!Install
  BY <1>1 DEF Lifecycle!Install
<1> QED
  BY <1>2 DEF Lifecycle!Next

(* So an installation that returns is an Install of the life cycle. *)
LEMMA InstallationSucceeds ==
  ASSUME DocumentedClient, PInv, PInv', FirmwareInstalled \/ ApplicationInstalled
  PROVE  Lifecycle!Next
<1> USE TwoSlots DEF PInv
<1>1. /\ up /\ booted = Old /\ stage # "idle" /\ stage' = "idle"
      /\ env'.orderOld = env.orderOld /\ env'.urs = env.urs /\ UNCHANGED <<booted, mounted, up>>
      /\ last'.call \in Lifecycle!Updates
  BY DEF FirmwareInstalled, ApplicationInstalled, SwitchApplication, AppCall, Return, Board,
         Tells, InstallationTells, TypeOK, EnvType, Lifecycle!Updates
<1>2. /\ TrustedSystem = [fw |-> Old, app |-> env.application]
      /\ TargetSystem = [fw |-> Old, app |-> env.application]
  BY <1>1, Systems DEF SystemsAre
<1>3. TrustedSystem' = TrustedSystem /\ TargetSystem' # TrustedSystem
  <2>1. CASE FirmwareInstalled
    <3>1. env.urs = "INCOMPLETE_FW_UPDATE" /\ env' = env
      BY <2>1 DEF FirmwareInstalled, Tells, InstallationTells
    <3> QED
      BY <1>1, <1>2, <3>1, SystemsAfter DEF SystemsAre, Switched, Trying, Leaving, Old, New
  <2>2. CASE ApplicationInstalled
    <3>1. /\ env.urs \in {"INCOMPLETE_APP_UPDATE", "INCOMPLETE_APP_FW_UPDATE"}
          /\ env'.application = Other(env.application)
      BY <2>2 DEF ApplicationInstalled, SwitchApplication, Tells, InstallationTells,
                  TypeOK, EnvType
    <3> QED
      BY <1>1, <1>2, <3>1, SystemsAfter DEF SystemsAre, Switched, Old
  <2> QED
    BY <2>1, <2>2
<1>4. TargetSystem' \in Lifecycle!Systems
  <2>1. {Old', New', env'.application} \subseteq Slots
    BY <1>1, OtherSlot DEF TypeOK, EnvType, Old, New
  <2> QED
    BY <2>1, SystemsAfter DEF SystemsAre, Lifecycle!Systems, Lifecycle!Slots, Slots
<1> QED
  BY <1>1, <1>2, <1>3, <1>4, InstallStep

(* A switch to the other slot is one as well. *)
LEMMA SwitchesInstall ==
  ASSUME DocumentedClient, PInv, PInv', SwitchFirmware \/ SwitchToOtherApplication
  PROVE  Lifecycle!Next
<1> USE TwoSlots DEF PInv
<1>1. /\ up /\ stage = "idle" /\ stage' = "idle" /\ booted = Old
      /\ env.urs = "NO_UPDATE_REBOOT_PENDING"
      /\ UNCHANGED <<booted, mounted, up>>
      /\ last'.call \in Lifecycle!Rollbacks
  BY SwitchFirmwareSteps, SwitchToOtherApplicationSteps
     DEF SwitchFirmware, SwitchToOtherApplication, Rolled, Return, Board,
         Lifecycle!Rollbacks
<1>2. /\ TrustedSystem = [fw |-> Old, app |-> env.application]
      /\ TargetSystem = [fw |-> Old, app |-> env.application]
  BY <1>1, Systems DEF SystemsAre, Switched, Trying, Leaving
<1>3. TrustedSystem' = TrustedSystem /\ TargetSystem' # TrustedSystem
  <2>1. CASE SwitchFirmware
    <3>1. /\ env'.fw[New] = 0 /\ env'.application = env.application
          /\ env'.urs = "ROLLBACK_FW_REBOOT_PENDING" /\ env'.orderOld = Old
      BY <2>1, SwitchFirmwareSteps DEF TypeOK, EnvType
    <3> QED
      BY <1>1, <1>2, <3>1, SystemsAfter DEF SystemsAre, Switched, Trying, Leaving, Old, New
  <2>2. CASE SwitchToOtherApplication
    <3>1. /\ env'.application = Other(env.application) /\ AppNext' = 0
          /\ env'.urs = "ROLLBACK_APP_REBOOT_PENDING" /\ env'.orderOld = Old
      BY <2>2, SwitchToOtherApplicationSteps DEF TypeOK, EnvType, AppCur, AppNext, Old
    <3> QED
      BY <1>1, <1>2, <3>1, SystemsAfter DEF SystemsAre, Switched, Old
  <2> QED
    BY <2>1, <2>2
<1>4. TargetSystem' \in Lifecycle!Systems
  <2>1. {Old', New', env'.application} \subseteq Slots
    BY OtherSlot DEF TypeOK, EnvType, Old, New
  <2> QED
    BY <2>1, SystemsAfter DEF SystemsAre, Lifecycle!Systems, Lifecycle!Slots, Slots
<1> QED
  BY <1>1, <1>2, <1>3, <1>4, InstallStep

(* A trial that runs or ran is withdrawn. *)
LEMMA WithdrawStep ==
  ASSUME TypeOK, up, TargetSystem # TrustedSystem,
         TrustedSystem' = TrustedSystem, TargetSystem' = TrustedSystem,
         last'.call \in Lifecycle!Rollbacks,
         UNCHANGED <<up, booted, mounted>>
  PROVE  Lifecycle!Next
<1>1. [fw |-> booted, app |-> mounted] # Lifecycle!Down
  BY DEF TypeOK, Slots, Lifecycle!Down
<1>2. Lifecycle!OnTrial
  BY DEF Lifecycle!OnTrial
<1>3. Lifecycle!Withdraw
  BY <1>1, <1>2 DEF Lifecycle!Withdraw
<1> QED
  BY <1>3 DEF Lifecycle!Next

(* The client takes an update back that runs. *)
LEMMA RollbacksWithdraw ==
  ASSUME DocumentedClient, PInv, PInv',
         RollbackUncommittedFirmware \/ RollbackUncommittedApplication
  PROVE  Lifecycle!Next
<1> USE TwoSlots DEF PInv
<1>1. /\ up /\ stage = "idle" /\ stage' = "idle"
      /\ UNCHANGED <<booted, mounted, up>>
      /\ last'.call \in Lifecycle!Rollbacks
  BY RollbackUncommittedFirmwareSteps, RollbackUncommittedApplicationSteps
     DEF RollbackUncommittedFirmware, RollbackUncommittedApplication, Rolled, Return, Board,
         Lifecycle!Rollbacks
<1>2. CASE RollbackUncommittedFirmware /\ env' = env
  BY <1>1, <1>2, AnswerStep
     DEF TrustedSystem, TargetSystem, ApplicationSwitched, FirmwareWithdrawn, AppNext
<1>3. CASE RollbackUncommittedFirmware /\ env' # env
  <2>1. /\ env.urs = "INCOMPLETE_FW_UPDATE" /\ booted = New /\ env.fw[New] = 1
        /\ env' = [env EXCEPT !.left[New] = 0, !.urs = "ROLLBACK_FW_REBOOT_PENDING"]
    BY <1>3, RollbackUncommittedFirmwareSteps DEF Tells, FirmwareTells
  <2>2. /\ env'.orderOld = env.orderOld /\ env'.application = env.application
        /\ env'.urs = "ROLLBACK_FW_REBOOT_PENDING" /\ env'.fw = env.fw
    BY <2>1 DEF TypeOK, EnvType
  <2>3. /\ TrustedSystem = [fw |-> Old, app |-> env.application]
        /\ TargetSystem = [fw |-> New, app |-> env.application]
    BY <1>1, <2>1, Systems DEF SystemsAre, Switched, Trying, Leaving
  <2>4. /\ TrustedSystem' = [fw |-> Old, app |-> env.application]
        /\ TargetSystem' = [fw |-> Old, app |-> env.application]
    BY <2>1, <2>2, SystemsAfter DEF SystemsAre, Switched, Trying, Leaving, Old, New
  <2> QED
    BY <1>1, <2>3, <2>4, WithdrawStep
<1>4. CASE RollbackUncommittedApplication
  <2>1. /\ env.urs = "INCOMPLETE_APP_UPDATE" /\ AppCur = 1
        /\ env' = [env EXCEPT !.application = Other(env.application),
                              !.urs = "ROLLBACK_APP_REBOOT_PENDING"]
    BY <1>4, RollbackUncommittedApplicationSteps
       DEF Tells, ApplicationTells, ApplicationOnTrial
  <2>2. /\ env'.orderOld = env.orderOld /\ env'.application = Other(env.application)
        /\ env'.urs = "ROLLBACK_APP_REBOOT_PENDING" /\ AppNext' = 1
    BY <2>1 DEF TypeOK, EnvType, AppCur, AppNext
  <2>3. /\ TrustedSystem = [fw |-> Old, app |-> Other(env.application)]
        /\ TargetSystem = [fw |-> Old, app |-> env.application]
    BY <1>1, <2>1, Systems DEF SystemsAre, Switched, Trying, Leaving
  <2>4. /\ TrustedSystem' = [fw |-> Old, app |-> Other(env.application)]
        /\ TargetSystem' = [fw |-> Old, app |-> Other(env.application)]
    BY <2>2, SystemsAfter DEF SystemsAre, Switched, Trying, Leaving, Old
  <2> QED
    BY <1>1, <2>3, <2>4, WithdrawStep
<1> QED
  BY <1>2, <1>3, <1>4

(* Announcing a rollback, and calls that throw. *)
LEMMA OtherCallsAnswer ==
  ASSUME DocumentedClient, PInv, PInv',
         \/ update_reboot_state
         \/ \E c \in AllCalls : CanRead(c) /\ Throw(c)
  PROVE  Lifecycle!Next
<1> USE DEF PInv
<1>1. up /\ stage = "idle" /\ UNCHANGED <<booted, mounted, up>>
  BY DEF update_reboot_state, CanRead, CallsNow, Throw, Board
<1>2. CASE update_reboot_state
  <2>1. /\ stage' = stage
        /\ env'.fw = env.fw /\ env'.app = env.app /\ env'.application = env.application
        /\ env'.orderOld = env.orderOld /\ AppNext' = AppNext
        /\ \/ /\ env.urs = "ROLLBACK_FW_REBOOT_PENDING"
              /\ env'.urs = "INCOMPLETE_FW_ROLLBACK"
           \/ /\ env.urs = "ROLLBACK_APP_REBOOT_PENDING"
              /\ env'.urs = "INCOMPLETE_APP_ROLLBACK"
    BY <1>2 DEF update_reboot_state, Flushed, Applied, RollbackPending, Tells, StateTells,
                TypeOK, EnvType, AppNext
  <2>2. UNCHANGED <<TrustedSystem, TargetSystem>>
    BY <1>1, <2>1, Systems, SystemsAfter
       DEF SystemsAre, Switched, Trying, Leaving, Old, New
  <2> QED
    BY <1>1, <2>2, AnswerStep
<1>3. CASE \E c \in AllCalls : CanRead(c) /\ Throw(c)
  BY <1>1, <1>3, AnswerStep
     DEF Throw, TrustedSystem, TargetSystem, ApplicationSwitched, FirmwareWithdrawn, AppNext
<1> QED
  BY <1>2, <1>3

-----------------------------------------------------------------------------
(* The board. *)
LEMMA RebootStops ==
  ASSUME PInv, Reboot
  PROVE  Lifecycle!Next
<1>1. [fw |-> booted, app |-> mounted] # Lifecycle!Down
  BY DEF PInv, TypeOK, Slots, Lifecycle!Down
<1> QED
  BY <1>1 DEF Reboot, Lifecycle!Stop, Lifecycle!Next, Lifecycle!Down,
     TrustedSystem, TargetSystem, ApplicationSwitched, FirmwareWithdrawn, AppNext

(* A boot runs the pair on trial, or falls back from its firmware; an      *)
(* attempt that fails shows nothing.                                       *)
LEMMA BootLoaderBoots ==
  ASSUME DocumentedClient, PInv, PInv', BootAttempt
  PROVE  Lifecycle!Next \/ UNCHANGED Lifecycle!lifecycleVars
<1> USE TwoSlots DEF PInv
<1>1. /\ ~ up /\ stage = "idle" /\ UNCHANGED <<stage, last>>
      /\ Selected = IF Leaving /\ env.left[New] > 0 THEN New ELSE Old
  BY BootSelects DEF BootAttempt
<1>2. /\ env'.fw = env.fw /\ env'.application = env.application /\ AppNext' = AppNext
      /\ env'.orderOld = env.orderOld /\ env'.urs = env.urs
  BY BootSelects DEF TypeOK, EnvType, AppNext
<1>3. UNCHANGED <<TrustedSystem, TargetSystem>>
  BY <1>1, <1>2, Systems, SystemsAfter DEF SystemsAre, Switched, Trying, Leaving, Old, New
<1>4. CASE image[Selected] \in {"broken", "partial"}
  BY <1>1, <1>3, <1>4, StutterStep DEF BootAttempt
<1>5. CASE image[Selected] \notin {"broken", "partial"}
  <2>1. up' /\ booted' = Selected /\ mounted' = env.application
    BY <1>5 DEF BootAttempt
  <2>2. Selected \in {TargetSystem.fw, Old}
    <3>1. Leaving /\ env.left[New] > 0 => Trying
      BY <1>1, BootSelects DEF Trying, Tells, BootTells, FirmwareTells, Leaving
    <3> QED
      BY <1>1, <3>1, Systems DEF SystemsAre
  <2>3. /\ TrustedSystem.fw = Old /\ TargetSystem.app = env.application
        /\ [TargetSystem EXCEPT !.fw = Old] = [fw |-> Old, app |-> env.application]
        /\ TargetSystem = [fw |-> TargetSystem.fw, app |-> env.application]
    BY Systems DEF SystemsAre
  <2>4. Lifecycle!Boot
    BY <1>1, <1>3, <2>1, <2>2, <2>3 DEF Lifecycle!Boot, Lifecycle!Down
  <2> QED
    BY <2>4 DEF Lifecycle!Next
<1> QED
  BY <1>4, <1>5

(* Nor do the counters. *)
LEMMA ResetHidden ==
  ASSUME DocumentedClient, PInv, PInv', ResetCounters
  PROVE  UNCHANGED Lifecycle!lifecycleVars
<1>1. /\ UNCHANGED <<booted, mounted, up, last, stage>>
      /\ env'.fw = env.fw /\ env'.application = env.application /\ AppNext' = AppNext
      /\ env'.orderOld = env.orderOld /\ env'.urs = env.urs
  BY DEF ResetCounters, Board, PInv, TypeOK, EnvType, AppNext
<1>2. UNCHANGED <<TrustedSystem, TargetSystem>>
  BY <1>1, Systems, SystemsAfter DEF SystemsAre, Switched, Trying, Leaving, Old, New
<1> QED
  BY <1>1, <1>2, StutterStep

-----------------------------------------------------------------------------
(* commit_update confirms the trial that runs, takes back the trial the    *)
(* boot loader fell back from, and otherwise answers.                      *)
LEMMA ConfirmStep ==
  ASSUME TargetSystem # TrustedSystem, up, TargetSystem = [fw |-> booted, app |-> mounted],
         TrustedSystem' = TargetSystem, TargetSystem' = TargetSystem,
         last'.call = "commit_update", UNCHANGED <<up, booted, mounted>>
  PROVE  Lifecycle!Next
<1>1. Lifecycle!OnTrial
  BY DEF Lifecycle!OnTrial
<1>2. Lifecycle!Confirm
  BY <1>1 DEF Lifecycle!Confirm
<1> QED
  BY <1>2 DEF Lifecycle!Next

(* After a fallback. *)
LEMMA TakeBackStep ==
  ASSUME TargetSystem.fw # booted, up, TrustedSystem.fw = booted,
         TrustedSystem' = TrustedSystem, TargetSystem' = TrustedSystem,
         last'.call = "commit_update", UNCHANGED <<up, booted, mounted>>
  PROVE  Lifecycle!Next
<1>1. Lifecycle!OnTrial
  BY DEF Lifecycle!OnTrial
<1>2. Lifecycle!TakeBack
  BY <1>1 DEF Lifecycle!TakeBack
<1> QED
  BY <1>2 DEF Lifecycle!Next

(* What commit_update does about each update state is one of the three. *)
LEMMA CommitDecides ==
  ASSUME DocumentedClient, PInv, PInv', commit_update
  PROVE  Lifecycle!Next
<1> USE TwoSlots DEF PInv
<1>1. /\ CommitState /\ env' = CommitOutcome.env /\ Settled
      /\ last'.call = "commit_update" /\ UNCHANGED <<up, booted, mounted, stage>>
  BY CommitCalled DEF commit_update, Board
<1>2. up /\ stage = "idle" /\ stage' = "idle"
  BY <1>1 DEF CommitState
<1>3. /\ TrustedSystem' = [fw |-> booted, app |-> env'.application]
      /\ TargetSystem' = [fw |-> booted, app |-> env'.application]
  BY <1>1, SystemsAfter DEF SystemsAre, Settled, Switched, Trying, Leaving, Old
<1>4. CASE env.urs \in {"NO_UPDATE_REBOOT_PENDING", "FAILED_FW_UPDATE", "FAILED_APP_UPDATE"}
  <2>1. booted = Old /\ env'.application = env.application
    <3>1. /\ booted = Old
          /\ \/ env' = MarkGood
             \/ env' = confirmFailedFirmwareUpdate
             \/ env' = confirmFailedApplicationeUpdate
      BY <1>1, <1>4, CommitIdle, CommitFailedFirmware, CommitFailedApplication
         DEF noUpdateProcessing
    <3>2. CASE env' = MarkGood
      BY <3>1, <3>2 DEF MarkGood, TypeOK, EnvType
    <3>3. CASE env' = confirmFailedFirmwareUpdate
      BY <3>1, <3>3 DEF confirmFailedFirmwareUpdate, Idle, TypeOK, EnvType
    <3>4. CASE env' = confirmFailedApplicationeUpdate
      BY <3>1, <3>4 DEF confirmFailedApplicationeUpdate, Idle, TypeOK, EnvType
    <3> QED
      BY <3>1, <3>2, <3>3, <3>4
  <2>2. /\ TrustedSystem = [fw |-> Old, app |-> env.application]
        /\ TargetSystem = [fw |-> Old, app |-> env.application]
    BY <1>4, Systems DEF SystemsAre, Switched, Trying, Leaving
  <2> QED
    BY <1>1, <1>2, <1>3, <2>1, <2>2, AnswerStep
<1>5. CASE env.urs = "INCOMPLETE_APP_UPDATE"
  <2>1. booted = Old /\ mounted = env.application /\ env'.application = env.application
    <3>1. /\ booted = Old /\ mounted = env.application
          /\ env' = confirmPendingApplicationUpdate
      BY <1>1, <1>5, CommitApplication
    <3> QED
      BY <3>1 DEF confirmPendingApplicationUpdate, Idle, TypeOK, EnvType
  <2>2. /\ TrustedSystem = [fw |-> Old, app |-> Other(env.application)]
        /\ TargetSystem = [fw |-> Old, app |-> env.application]
    BY <1>2, <1>5, Systems DEF SystemsAre, Switched, Trying, Leaving
  <2> QED
    BY <1>1, <1>2, <1>3, <2>1, <2>2, ConfirmStep
<1>6. CASE env.urs = "INCOMPLETE_FW_UPDATE"
  <2>1. /\ env' = confirmPendingFirmwareUpdate /\ booted \in {Old, New}
        /\ mounted = env.application
    BY <1>1, <1>2, <1>6, CommitFirmware DEF Tells, MountTells, noUpdateProcessing
  <2>2. env'.application = env.application
    BY <2>1 DEF confirmPendingFirmwareUpdate, Idle, BackToOldOrder, KeepNewOrder,
                TypeOK, EnvType
  <2>3. /\ TrustedSystem = [fw |-> Old, app |-> env.application]
        /\ TargetSystem = [fw |-> New, app |-> env.application]
    BY <1>2, <1>6, Systems DEF SystemsAre, Switched, Trying, Leaving
  <2> QED
    BY <1>1, <1>2, <1>3, <2>1, <2>2, <2>3, ConfirmStep, TakeBackStep
<1>7. CASE env.urs = "INCOMPLETE_APP_FW_UPDATE"
  <2>1. /\ env' = confirmPendingApplicationFirmwareUpdate /\ mounted = env.application
        /\ \/ booted = Old /\ firmware_update_reboot_failed
           \/ booted = New /\ ~ firmware_update_reboot_failed
    BY <1>1, <1>2, <1>7, CommitCombined DEF Tells, MountTells, noUpdateProcessing
  <2>2. env'.application = IF booted = Old THEN Other(env.application)
                           ELSE env.application
    BY <2>1 DEF confirmPendingApplicationFirmwareUpdate, Idle, BackToOldOrder, KeepNewOrder,
                TypeOK, EnvType
  <2>3. /\ TrustedSystem = [fw |-> Old, app |-> Other(env.application)]
        /\ TargetSystem = [fw |-> New, app |-> env.application]
    BY <1>2, <1>7, Systems DEF SystemsAre, Switched, Trying, Leaving
  <2>4. CASE booted = Old
    BY <1>1, <1>2, <1>3, <2>2, <2>3, <2>4, TakeBackStep
  <2>5. CASE booted = New
    BY <1>1, <1>2, <1>3, <2>1, <2>2, <2>3, <2>5, ConfirmStep
  <2> QED
    BY <2>1, <2>4, <2>5
<1>8. CASE env.urs = "INCOMPLETE_APP_ROLLBACK"
  <2>1. booted = Old /\ mounted = env.application /\ env'.application = env.application
    BY <1>1, <1>8, CommitRollback
       DEF confirmUpdateRollback, ApplicationRolledBack, Idle, TypeOK, EnvType
  <2>2. /\ TrustedSystem = [fw |-> Old, app |-> IF AppNext = 0 THEN Other(env.application)
                                               ELSE env.application]
        /\ TargetSystem = [fw |-> Old, app |-> env.application]
    BY <1>2, <1>8, Systems DEF SystemsAre, Switched, Trying, Leaving
  <2>3. CASE AppNext = 0
    BY <1>1, <1>2, <1>3, <2>1, <2>2, <2>3, ConfirmStep
  <2>4. CASE AppNext # 0
    BY <1>1, <1>2, <1>3, <2>1, <2>2, <2>4, AnswerStep
  <2> QED
    BY <2>3, <2>4
<1>9. CASE env.urs = "INCOMPLETE_FW_ROLLBACK"
  <2>1. /\ mounted = env.application /\ booted = IF env.fw[New] = 1 THEN Old ELSE New
        /\ env' = confirmUpdateRollback
    BY <1>1, <1>9, CommitRollback
  <2>2. env'.application = env.application
    BY <1>9, <2>1 DEF confirmUpdateRollback, FirmwareRolledBack, Idle, BackToOldOrder,
                KeepNewOrder, TypeOK, EnvType
  <2>3. env.fw[New] \in {0, 1}
    BY <1>9 DEF Tells, FirmwareTells
  <2>4. /\ TrustedSystem = [fw |-> Old, app |-> env.application]
        /\ TargetSystem = [fw |-> IF env.fw[New] = 0 THEN New ELSE Old,
                           app |-> env.application]
    BY <1>2, <1>9, Systems DEF SystemsAre, Switched, Trying, Leaving
  <2>5. CASE env.fw[New] = 0
    BY <1>1, <1>2, <1>3, <2>1, <2>2, <2>4, <2>5, ConfirmStep
  <2>6. CASE env.fw[New] = 1
    BY <1>1, <1>2, <1>3, <2>1, <2>2, <2>4, <2>6, AnswerStep
  <2> QED
    BY <2>3, <2>5, <2>6
<1> QED
  BY <1>1, <1>4, <1>5, <1>6, <1>7, <1>8, <1>9, CommitStates

-----------------------------------------------------------------------------
(* A board as it leaves production trusts what it runs. *)
LEMMA InitialLifecycle == Init => Lifecycle!Init
<1> SUFFICES ASSUME Init PROVE Lifecycle!Init
  OBVIOUS
<1>1. /\ env.orderOld = "A" /\ env.order = "A" /\ env.application = "A"
      /\ env.urs = "NO_UPDATE_REBOOT_PENDING" /\ stage = "idle"
      /\ up /\ booted = "A" /\ mounted = "A" /\ last.call = "commit_update"
  BY DEF Init, FactoryEnv
<1>2. /\ TrustedSystem = [fw |-> "A", app |-> "A"]
      /\ TargetSystem = [fw |-> "A", app |-> "A"]
  BY <1>1 DEF TrustedSystem, TargetSystem, ApplicationSwitched, FirmwareWithdrawn
<1> QED
  BY <1>1, <1>2 DEF Lifecycle!Init, Lifecycle!Systems, Lifecycle!Slots

(* Every step of FSUpdate is a step of the life cycle or a stutter. *)
LEMMA NextLifecycle ==
  ASSUME DocumentedClient, PInv, PInv', [Next]_vars
  PROVE  [Lifecycle!Next]_(Lifecycle!lifecycleVars)
<1>1. CASE ClientCall
  <2>1. CASE \E c \in UpdateCalls : decorator_update_state(c)
    BY <2>1, OtherCallsAnswer DEF decorator_update_state, UpdateCalls, AllCalls
  <2>2. CASE rollback_firmware
    BY <2>2, RollbacksWithdraw, SwitchesInstall, OtherCallsAnswer
       DEF rollback_firmware, RollbackFirmwareRefused, RollbackAnswers, AllCalls
  <2>3. CASE rollback_application
    BY <2>3, RollbacksWithdraw, SwitchesInstall, OtherCallsAnswer
       DEF rollback_application, RollbackApplicationRefused, RollbackAnswers, AllCalls
  <2> QED
    BY <1>1, <2>1, <2>2, <2>3, NeverHappens, HiddenSteps, CommitDecides, OtherCallsAnswer
       DEF PInv, ClientCall
<1>2. CASE Installation
  BY <1>2, NeverHappens, HiddenSteps, FailedInstallationAnswers, InstallationSucceeds
     DEF PInv, Installation
<1>3. CASE BoardStep
  BY <1>3, NeverHappens, RebootStops, BootLoaderBoots, ResetHidden DEF PInv, BoardStep
<1>4. CASE UNCHANGED vars
  <2>1. UNCHANGED <<TrustedSystem, TargetSystem, up, booted, mounted, last>>
    BY <1>4 DEF vars, TrustedSystem, TargetSystem, ApplicationSwitched, FirmwareWithdrawn,
                AppNext
  <2> QED
    BY <2>1, StutterStep
<1> QED
  BY <1>1, <1>2, <1>3, <1>4 DEF Next

(* For a client that keeps to the documented order of calls, whichever     *)
(* installation and whichever image fails, the variables the library       *)
(* shares with RAUC and the boot loader amount to one trusted system and   *)
(* at most one on trial: only commit_update on the running trial makes it  *)
(* trusted, and only a fallback or a rollback the client asked for takes   *)
(* it back.                                                                *)
THEOREM LifecycleImplemented == DocumentedClient => (Spec => ImplementsLifecycle)
<1> SUFFICES ASSUME DocumentedClient PROVE Spec => ImplementsLifecycle
  OBVIOUS
<1>1. PInv /\ PInv' /\ [Next]_vars => [Lifecycle!Next]_(Lifecycle!lifecycleVars)
  BY NextLifecycle
<1> QED
  BY <1>1, InitialLifecycle, InductivePInv, PTL
     DEF Spec, ImplementsLifecycle, Lifecycle!Spec
=============================================================================
