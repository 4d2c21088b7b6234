------------------------------ MODULE MCFSUpdate ------------------------------
(* Clients, faults and habits for TLC. *)
EXTENDS FSUpdateLifecycle

SeparateUpdates == {"update_firmware", "update_application", "commit_update"}
AnyUpdate == SeparateUpdates \cup {"update_firmware_and_application"}
FirmwareRollback == {"rollback_firmware", "update_reboot_state"}
ApplicationRollback == {"rollback_application", "update_reboot_state"}

UpdateClient == AnyUpdate \cup ApplicationRollback
RollbackClient == SeparateUpdates \cup FirmwareRollback \cup ApplicationRollback
FullClient == AnyUpdate \cup FirmwareRollback \cup ApplicationRollback

FirmwareClient == {"update_firmware", "commit_update"}
FirmwareRollbackClient == FirmwareClient \cup FirmwareRollback
CarelessClient ==
  FirmwareRollbackClient
    \cup {"update_application", "update_firmware_and_application",
          "set_update_state_bad"}

InstallFaults == {"install", "pipe", "image"}
=============================================================================
