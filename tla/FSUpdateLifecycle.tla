-------------------------- MODULE FSUpdateLifecycle --------------------------
(***************************************************************************)
(* FSUpdate implements UpdateLifecycle.  An installation in progress shows *)
(* nothing: what is on trial appears when the update_* call returns.       *)
(***************************************************************************)
EXTENDS FSUpdateProperties

(* An application rollback is the end of an update while the slot it left  *)
(* is still uncommitted; otherwise it is a switch that awaits its commit.  *)
ApplicationSwitched ==
  /\ stage = "idle"
  /\ \/ env.urs \in {"INCOMPLETE_APP_UPDATE", "INCOMPLETE_APP_FW_UPDATE"}
     \/ /\ env.urs \in {"ROLLBACK_APP_REBOOT_PENDING", "INCOMPLETE_APP_ROLLBACK"}
        /\ ~ Uncommitted(AppNext)

(* A firmware update its client has rolled back still leads BOOT_ORDER.    *)
FirmwareWithdrawn ==
  /\ env.urs \in {"ROLLBACK_FW_REBOOT_PENDING", "INCOMPLETE_FW_ROLLBACK"}
  /\ Uncommitted(env.fw[env.order])

TrustedSystem ==
  [ fw |-> env.orderOld,
    app |-> IF ApplicationSwitched THEN Other(env.application)
            ELSE env.application ]

TargetSystem ==
  IF stage = "idle"
  THEN [ fw |-> IF FirmwareWithdrawn THEN env.orderOld ELSE env.order,
         app |-> env.application ]
  ELSE TrustedSystem

Lifecycle == INSTANCE UpdateLifecycle WITH
  trusted <- TrustedSystem,
  target  <- TargetSystem,
  running <- IF up THEN [fw |-> booted, app |-> mounted]
             ELSE [fw |-> "none", app |-> "none"],
  call    <- last.call

(* For a client that keeps to the documented order of calls, and whichever *)
(* installation or image fails, the variables shared with RAUC and the     *)
(* boot loader amount to one trusted system and at most one on trial: only *)
(* commit_update on the running trial makes it trusted, only a boot that   *)
(* fell back or a rollback the client asked for takes it back, and without *)
(* a trial every boot runs the trusted system.                             *)
ImplementsLifecycle == Lifecycle!Spec
=============================================================================
