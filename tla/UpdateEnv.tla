----------------------------- MODULE UpdateEnv -----------------------------
(***************************************************************************)
(* The U-Boot environment as fs-updater-lib sees it: the variables it      *)
(* reads and writes, the values it allows them                             *)
(* (allowed_uboot_variable_states.h) and the meaning of the per-slot       *)
(* update state.                                                           *)
(*                                                                         *)
(* A two-slot ordering ("A B" or "B A") is represented by its first slot,  *)
(* the string "update" by one number per firmware and application slot,    *)
(* and update_reboot_state by the name of its UBootBootstateFlags value.   *)
(***************************************************************************)
EXTENDS Naturals

Slots == {"A", "B"}

Other(s) == IF s = "A" THEN "B" ELSE "A"

(* UBootBootstateFlags without UNKNOWN_STATE, which is never written. *)
RebootStates ==
  { "NO_UPDATE_REBOOT_PENDING", "FW_UPDATE_REBOOT_FAILED",
    "INCOMPLETE_FW_UPDATE", "INCOMPLETE_APP_UPDATE",
    "INCOMPLETE_APP_FW_UPDATE", "FAILED_FW_UPDATE", "FAILED_APP_UPDATE",
    "ROLLBACK_FW_REBOOT_PENDING", "ROLLBACK_APP_REBOOT_PENDING",
    "ROLLBACK_APP_FW_REBOOT_PENDING", "INCOMPLETE_FW_ROLLBACK",
    "INCOMPLETE_APP_ROLLBACK", "INCOMPLETE_APP_FW_ROLLBACK" }

(* State of one slot: bit 0 is "uncommitted", bit 1 is "bad". *)
SlotStates == 0 .. 3

STATE_UPDATE_COMMITED == 0
STATE_UPDATE_UNCOMMITED == 1
STATE_UPDATE_BAD == 2

Uncommitted(state) == state \in {1, 3}
Bad(state) == state \in {2, 3}

BootAttempts == 3

EnvType ==
  [ fw          : [Slots -> SlotStates],   \* update[0], update[2]
    app         : [Slots -> SlotStates],   \* update[1], update[3]
    urs         : RebootStates,            \* update_reboot_state
    order       : Slots,                   \* first slot of BOOT_ORDER
    orderOld    : Slots,                   \* first slot of BOOT_ORDER_OLD
    left        : [Slots -> 0 .. BootAttempts],   \* BOOT_x_LEFT
    application : Slots ]

(* At most one firmware and one application slot may be uncommitted; any   *)
(* other value of "update" makes every read of it throw.                   *)
validate_update_bits(e) ==
  /\ \E s \in Slots : ~ Uncommitted(e.fw[s])
  /\ \E s \in Slots : ~ Uncommitted(e.app[s])

(* A board as it leaves production: everything committed, slot A first.    *)
FactoryEnv ==
  [ fw |-> [s \in Slots |-> STATE_UPDATE_COMMITED],
    app |-> [s \in Slots |-> STATE_UPDATE_COMMITED],
    urs |-> "NO_UPDATE_REBOOT_PENDING",
    order |-> "A", orderOld |-> "A",
    left |-> [s \in Slots |-> BootAttempts],
    application |-> "A" ]

FullCounters == [s \in Slots |-> BootAttempts]
=============================================================================
