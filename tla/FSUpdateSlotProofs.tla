------------------------- MODULE FSUpdateSlotProofs -------------------------
(***************************************************************************)
(* Proofs about the state of each slot in "update": what becomes of a bad  *)
(* one, and which one commit_update may declare committed.  They hold far  *)
(* outside the documented order of calls.                                  *)
(***************************************************************************)
EXTENDS FSUpdateProofs

-----------------------------------------------------------------------------
(* Bad slots. *)

(* A rollback before the reboot commits the slot that runs.  A failure     *)
(* that its handler cannot record, and a power failure in an installation, *)
(* leave an update recorded that was never installed; what runs is taken   *)
(* for it once the two boot orders differ for another reason, or once the  *)
(* slot in use has been declared bad.                                      *)
BadSlotsAssumption ==
  /\ "early_rollback" \notin Habits
  /\ "record" \notin Faults
  /\ "power" \in Faults => OrdersAssumption /\ "set_update_state_bad" \notin Calls

(* No slot is uncommitted and bad at the same time. *)
StatesSingle ==
  /\ env.fw \in [Slots -> 0 .. 2]
  /\ env.app \in [Slots -> 0 .. 2]

(* What a running installation has recorded of the slots it writes. *)
InstallationMarked ==
  /\ stage # "idle" => up
  /\ stage \in {"rauc", "writing", "activated"} =>
       job \in {"fw", "both"} /\ env.urs = "INCOMPLETE_FW_UPDATE"
  /\ stage = "app" =>
       /\ AppNext = STATE_UPDATE_UNCOMMITED
       /\ \/ job = "app" /\ env.urs = "INCOMPLETE_APP_UPDATE"
          \/ job = "both" /\ env.urs = "INCOMPLETE_APP_FW_UPDATE"
  /\ (job # "app" /\ stage \in {"rauc", "writing", "activated",
                                "app", "app_failed", "app_unflushed"}) =>
       FwNext = STATE_UPDATE_UNCOMMITED
  /\ (stage = "activated" \/ (job = "both" /\ stage = "app")) =>
       env.order = Other(booted)

(* Where power does not fail: of a pending firmware update, the slot that  *)
(* BOOT_ORDER names first is the uncommitted one if any is, and of a       *)
(* pending combined update the application that is named.                  *)
PendingMarked == "power" \notin Faults =>
  /\ (stage = "idle" /\ env.urs \in {"INCOMPLETE_FW_UPDATE", "INCOMPLETE_APP_FW_UPDATE"}) =>
       (env.fw[Other(env.order)] = STATE_UPDATE_UNCOMMITED =>
          env.fw[env.order] = STATE_UPDATE_UNCOMMITED)
  /\ (stage = "idle" /\ env.urs = "INCOMPLETE_APP_FW_UPDATE") =>
       (AppNext = STATE_UPDATE_UNCOMMITED => AppCur = STATE_UPDATE_UNCOMMITED)

(* Once the board has booted into a pending firmware update, a boot        *)
(* counter shows it, so that nothing is taken for a missing reboot.        *)
RebootCounted ==
  (up /\ stage = "idle" /\ phase # "changed"
     /\ env.urs \in {"INCOMPLETE_FW_UPDATE", "INCOMPLETE_APP_FW_UPDATE"}) =>
    \E s \in Slots : env.left[s] # BootAttempts

Marks == StatesSingle /\ InstallationMarked /\ PendingMarked /\ RebootCounted

(* Where it fails: a switched order still tells of an uncommitted slot,    *)
(* a pending application update of no bad one, and the application that is *)
(* named is never bad.                                                     *)
PowerMarked ==
  /\ (/\ env.urs \in {"INCOMPLETE_FW_UPDATE", "INCOMPLETE_APP_FW_UPDATE"}
      /\ env.order # env.orderOld)
     => env.fw[env.order] = STATE_UPDATE_UNCOMMITED
  /\ env.urs \in {"INCOMPLETE_APP_UPDATE", "INCOMPLETE_APP_FW_UPDATE"} =>
       \A s \in Slots : env.app[s] # STATE_UPDATE_BAD
  /\ AppCur # STATE_UPDATE_BAD

PowerInv == "power" \in Faults => IInv /\ PowerMarked

(* The slots commit_update would commit are not bad. *)
CommitSafe ==
  /\ pendingFirmwareUpdate \/ pendingApplicationFirmwareUpdate =>
       (firmware_update_reboot_successful => FwCur # STATE_UPDATE_BAD)
  /\ pendingApplicationFirmwareUpdate => AppCur # STATE_UPDATE_BAD

(* BadStaysBad is about pairs of states, so it is implied by an invariant  *)
(* that says enough of the first one.                                      *)
SlotInv == TypeOK /\ Marks

(* No bad entry of f is committed in g. *)
KeepsBad(f, g) ==
  \A s \in Slots : Bad(f[s]) => Bad(g[s]) \/ Uncommitted(g[s])

(* The step keeps every bad slot bad until it is written again. *)
BadKept == KeepsBad(env.fw, env'.fw) /\ KeepsBad(env.app, env'.app)

SingleStates == [Slots -> 0 .. 2]

(* Writing one entry keeps the bad ones, unless it commits a bad one.      *)
LEMMA WriteKeepsBad ==
  ASSUME NEW f \in SingleStates, NEW t \in Slots, NEW n \in 0 .. 2,
         f[t] # STATE_UPDATE_BAD \/ n # STATE_UPDATE_COMMITED
  PROVE  /\ [f EXCEPT ![t] = n] \in SingleStates
         /\ KeepsBad(f, [f EXCEPT ![t] = n])
         /\ KeepsBad(f, f)
BY DEF SingleStates, KeepsBad, Bad, Uncommitted, STATE_UPDATE_BAD, STATE_UPDATE_COMMITED

(* The assignments around a write leave the slot states alone.             *)
LEMMA SlotsUntouched ==
  ASSUME NEW e \in EnvType
  PROVE  /\ Idle(e).fw = e.fw /\ Idle(e).app = e.app
         /\ Idle(e).urs = "NO_UPDATE_REBOOT_PENDING"
         /\ BackToOldOrder(e).fw = e.fw /\ BackToOldOrder(e).app = e.app
         /\ KeepNewOrder(e).fw = e.fw /\ KeepNewOrder(e).app = e.app
         /\ SwitchApplication(e).fw = e.fw /\ SwitchApplication(e).app = e.app
BY DEF EnvType, Idle, BackToOldOrder, KeepNewOrder, SwitchApplication

(* The values the slot states are compared with.                           *)
LEMMA SlotValues ==
  /\ STATE_UPDATE_COMMITED = 0 /\ STATE_UPDATE_UNCOMMITED = 1 /\ STATE_UPDATE_BAD = 2
  /\ \A n \in 0 .. 2 : (Uncommitted(n) <=> n = 1) /\ (Bad(n) <=> n = 2)
BY DEF STATE_UPDATE_COMMITED, STATE_UPDATE_UNCOMMITED, STATE_UPDATE_BAD,
       Uncommitted, Bad

(* What every step below starts from.                                      *)
LEMMA SlotFacts ==
  ASSUME SlotInv
  PROVE  /\ env \in EnvType
         /\ env.fw \in SingleStates /\ env.app \in SingleStates
         /\ booted \in Slots /\ Other(booted) \in Slots /\ Other(booted) # booted
         /\ env.application \in Slots /\ Other(env.application) \in Slots
         /\ Other(env.application) # env.application
         /\ env.order \in Slots /\ env.orderOld \in Slots /\ Other(env.order) \in Slots
BY OtherSlot DEF SlotInv, TypeOK, Marks, StatesSingle, SingleStates, EnvType

(* Idle again, only the range of the slot states is left to show.          *)
LEMMA IdleMarks ==
  ASSUME env'.fw \in SingleStates, env'.app \in SingleStates, stage' = "idle",
         env'.urs \notin {"INCOMPLETE_FW_UPDATE", "INCOMPLETE_APP_FW_UPDATE"}
  PROVE  Marks'
BY DEF Marks, StatesSingle, SingleStates, InstallationMarked, PendingMarked,
       RebootCounted

(* Either way of accounting for a pending update makes a commit safe. *)
LEMMA SafeToCommit ==
  ASSUME SlotInv, PowerInv, stage = "idle"
  PROVE  CommitSafe
<1>1. /\ env.fw \in SingleStates /\ env.app \in SingleStates
      /\ booted \in Slots /\ env.order \in Slots
  BY SlotFacts
<1>2. ASSUME firmware_update_reboot_successful
      PROVE  booted = env.order /\ env.order # env.orderOld
  BY <1>2 DEF firmware_update_reboot_successful
<1>3. CASE "power" \notin Faults
  <2>1. ASSUME env.urs \in {"INCOMPLETE_FW_UPDATE", "INCOMPLETE_APP_FW_UPDATE"},
               env.fw[Other(env.order)] = 1
        PROVE  env.fw[env.order] = 1
    BY <1>3, <2>1, SlotValues DEF SlotInv, Marks, PendingMarked
  <2>2. ASSUME env.urs = "INCOMPLETE_APP_FW_UPDATE", AppNext = 1 PROVE AppCur = 1
    BY <1>3, <2>2, SlotValues DEF SlotInv, Marks, PendingMarked
  <2>3. /\ FwCur \in 0 .. 2 /\ FwNext \in 0 .. 2 /\ AppCur \in 0 .. 2 /\ AppNext \in 0 .. 2
    BY SlotFacts DEF FwCur, FwNext, AppCur, AppNext, SingleStates
  <2>4. ASSUME pendingFirmwareUpdate \/ pendingApplicationFirmwareUpdate,
               firmware_update_reboot_successful
        PROVE  FwCur # STATE_UPDATE_BAD
    <3>1. /\ env.urs \in {"INCOMPLETE_FW_UPDATE", "INCOMPLETE_APP_FW_UPDATE"}
          /\ FwCur = 1 \/ FwNext = 1
      BY <2>3, <2>4, SlotValues DEF pendingFirmwareUpdate, pendingApplicationFirmwareUpdate
    <3> QED
      BY <1>2, <2>1, <2>4, <3>1, SlotValues DEF FwCur, FwNext
  <2>5. ASSUME pendingApplicationFirmwareUpdate PROVE AppCur # STATE_UPDATE_BAD
    <3>1. env.urs = "INCOMPLETE_APP_FW_UPDATE" /\ (AppCur = 1 \/ AppNext = 1)
      BY <2>3, <2>5, SlotValues DEF pendingApplicationFirmwareUpdate
    <3> QED
      BY <2>2, <3>1, SlotValues
  <2> QED
    BY <2>4, <2>5 DEF CommitSafe
<1>4. CASE "power" \in Faults
  BY <1>1, <1>2, <1>4, SlotValues
     DEF CommitSafe, pendingFirmwareUpdate, pendingApplicationFirmwareUpdate, FwCur,
         PowerInv, PowerMarked
<1> QED
  BY <1>3, <1>4

(* Whatever commit_update decides, it commits no bad slot, and the update  *)
(* state it leaves is idle.                                                *)
LEMMA CommitKeepsBad ==
  ASSUME SlotInv, CommitSafe, CommitOutcome.can
  PROVE  LET e == CommitOutcome.env
         IN  /\ e.fw \in SingleStates /\ e.app \in SingleStates
             /\ KeepsBad(env.fw, e.fw) /\ KeepsBad(env.app, e.app)
             /\ e.urs = "NO_UPDATE_REBOOT_PENDING"
<1> DEFINE Good(e) == /\ e.fw \in SingleStates /\ e.app \in SingleStates
                      /\ KeepsBad(env.fw, e.fw) /\ KeepsBad(env.app, e.app)
           Done(e) == Good(e) /\ e.urs = "NO_UPDATE_REBOOT_PENDING"
<1>0. /\ env \in EnvType
      /\ env.fw \in SingleStates /\ env.app \in SingleStates
      /\ booted \in Slots /\ Other(booted) \in Slots /\ Other(booted) # booted
      /\ env.application \in Slots /\ Other(env.application) \in Slots
      /\ Other(env.application) # env.application
      /\ env.order \in Slots /\ env.orderOld \in Slots /\ Other(env.order) \in Slots
  BY SlotFacts
<1> USE <1>0
<1>1. ASSUME NEW e \in EnvType, Good(e)
      PROVE  Done(Idle(e)) /\ Done(Idle(BackToOldOrder(e))) /\ Done(Idle(KeepNewOrder(e)))
  <2>1. BackToOldOrder(e) \in EnvType /\ KeepNewOrder(e) \in EnvType
    BY OrderHelpers
  <2> QED
    BY <1>1, <2>1, SlotsUntouched
<1> DEFINE Fw(s, n) == [env EXCEPT !.fw[s] = n]
           App(s, n) == [env EXCEPT !.app[s] = n]
<1>2. ASSUME NEW s \in Slots, NEW n \in 0 .. 2,
             env.fw[s] # STATE_UPDATE_BAD \/ n # STATE_UPDATE_COMMITED
      PROVE  Fw(s, n) \in EnvType /\ Good(Fw(s, n))
  <2>1. Fw(s, n) \in EnvType
    BY DEF EnvType, SlotStates
  <2>2. Fw(s, n).fw = [env.fw EXCEPT ![s] = n] /\ Fw(s, n).app = env.app
    BY DEF EnvType
  <2> HIDE DEF Fw
  <2> QED
    BY <1>2, <2>1, <2>2, SlotValues DEF KeepsBad, SingleStates
<1>3. ASSUME NEW s \in Slots, NEW n \in 0 .. 2,
             env.app[s] # STATE_UPDATE_BAD \/ n # STATE_UPDATE_COMMITED
      PROVE  App(s, n) \in EnvType /\ Good(App(s, n))
  <2>1. App(s, n) \in EnvType
    BY DEF EnvType, SlotStates
  <2>2. App(s, n).app = [env.app EXCEPT ![s] = n] /\ App(s, n).fw = env.fw
    BY DEF EnvType
  <2> HIDE DEF App
  <2> QED
    BY <1>3, <2>1, <2>2, SlotValues DEF KeepsBad, SingleStates
<1>4. /\ confirmPendingApplicationUpdate = Idle(App(env.application, STATE_UPDATE_COMMITED))
      /\ confirmPendingFirmwareUpdate =
           IF firmware_update_reboot_failed
           THEN Idle(BackToOldOrder(Fw(Other(booted), STATE_UPDATE_BAD)))
           ELSE Idle(KeepNewOrder(Fw(booted, STATE_UPDATE_COMMITED)))
      /\ confirmFailedFirmwareUpdate = Idle(Fw(Other(booted), STATE_UPDATE_BAD))
      /\ confirmFailedRebootFirmwareUpdate = Idle(Fw(booted, STATE_UPDATE_BAD))
      /\ confirmFailedApplicationeUpdate
           = Idle(App(Other(env.application), STATE_UPDATE_BAD))
      /\ FirmwareRolledBack(env) =
           IF FwNext = STATE_UPDATE_COMMITED THEN KeepNewOrder(env)
           ELSE BackToOldOrder(Fw(Other(booted), STATE_UPDATE_BAD))
  BY DEF confirmPendingApplicationUpdate, confirmPendingFirmwareUpdate,
         confirmFailedFirmwareUpdate, confirmFailedRebootFirmwareUpdate,
         confirmFailedApplicationeUpdate, FirmwareRolledBack
<1> HIDE DEF Fw, App
<1>5. ASSUME pendingApplicationUpdate
      PROVE  Done(confirmPendingApplicationUpdate)
  <2>1. AppCur # STATE_UPDATE_BAD
    BY <1>5, SlotValues DEF pendingApplicationUpdate, AppCur, SingleStates
  <2> HIDE DEF Good, Done
  <2> QED
    BY <1>1, <1>3, <1>4, <2>1, SlotValues DEF AppCur
<1>6. ASSUME pendingFirmwareUpdate, FirmwareConfirmable
      PROVE  Done(confirmPendingFirmwareUpdate)
  <2> HIDE DEF Good, Done
  <2>1. CASE firmware_update_reboot_failed
    BY <1>1, <1>2, <1>4, <2>1, SlotValues
  <2>2. CASE ~ firmware_update_reboot_failed
    <3>1. FwCur # STATE_UPDATE_BAD
      BY <1>6, <2>2 DEF FirmwareConfirmable, CommitSafe
    <3> QED
      BY <1>1, <1>2, <1>4, <2>2, <3>1, SlotValues DEF FwCur
  <2> QED
    BY <2>1, <2>2
<1>7. ASSUME pendingApplicationFirmwareUpdate, FirmwareConfirmable
      PROVE  Done(confirmPendingApplicationFirmwareUpdate)
  <2>1. AppCur # STATE_UPDATE_BAD
    BY <1>7 DEF CommitSafe
  <2>2. CASE firmware_update_reboot_failed
    <3> DEFINE e == [env EXCEPT !.app[env.application] = STATE_UPDATE_COMMITED,
                                !.fw[Other(booted)] = STATE_UPDATE_BAD,
                                !.application = Other(env.application)]
    <3>0. {STATE_UPDATE_BAD, STATE_UPDATE_COMMITED} \subseteq SlotStates
      BY DEF STATE_UPDATE_BAD, STATE_UPDATE_COMMITED, SlotStates
    <3>1. e \in EnvType
      BY <3>0 DEF EnvType
    <3>2. /\ e.app = [env.app EXCEPT ![env.application] = STATE_UPDATE_COMMITED]
          /\ e.fw = [env.fw EXCEPT ![Other(booted)] = STATE_UPDATE_BAD]
      BY DEF EnvType
    <3>3. confirmPendingApplicationFirmwareUpdate = Idle(BackToOldOrder(e))
      BY <2>2 DEF confirmPendingApplicationFirmwareUpdate
    <3> HIDE DEF e
    <3>4. Good(e)
      BY <2>1, <3>2, SlotValues DEF AppCur, KeepsBad, SingleStates
    <3> QED
      BY <1>1, <3>1, <3>3, <3>4
  <2>3. CASE ~ firmware_update_reboot_failed
    <3> DEFINE e == [env EXCEPT !.fw[booted] = STATE_UPDATE_COMMITED,
                                !.app[env.application] = STATE_UPDATE_COMMITED]
    <3>0. {STATE_UPDATE_BAD, STATE_UPDATE_COMMITED} \subseteq SlotStates
      BY DEF STATE_UPDATE_BAD, STATE_UPDATE_COMMITED, SlotStates
    <3>1. e \in EnvType
      BY <3>0 DEF EnvType
    <3>2. /\ e.app = [env.app EXCEPT ![env.application] = STATE_UPDATE_COMMITED]
          /\ e.fw = [env.fw EXCEPT ![booted] = STATE_UPDATE_COMMITED]
      BY DEF EnvType
    <3>3. confirmPendingApplicationFirmwareUpdate = Idle(KeepNewOrder(e))
      BY <2>3 DEF confirmPendingApplicationFirmwareUpdate
    <3>4. FwCur # STATE_UPDATE_BAD
      BY <1>7, <2>3 DEF FirmwareConfirmable, CommitSafe
    <3> HIDE DEF e
    <3>5. Good(e)
      BY <2>1, <3>2, <3>4, SlotValues DEF AppCur, FwCur, KeepsBad, SingleStates
    <3> QED
      BY <1>1, <3>1, <3>3, <3>5
  <2> QED
    BY <2>2, <2>3
<1>8. noUpdateProcessing => Done(MarkGood)
  BY DEF noUpdateProcessing, MarkGood, EnvType, KeepsBad
<1>9. Good(env)
  BY DEF KeepsBad
<1>10. ASSUME NEW e \in EnvType, Good(e)
       PROVE  ApplicationRolledBack(e) \in EnvType /\ Good(ApplicationRolledBack(e))
  <2> DEFINE g == [e EXCEPT !.app[Other(env.application)] = STATE_UPDATE_BAD]
  <2>1. g \in EnvType
    BY SlotValues DEF EnvType, SlotStates
  <2>2. g.fw = e.fw /\ g.app = [e.app EXCEPT ![Other(env.application)] = STATE_UPDATE_BAD]
    BY DEF EnvType
  <2>3. ApplicationRolledBack(e) = g \/ ApplicationRolledBack(e) = e
    BY DEF ApplicationRolledBack
  <2> HIDE DEF g
  <2>4. Good(g)
    BY <1>10, <2>2, SlotValues DEF KeepsBad, SingleStates
  <2> QED
    BY <1>10, <2>1, <2>3, <2>4
<1>11. /\ Done(confirmFailedFirmwareUpdate)
       /\ Done(confirmFailedRebootFirmwareUpdate)
       /\ Done(confirmFailedApplicationeUpdate)
  <2> HIDE DEF Good, Done
  <2> QED
    BY <1>1, <1>2, <1>3, <1>4, SlotValues
<1>12. FirmwareRolledBack(env) \in EnvType /\ Good(FirmwareRolledBack(env))
  <2>1. ASSUME NEW e \in EnvType, Good(e)
        PROVE  /\ BackToOldOrder(e) \in EnvType /\ Good(BackToOldOrder(e))
               /\ KeepNewOrder(e) \in EnvType /\ Good(KeepNewOrder(e))
    BY <2>1, OrderHelpers, SlotsUntouched
  <2> HIDE DEF Good, Done
  <2> QED
    BY <1>2, <1>4, <1>9, <2>1, SlotValues
<1> HIDE DEF Good, Done
<1>13. Done(confirmUpdateRollback)
  BY <1>1, <1>9, <1>10, <1>12 DEF confirmUpdateRollback
<1>14. Done(CommitOutcome.env)
  BY <1>5, <1>6, <1>7, <1>8, <1>11, <1>13 DEF CommitOutcome
<1> QED
  BY <1>14 DEF Good, Done

(* A public call commits no bad slot. *)
LEMMA ClientCallMarks ==
  ASSUME BadSlotsAssumption, SlotInv, PowerInv, staged = "nothing", ClientCall
  PROVE  Marks' /\ BadKept
<1>0. \A e : Flushed(e) = e
  BY FlushedNothing
<1>1. /\ env \in EnvType
      /\ env.fw \in SingleStates /\ env.app \in SingleStates
      /\ booted \in Slots /\ Other(booted) \in Slots /\ Other(booted) # booted
      /\ env.application \in Slots /\ Other(env.application) \in Slots
      /\ Other(env.application) # env.application
      /\ env.order \in Slots /\ Other(env.order) \in Slots
  BY SlotFacts
<1>2. Marks
  BY DEF SlotInv
<1>3. ASSUME UNCHANGED <<env, booted, up, job, stage>>,
             phase' # "changed" => phase # "changed"
      PROVE  Marks' /\ BadKept
  BY <1>2, <1>3
     DEF Marks, StatesSingle, InstallationMarked, PendingMarked, RebootCounted,
         FwNext, AppNext, AppCur, BadKept, KeepsBad
<1>4. CASE \E c \in AllCalls : ReadRejected(c)
  BY <1>3, <1>4 DEF ReadRejected, Throw
<1>5. CASE \E c \in UpdateCalls : decorator_update_state(c)
  BY <1>3, <1>5 DEF decorator_update_state, Throw
<1>6. ASSUME NEW j \in {"fw", "both"}, BeginFirmware(j), up
      PROVE  Marks' /\ BadKept
  <2>1. /\ env'.fw = [env.fw EXCEPT ![Other(booted)] = 1] /\ env'.app = env.app
        /\ env'.urs = "INCOMPLETE_FW_UPDATE"
    BY <1>1, <1>6 DEF Flushed, BeginFirmware, EnvType, STATE_UPDATE_UNCOMMITED
  <2>2. env'.fw \in SingleStates /\ env'.app \in SingleStates /\ BadKept
    BY <1>1, <2>1 DEF SingleStates, BadKept, KeepsBad, Uncommitted
  <2>3. booted' = booted /\ up' /\ job' = j /\ stage' = "rauc"
    BY <1>6 DEF BeginFirmware, Board
  <2>4. FwNext' = STATE_UPDATE_UNCOMMITED
    BY <1>1, <2>1, <2>3 DEF FwNext, SingleStates, STATE_UPDATE_UNCOMMITED
  <2> QED
    BY <2>1, <2>2, <2>3, <2>4
       DEF Marks, StatesSingle, SingleStates, InstallationMarked, PendingMarked,
           RebootCounted
<1>7. CASE update_firmware
  BY <1>6, <1>7 DEF update_firmware, CanRead, CallsNow
<1>8. CASE update_firmware_and_application
  BY <1>6, <1>8 DEF update_firmware_and_application, CanRead, CallsNow
<1>9. CASE CombinedUpdateNotStarted
  BY <1>2, <1>9
     DEF CombinedUpdateNotStarted, CallsNow, Board, Marks, StatesSingle,
         InstallationMarked, PendingMarked, RebootCounted, BadKept, KeepsBad
<1>10. CASE update_application
  <2>1. /\ env'.app = [env.app EXCEPT ![Other(env.application)] = 1]
        /\ env'.fw = env.fw /\ env'.urs = "INCOMPLETE_APP_UPDATE"
        /\ env'.application = env.application
    BY <1>1, <1>10
       DEF Flushed, update_application, MarkApplication, EnvType, STATE_UPDATE_UNCOMMITED
  <2>2. env'.fw \in SingleStates /\ env'.app \in SingleStates /\ BadKept
    BY <1>1, <2>1 DEF SingleStates, BadKept, KeepsBad, Uncommitted
  <2>3. up' /\ job' = "app" /\ stage' = "app"
    BY <1>10 DEF update_application, CanRead, CallsNow, Board
  <2>4. AppNext' = STATE_UPDATE_UNCOMMITED
    BY <1>1, <2>1 DEF AppNext, SingleStates, STATE_UPDATE_UNCOMMITED
  <2> QED
    BY <2>1, <2>2, <2>3, <2>4
       DEF Marks, StatesSingle, SingleStates, InstallationMarked, PendingMarked,
           RebootCounted
<1>11. CASE commit_update
  <2>1. stage = "idle" /\ UNCHANGED <<booted, up, job, stage>>
    BY <1>11 DEF commit_update, CanRead, CallsNow, Board
  <2>2. CASE CommitOutcome.can
    <3>1. env' = CommitOutcome.env
      BY <1>0, <1>11, <2>2 DEF commit_update
    <3> QED
      BY <2>1, <2>2, <3>1, SafeToCommit, CommitKeepsBad, IdleMarks DEF BadKept
  <2>3. CASE ~ CommitOutcome.can
    <3>1. env' = env /\ (phase' # "changed" => phase # "changed")
      BY <1>11, <2>3 DEF commit_update
    <3> QED
      BY <1>3, <2>1, <3>1
  <2> QED
    BY <2>2, <2>3
<1>12. ASSUME NEW c \in {"rollback_firmware", "rollback_application"}, RollbackAnswers(c)
       PROVE  up /\ stage = "idle" /\ phase # "changed"
  BY <1>12 DEF RollbackAnswers, CanRead, CallsNow, BadSlotsAssumption
<1>13. ASSUME stage = "idle", stage' = "idle",
              env'.fw = env.fw, env'.app = env.app,
              env'.urs \notin {"INCOMPLETE_FW_UPDATE", "INCOMPLETE_APP_FW_UPDATE"}
       PROVE  Marks' /\ BadKept
  BY <1>1, <1>13, IdleMarks DEF BadKept, KeepsBad
<1>14. CASE rollback_firmware
  <2>1. CASE RollbackUncommittedFirmware
    <3>1. up /\ stage = "idle" /\ phase # "changed"
      BY <1>12, <2>1 DEF RollbackUncommittedFirmware
    <3>2. UNCHANGED <<booted, up, job, stage>> /\ phase' = "changed"
      BY <2>1 DEF RollbackUncommittedFirmware, Rolled, Board
    <3>3. ~ missing_firmware_update_reboot
      BY <1>2, <2>1, <3>1
         DEF RollbackUncommittedFirmware, pendingFirmwareUpdate,
             pendingApplicationFirmwareUpdate, Marks, RebootCounted,
             missing_firmware_update_reboot, BootAttempts
    <3>4. /\ firmware_rollback \in EnvType
          /\ firmware_rollback.fw = env.fw /\ firmware_rollback.app = env.app
          /\ firmware_rollback = env
               \/ firmware_rollback.urs = "ROLLBACK_FW_REBOOT_PENDING"
      BY <1>1, <3>3, RollbackTypes DEF firmware_rollback, EnvType
    <3>5. CASE pendingApplicationFirmwareUpdate
      <4>1. env' = [SwitchApplication(firmware_rollback) EXCEPT
                      !.urs = "ROLLBACK_APP_FW_REBOOT_PENDING"]
        BY <1>0, <2>1, <3>5 DEF RollbackUncommittedFirmware, Rolled
      <4>2. SwitchApplication(firmware_rollback) \in EnvType
        BY <1>1, <3>4, SwitchType
      <4>3. /\ env'.fw = env.fw /\ env'.app = env.app
            /\ env'.urs = "ROLLBACK_APP_FW_REBOOT_PENDING"
        BY <3>4, <4>1, <4>2, SlotsUntouched DEF EnvType
      <4> QED
        BY <1>13, <3>1, <3>2, <4>3
    <3>6. CASE ~ pendingApplicationFirmwareUpdate
      <4>1. env' = firmware_rollback
        BY <1>0, <2>1, <3>6 DEF RollbackUncommittedFirmware, Rolled
      <4> QED
        BY <1>3, <1>13, <3>1, <3>2, <3>4, <4>1
    <3> QED
      BY <3>5, <3>6
  <2>2. CASE SwitchFirmware
    <3>1. stage = "idle" /\ stage' = "idle"
      BY <1>12, <2>2 DEF SwitchFirmware, Rolled
    <3>2. /\ env'.fw = env.fw /\ env'.app = env.app
          /\ env'.urs = "ROLLBACK_FW_REBOOT_PENDING"
      BY <1>1, <2>2 DEF Flushed, SwitchFirmware, Rolled, EnvType
    <3> QED
      BY <1>13, <3>1, <3>2
  <2>3. CASE RollbackFirmwareRefused
    BY <1>3, <2>3 DEF RollbackFirmwareRefused, Throw
  <2> QED
    BY <1>14, <2>1, <2>2, <2>3 DEF rollback_firmware
<1>15. CASE rollback_application
  <2>1. CASE RollbackUncommittedApplication
    <3>1. up /\ stage = "idle" /\ phase # "changed"
      BY <1>12, <2>1 DEF RollbackUncommittedApplication
    <3>2. UNCHANGED <<booted, up, job, stage>> /\ phase' = "changed"
      BY <2>1 DEF RollbackUncommittedApplication, Rolled, Board
    <3>3. CASE pendingApplicationUpdate
      <4>1. env' = applicaton_rollback
        BY <1>0, <2>1, <3>3 DEF RollbackUncommittedApplication, Rolled
      <4>2. CASE application_reboot
        <5>1. env' = [SwitchApplication(env) EXCEPT !.urs = "ROLLBACK_APP_REBOOT_PENDING"]
          BY <4>1, <4>2 DEF applicaton_rollback
        <5>2. /\ env'.fw = env.fw /\ env'.app = env.app
              /\ env'.urs = "ROLLBACK_APP_REBOOT_PENDING"
          BY <1>1, <5>1 DEF SwitchApplication, EnvType
        <5> QED
          BY <1>13, <3>1, <3>2, <5>2
      <4>3. CASE ~ application_reboot
        <5>1. env' = Idle([SwitchApplication(env) EXCEPT
                             !.app[env.application] = STATE_UPDATE_COMMITED])
          BY <4>1, <4>3 DEF applicaton_rollback
        <5>2. /\ env'.fw = env.fw
              /\ env'.app = [env.app EXCEPT ![env.application] = 0]
              /\ env'.urs = "NO_UPDATE_REBOOT_PENDING"
          BY <1>1, <5>1 DEF SwitchApplication, Idle, EnvType, STATE_UPDATE_COMMITED
        <5>3. AppCur = 1
          BY <1>1, <3>3, SlotValues DEF pendingApplicationUpdate, AppCur, SingleStates
        <5>4. env'.fw \in SingleStates /\ env'.app \in SingleStates /\ BadKept
          BY <1>1, <5>2, <5>3 DEF AppCur, SingleStates, BadKept, KeepsBad, Bad
        <5> QED
          BY <3>1, <3>2, <5>2, <5>4, IdleMarks
      <4> QED
        BY <4>2, <4>3
    <3>4. CASE ~ pendingApplicationUpdate
      <4>1. env' = env
        BY <2>1, <3>4 DEF RollbackUncommittedApplication, Rolled
      <4> QED
        BY <1>3, <3>2, <4>1
    <3> QED
      BY <3>3, <3>4
  <2>2. CASE SwitchToOtherApplication
    <3>1. stage = "idle" /\ stage' = "idle"
      BY <1>12, <2>2 DEF SwitchToOtherApplication, Rolled
    <3>2. /\ env'.fw = env.fw /\ env'.app = env.app
          /\ env'.urs = "ROLLBACK_APP_REBOOT_PENDING"
      BY <1>1, <2>2 DEF Flushed, SwitchToOtherApplication, Rolled, SwitchApplication, EnvType
    <3> QED
      BY <1>13, <3>1, <3>2
  <2>3. CASE RollbackApplicationRefused
    BY <1>3, <2>3 DEF RollbackApplicationRefused, Throw
  <2> QED
    BY <1>15, <2>1, <2>2, <2>3 DEF rollback_application
<1>16. ASSUME NEW s \in Slots, NEW id \in {0, 1}, set_update_state_bad(s, id)
       PROVE  Marks' /\ BadKept
  <2>1. /\ stage = "idle" /\ UNCHANGED <<booted, up, job, stage, phase>>
        /\ validate_update_bits(env)
    BY <1>16 DEF set_update_state_bad, CanRead, CallsNow, Board
  <2>2. ASSUME NEW n \in 0 .. 2 PROVE MarkBad(n) = 2
    BY SlotValues DEF MarkBad
  <2>3. /\ env'.urs = env.urs /\ env'.order = env.order /\ env'.left = env.left
        /\ env'.application = env.application
        /\ \/ env'.fw = [env.fw EXCEPT ![s] = 2] /\ env'.app = env.app
           \/ env'.app = [env.app EXCEPT ![s] = 2] /\ env'.fw = env.fw
    <3>1. MarkBad(env.fw[s]) = 2 /\ MarkBad(env.app[s]) = 2
      BY <1>1, <2>2 DEF SingleStates
    <3> QED
      BY <1>0, <1>1, <1>16, <3>1 DEF set_update_state_bad, EnvType
  <2>4. env'.fw \in SingleStates /\ env'.app \in SingleStates /\ BadKept
    BY <1>1, <2>3 DEF SingleStates, BadKept, KeepsBad, Bad
  <2>5. /\ \E t \in Slots : env.fw[t] # 1
        /\ \E t \in Slots : env.app[t] # 1
    BY <1>1, <2>1 DEF validate_update_bits, Uncommitted
  <2>6. PendingMarked'
    <3>1. /\ env'.fw[Other(env.order)] = 1 => env.fw[Other(env.order)] = 1
          /\ env'.app[Other(env.application)] = 1 => env.app[Other(env.application)] = 1
      BY <1>1, <2>3 DEF SingleStates
    <3>2. /\ env.fw[Other(env.order)] # 1 \/ env.fw[env.order] # 1
          /\ env.app[Other(env.application)] # 1 \/ env.app[env.application] # 1
      BY <1>1, <2>5 DEF Slots, Other
    <3> QED
      BY <1>2, <2>1, <2>3, <3>1, <3>2
         DEF Marks, PendingMarked, AppNext, AppCur, STATE_UPDATE_UNCOMMITED
  <2> QED
    BY <1>2, <2>1, <2>3, <2>4, <2>6
       DEF Marks, StatesSingle, SingleStates, InstallationMarked, RebootCounted
<1>17. CASE update_reboot_state
  <2>1. stage = "idle" /\ stage' = "idle"
    BY <1>17 DEF update_reboot_state, CallsNow
  <2>2. /\ env'.fw = env.fw /\ env'.app = env.app
        /\ env'.urs \notin {"INCOMPLETE_FW_UPDATE", "INCOMPLETE_APP_FW_UPDATE"}
    BY <1>0, <1>1, <1>17 DEF update_reboot_state, Applied, EnvType
  <2> QED
    BY <1>13, <2>1, <2>2
<1> QED
  BY <1>4, <1>5, <1>7, <1>8, <1>9, <1>10, <1>11, <1>14, <1>15, <1>16, <1>17
     DEF ClientCall

(* An installation commits no bad slot: what its failure declares          *)
(* committed it has marked uncommitted before.                             *)
LEMMA InstallationMarks ==
  ASSUME BadSlotsAssumption, SlotInv, Installation
  PROVE  Marks' /\ BadKept
<1>1. /\ env \in EnvType
      /\ env.fw \in SingleStates /\ env.app \in SingleStates
      /\ booted \in Slots /\ Other(booted) \in Slots /\ Other(booted) # booted
      /\ env.application \in Slots /\ Other(env.application) \in Slots
      /\ Other(env.application) # env.application
      /\ env.order \in Slots /\ env.orderOld \in Slots
      /\ Other(Other(booted)) = booted
      /\ Other(Other(env.application)) = env.application
  BY SlotFacts DEF Slots, Other
<1>2. Marks
  BY DEF SlotInv
<1>3. ASSUME env'.fw = env.fw, env'.app = env.app PROVE BadKept
  BY <1>3 DEF BadKept, KeepsBad
<1>4. CASE RaucWrite
  BY <1>2, <1>3, <1>4
     DEF RaucWrite, Marks, StatesSingle, InstallationMarked, PendingMarked,
         RebootCounted, FwNext
<1>5. CASE RaucActivate
  <2>1. /\ env'.fw = env.fw /\ env'.app = env.app /\ env'.urs = env.urs
        /\ env'.order = Other(booted)
    BY <1>1, <1>5 DEF RaucActivate, EnvType
  <2> QED
    BY <1>2, <1>3, <1>5, <2>1
       DEF RaucActivate, Marks, StatesSingle, InstallationMarked, PendingMarked,
           RebootCounted, FwNext
<1>6. CASE installBundleFails \/ TakeBackFails \/ SyncFails
  <2>1. env'.fw = env.fw /\ env'.app = env.app /\ stage' = "fw_failed" /\ up' = up
    BY <1>1, <1>6 DEF installBundleFails, TakeBackFails, SyncFails, EnvType, Board
  <2>2. stage # "idle"
    BY <1>6 DEF installBundleFails, TakeBackFails, SyncFails
  <2> QED
    BY <1>2, <1>3, <2>1, <2>2
       DEF Marks, StatesSingle, InstallationMarked, PendingMarked, RebootCounted
<1>7. CASE FirmwareInstallFailed
  <2>1. /\ env'.fw = env.fw /\ env'.app = env.app /\ stage' = "idle"
        /\ env'.urs = "FAILED_FW_UPDATE"
    BY <1>1, <1>7 DEF FirmwareInstallFailed, EnvType
  <2> QED
    BY <1>1, <1>3, <2>1, IdleMarks
<1>8. CASE FirmwareInstalled
  <2>1. FwNext = STATE_UPDATE_UNCOMMITED /\ env.order = Other(booted)
        /\ env.urs = "INCOMPLETE_FW_UPDATE"
    BY <1>2, <1>8 DEF FirmwareInstalled, Marks, InstallationMarked
  <2>2. env' = env /\ stage' = "idle" /\ phase' = "changed"
    BY <1>8 DEF FirmwareInstalled
  <2> QED
    BY <1>2, <1>3, <2>1, <2>2
       DEF Marks, StatesSingle, InstallationMarked, PendingMarked, RebootCounted, FwNext
<1>9. CASE FirmwareInstalledApplicationNext
  <2>1. /\ env'.app = [env.app EXCEPT ![Other(env.application)] = 1]
        /\ env'.fw = env.fw /\ env'.urs = "INCOMPLETE_APP_FW_UPDATE"
        /\ env'.application = env.application /\ env'.order = env.order
    BY <1>1, <1>9 DEF FirmwareInstalledApplicationNext, MarkApplication, EnvType,
                      STATE_UPDATE_UNCOMMITED
  <2>2. env'.fw \in SingleStates /\ env'.app \in SingleStates /\ BadKept
    BY <1>1, <2>1 DEF SingleStates, BadKept, KeepsBad, Uncommitted
  <2>3. stage' = "app" /\ job = "both" /\ UNCHANGED <<booted, up, job>> /\ up
    BY <1>2, <1>9 DEF FirmwareInstalledApplicationNext, Board, Marks, InstallationMarked
  <2>4. AppNext' = STATE_UPDATE_UNCOMMITED
    BY <1>1, <2>1 DEF AppNext, SingleStates, STATE_UPDATE_UNCOMMITED
  <2>5. FwNext = STATE_UPDATE_UNCOMMITED /\ env.order = Other(booted)
    BY <1>2, <1>9 DEF FirmwareInstalledApplicationNext, Marks, InstallationMarked
  <2> QED
    BY <2>1, <2>2, <2>3, <2>4, <2>5
       DEF Marks, StatesSingle, SingleStates, InstallationMarked, PendingMarked,
           RebootCounted, FwNext
<1>10. CASE ApplicationInstalled
  <2>1. /\ env'.fw = env.fw /\ env'.app = env.app /\ env'.urs = env.urs
        /\ env'.order = env.order /\ env'.application = Other(env.application)
    BY <1>1, <1>10 DEF ApplicationInstalled, SwitchApplication, EnvType
  <2>2. stage' = "idle" /\ phase' = "changed" /\ stage = "app"
    BY <1>10 DEF ApplicationInstalled
  <2>3. AppCur' = AppNext /\ AppNext = STATE_UPDATE_UNCOMMITED
    BY <1>2, <2>1, <2>2 DEF AppCur, AppNext, Marks, InstallationMarked
  <2>4. env.urs = "INCOMPLETE_APP_FW_UPDATE" =>
          env.fw[env.order] = STATE_UPDATE_UNCOMMITED
    BY <1>2, <2>2 DEF Marks, InstallationMarked, FwNext
  <2>5. env.urs # "INCOMPLETE_FW_UPDATE"
    BY <1>2, <2>2 DEF Marks, InstallationMarked
  <2> QED
    BY <1>2, <1>3, <2>1, <2>2, <2>3, <2>4, <2>5
       DEF Marks, StatesSingle, InstallationMarked, PendingMarked, RebootCounted
<1>11. CASE ApplicationInstallFails \/ ApplicationNotMarked
  <2>1. /\ env' = env /\ UNCHANGED <<booted, up, job>>
        /\ stage' \in {"app_failed", "app_unflushed"}
        /\ stage \in {"app", "activated"}
    BY <1>11 DEF ApplicationInstallFails, ApplicationNotMarked, Board
  <2> QED
    BY <1>2, <1>3, <2>1
       DEF Marks, StatesSingle, InstallationMarked, PendingMarked, RebootCounted, FwNext
<1>12. CASE ApplicationInstallFailed
  <2>1. stage \in {"app_failed", "app_unflushed"} /\ stage' = "idle"
    BY <1>12 DEF ApplicationInstallFailed
  <2>2. ASSUME NEW e \in EnvType
        PROVE  /\ AlsoStaged(e).fw = e.fw /\ AlsoStaged(e).app = e.app
               /\ AlsoStaged(e).urs = e.urs
    BY DEF AlsoStaged, SwitchApplication, EnvType
  <2>3. CASE job = "app"
    <3> DEFINE e == [env EXCEPT !.urs = "FAILED_APP_UPDATE"]
    <3>1. /\ e \in EnvType /\ e.fw = env.fw /\ e.app = env.app
          /\ e.urs = "FAILED_APP_UPDATE" /\ env' = AlsoStaged(e)
      BY <1>1, <1>12, <2>3 DEF ApplicationInstallFailed, EnvType, RebootStates
    <3> HIDE DEF e
    <3> QED
      BY <1>1, <1>3, <2>1, <2>2, <3>1, IdleMarks
  <2>4. CASE job # "app"
    <3> DEFINE e == [MarkApplication("FAILED_APP_UPDATE") EXCEPT
                       !.fw[Other(booted)] = STATE_UPDATE_COMMITED,
                       !.order = env.orderOld]
    <3>0. {STATE_UPDATE_COMMITED, STATE_UPDATE_UNCOMMITED} \subseteq SlotStates
      BY DEF STATE_UPDATE_COMMITED, STATE_UPDATE_UNCOMMITED, SlotStates
    <3>1. /\ e \in EnvType
          /\ e.fw = [env.fw EXCEPT ![Other(booted)] = STATE_UPDATE_COMMITED]
          /\ e.app = [env.app EXCEPT ![Other(env.application)] = STATE_UPDATE_UNCOMMITED]
          /\ e.urs = "FAILED_APP_UPDATE"
      BY <1>1, <3>0 DEF MarkApplication, EnvType, RebootStates
    <3>2. env' = AlsoStaged(e)
      BY <1>12, <2>4 DEF ApplicationInstallFailed
    <3> HIDE DEF e
    <3>3. /\ env'.fw = [env.fw EXCEPT ![Other(booted)] = STATE_UPDATE_COMMITED]
          /\ env'.app = [env.app EXCEPT ![Other(env.application)] = STATE_UPDATE_UNCOMMITED]
          /\ env'.urs = "FAILED_APP_UPDATE"
      BY <2>2, <3>1, <3>2
    <3>4. FwNext = STATE_UPDATE_UNCOMMITED
      BY <1>2, <2>1, <2>4 DEF Marks, InstallationMarked
    <3>5. env'.fw \in SingleStates /\ env'.app \in SingleStates /\ BadKept
      BY <1>1, <3>3, <3>4, SlotValues DEF SingleStates, BadKept, KeepsBad, FwNext
    <3> QED
      BY <2>1, <3>3, <3>5, IdleMarks
  <2> QED
    BY <2>3, <2>4
<1>13. CASE FirmwareFailureUnrecorded \/ ApplicationFailureUnrecorded
  BY <1>13 DEF FirmwareFailureUnrecorded, ApplicationFailureUnrecorded,
               BadSlotsAssumption
<1> QED
  BY <1>4, <1>5, <1>6, <1>7, <1>8, <1>9, <1>10, <1>11, <1>12, <1>13 DEF Installation

(* The board touches no slot state. *)
LEMMA BoardStepMarks ==
  ASSUME BadSlotsAssumption, SlotInv, BoardStep
  PROVE  Marks' /\ BadKept
<1>1. env \in EnvType /\ Marks
  BY SlotFacts DEF SlotInv
<1>2. ASSUME env'.fw = env.fw, env'.app = env.app PROVE BadKept
  BY <1>2 DEF BadKept, KeepsBad
<1>3. CASE Reboot
  BY <1>1, <1>2, <1>3
     DEF Reboot, Marks, StatesSingle, InstallationMarked, PendingMarked, RebootCounted,
         AppNext, AppCur
<1>4. CASE PowerFails
  BY <1>1, <1>2, <1>4
     DEF PowerFails, Marks, StatesSingle, InstallationMarked, PendingMarked, RebootCounted
<1>5. CASE BootAttempt
  <2>1. Selected \in Slots
    BY OtherSlot DEF Selected, EnvType, SlotInv, TypeOK
  <2>2. /\ env'.fw = env.fw /\ env'.app = env.app /\ env'.order = env.order
        /\ env'.application = env.application
        /\ env'.left = [env.left EXCEPT ![Selected] = @ - 1]
        /\ env'.urs = FallbackFlag
    BY <1>1, <1>5 DEF BootAttempt, EnvType
  <2>3. FallbackFlag \in {env.urs, "FW_UPDATE_REBOOT_FAILED"}
    BY DEF FallbackFlag
  <2>4. stage = "idle" /\ stage' = "idle"
    BY <1>1, <1>5 DEF BootAttempt, Marks, InstallationMarked
  <2>5. env'.left[Selected] # BootAttempts
    BY <1>1, <2>1, <2>2 DEF EnvType, BootAttempts
  <2> QED
    BY <1>1, <1>2, <2>1, <2>2, <2>3, <2>4, <2>5
       DEF Marks, StatesSingle, InstallationMarked, PendingMarked, RebootCounted,
           AppNext, AppCur
<1>6. CASE ResetCounters
  <2>1. /\ env'.fw = env.fw /\ env'.app = env.app /\ env'.order = env.order
        /\ env'.application = env.application /\ env'.urs = env.urs
    BY <1>1, <1>6 DEF ResetCounters, EnvType
  <2>2. stage = "idle" /\ stage' = "idle" /\ ~ up'
    BY <1>1, <1>6 DEF ResetCounters, Board, Marks, InstallationMarked
  <2> QED
    BY <1>1, <1>2, <2>1, <2>2
       DEF Marks, StatesSingle, InstallationMarked, PendingMarked, RebootCounted,
           AppNext, AppCur
<1> QED
  BY <1>3, <1>4, <1>5, <1>6 DEF BoardStep

(* Whatever commit_update decides, the application it leaves named is not  *)
(* bad.                                                                    *)
LEMMA CommitKeepsNamed ==
  ASSUME SlotInv, PowerMarked, CommitOutcome.can
  PROVE  LET e == CommitOutcome.env IN e.app[e.application] # STATE_UPDATE_BAD
<1> DEFINE Same(e) == e \in EnvType /\ e.app = env.app /\ e.application = env.application
           Named(e) == e.app[e.application] # STATE_UPDATE_BAD
           Fw(s, n) == [env EXCEPT !.fw[s] = n]
           App(e, s, n) == [e EXCEPT !.app[s] = n]
<1>0. /\ env \in EnvType
      /\ env.fw \in SingleStates /\ env.app \in SingleStates
      /\ booted \in Slots /\ Other(booted) \in Slots
      /\ env.application \in Slots /\ Other(env.application) \in Slots
      /\ Other(env.application) # env.application
      /\ {STATE_UPDATE_BAD, STATE_UPDATE_COMMITED} \subseteq SlotStates
      /\ STATE_UPDATE_BAD # STATE_UPDATE_COMMITED
  BY SlotFacts DEF SlotStates, STATE_UPDATE_BAD, STATE_UPDATE_COMMITED
<1> USE <1>0
<1>1. ASSUME NEW e \in EnvType
      PROVE  /\ Idle(e).app = e.app /\ Idle(e).application = e.application
             /\ BackToOldOrder(e) \in EnvType /\ KeepNewOrder(e) \in EnvType
             /\ BackToOldOrder(e).app = e.app /\ BackToOldOrder(e).application = e.application
             /\ KeepNewOrder(e).app = e.app /\ KeepNewOrder(e).application = e.application
  BY OrderHelpers DEF EnvType, Idle, BackToOldOrder, KeepNewOrder
<1>2. ASSUME NEW e \in EnvType, Named(e)
      PROVE  /\ Named(Idle(e)) /\ Named(Idle(BackToOldOrder(e)))
             /\ Named(Idle(KeepNewOrder(e)))
  <2>1. /\ Idle(BackToOldOrder(e)).app = e.app
        /\ Idle(BackToOldOrder(e)).application = e.application
        /\ Idle(KeepNewOrder(e)).app = e.app
        /\ Idle(KeepNewOrder(e)).application = e.application
    BY <1>1
  <2> QED
    BY <1>1, <1>2, <2>1
<1>3. ASSUME NEW e, Same(e) PROVE Named(e)
  BY <1>3 DEF PowerMarked, AppCur
<1>4. ASSUME NEW s \in Slots, NEW n \in SlotStates PROVE Same(Fw(s, n))
  BY DEF EnvType
<1>5. ASSUME NEW e, Same(e)
      PROVE  /\ App(e, env.application, STATE_UPDATE_COMMITED) \in EnvType
             /\ Named(App(e, env.application, STATE_UPDATE_COMMITED))
             /\ App(e, Other(env.application), STATE_UPDATE_BAD) \in EnvType
             /\ Named(App(e, Other(env.application), STATE_UPDATE_BAD))
  <2>1. e \in EnvType /\ Named(e) /\ e.application = env.application
    BY <1>3, <1>5
  <2> QED
    BY <2>1 DEF EnvType
<1>6. /\ confirmPendingApplicationUpdate
           = Idle(App(env, env.application, STATE_UPDATE_COMMITED))
      /\ confirmPendingFirmwareUpdate =
           IF firmware_update_reboot_failed
           THEN Idle(BackToOldOrder(Fw(Other(booted), STATE_UPDATE_BAD)))
           ELSE Idle(KeepNewOrder(Fw(booted, STATE_UPDATE_COMMITED)))
      /\ confirmFailedFirmwareUpdate = Idle(Fw(Other(booted), STATE_UPDATE_BAD))
      /\ confirmFailedRebootFirmwareUpdate = Idle(Fw(booted, STATE_UPDATE_BAD))
      /\ confirmFailedApplicationeUpdate
           = Idle(App(env, Other(env.application), STATE_UPDATE_BAD))
      /\ FirmwareRolledBack(env) =
           IF FwNext = STATE_UPDATE_COMMITED THEN KeepNewOrder(env)
           ELSE BackToOldOrder(Fw(Other(booted), STATE_UPDATE_BAD))
      /\ \A e : ApplicationRolledBack(e) =
           IF AppNext = STATE_UPDATE_UNCOMMITED
           THEN App(e, Other(env.application), STATE_UPDATE_BAD) ELSE e
  BY DEF confirmPendingApplicationUpdate, confirmPendingFirmwareUpdate,
         confirmFailedFirmwareUpdate, confirmFailedRebootFirmwareUpdate,
         confirmFailedApplicationeUpdate, FirmwareRolledBack, ApplicationRolledBack
<1>7. ASSUME pendingApplicationFirmwareUpdate
      PROVE  Named(confirmPendingApplicationFirmwareUpdate)
  <2>1. env.app[Other(env.application)] # STATE_UPDATE_BAD
    BY <1>7 DEF pendingApplicationFirmwareUpdate, PowerMarked
  <2>2. CASE firmware_update_reboot_failed
    <3> DEFINE e == [env EXCEPT !.app[env.application] = STATE_UPDATE_COMMITED,
                                !.fw[Other(booted)] = STATE_UPDATE_BAD,
                                !.application = Other(env.application)]
    <3>1. e \in EnvType
      BY DEF EnvType
    <3>2. /\ e.app = [env.app EXCEPT ![env.application] = STATE_UPDATE_COMMITED]
          /\ e.application = Other(env.application)
      BY DEF EnvType
    <3>3. confirmPendingApplicationFirmwareUpdate = Idle(BackToOldOrder(e))
      BY <2>2 DEF confirmPendingApplicationFirmwareUpdate
    <3> HIDE DEF e
    <3>4. Named(e)
      BY <2>1, <3>2 DEF SingleStates
    <3> QED
      BY <1>2, <3>1, <3>3, <3>4
  <2>3. CASE ~ firmware_update_reboot_failed
    <3> DEFINE e == [env EXCEPT !.fw[booted] = STATE_UPDATE_COMMITED,
                                !.app[env.application] = STATE_UPDATE_COMMITED]
    <3>1. e \in EnvType
      BY DEF EnvType
    <3>2. /\ e.app = [env.app EXCEPT ![env.application] = STATE_UPDATE_COMMITED]
          /\ e.application = env.application
      BY DEF EnvType
    <3>3. confirmPendingApplicationFirmwareUpdate = Idle(KeepNewOrder(e))
      BY <2>3 DEF confirmPendingApplicationFirmwareUpdate
    <3> HIDE DEF e
    <3>4. Named(e)
      BY <3>2 DEF SingleStates
    <3> QED
      BY <1>2, <3>1, <3>3, <3>4
  <2> QED
    BY <2>2, <2>3
<1>8. noUpdateProcessing => Named(MarkGood)
  BY DEF noUpdateProcessing, MarkGood, EnvType, PowerMarked, AppCur
<1>9. Same(env) /\ Same(FirmwareRolledBack(env))
  <2>1. Same(KeepNewOrder(env))
    BY <1>1
  <2>2. Same(Fw(Other(booted), STATE_UPDATE_BAD))
    BY <1>4
  <2>3. Same(BackToOldOrder(Fw(Other(booted), STATE_UPDATE_BAD)))
    BY <1>1, <2>2
  <2> QED
    BY <1>6, <2>1, <2>3
<1>10. ASSUME NEW e, Same(e)
       PROVE  ApplicationRolledBack(e) \in EnvType /\ Named(ApplicationRolledBack(e))
  BY <1>3, <1>5, <1>6, <1>10
<1> HIDE DEF Fw, App, Same, Named
<1>11. ASSUME NEW e, Same(e) PROVE e \in EnvType /\ Named(e)
  BY <1>3, <1>11 DEF Same
<1>12. Named(confirmUpdateRollback)
  BY <1>2, <1>9, <1>10, <1>11 DEF confirmUpdateRollback
<1>13. /\ Named(confirmPendingApplicationUpdate)
       /\ Named(confirmPendingFirmwareUpdate)
       /\ Named(confirmFailedFirmwareUpdate)
       /\ Named(confirmFailedRebootFirmwareUpdate)
       /\ Named(confirmFailedApplicationeUpdate)
  BY <1>2, <1>4, <1>5, <1>6, <1>9, <1>11
<1>14. Named(CommitOutcome.env)
  BY <1>7, <1>8, <1>12, <1>13 DEF CommitOutcome
<1> QED
  BY <1>14 DEF Named

(* Where power fails, the public calls keep what the slots are known by.   *)
LEMMA ClientCallPowerMarked ==
  ASSUME BadSlotsAssumption, "power" \in Faults, IInv, SlotInv, PowerMarked,
         staged = "nothing", ClientCall
  PROVE  PowerMarked'
<1>0. \A e : Flushed(e) = e
  BY FlushedNothing
<1>1. /\ env \in EnvType
      /\ env.fw \in SingleStates /\ env.app \in SingleStates
      /\ booted \in Slots /\ Other(booted) \in Slots
      /\ env.application \in Slots /\ Other(env.application) \in Slots
      /\ Other(env.application) # env.application
      /\ env.order \in Slots
  BY SlotFacts
<1>2. ASSUME env' = env PROVE PowerMarked'
  BY <1>2 DEF PowerMarked, AppCur
<1>3. ASSUME env'.app[env'.application] # STATE_UPDATE_BAD,
             env'.urs \notin {"INCOMPLETE_FW_UPDATE", "INCOMPLETE_APP_UPDATE",
                              "INCOMPLETE_APP_FW_UPDATE"}
      PROVE  PowerMarked'
  BY <1>3 DEF PowerMarked, AppCur
<1>4. CASE \E c \in AllCalls : ReadRejected(c)
  BY <1>2, <1>4 DEF ReadRejected, Throw
<1>5. CASE \E c \in UpdateCalls : decorator_update_state(c)
  BY <1>2, <1>5 DEF decorator_update_state, Throw
<1>6. ASSUME NEW j \in {"fw", "both"}, BeginFirmware(j) PROVE PowerMarked'
  <2>1. env.order = env.orderOld
    BY <1>6 DEF BeginFirmware, noUpdateProcessing, IInv, OrdersInv, OrdersAgree,
                FirmwareInFlux
  <2>2. /\ env'.app = env.app /\ env'.application = env.application
        /\ env'.order = env.order /\ env'.orderOld = env.orderOld
        /\ env'.urs = "INCOMPLETE_FW_UPDATE"
    BY <1>1, <1>6 DEF Flushed, BeginFirmware, EnvType
  <2> QED
    BY <2>1, <2>2 DEF PowerMarked, AppCur
<1>7. CASE update_firmware \/ update_firmware_and_application
  BY <1>6, <1>7 DEF update_firmware, update_firmware_and_application
<1>8. CASE CombinedUpdateNotStarted
  BY <1>2, <1>8 DEF CombinedUpdateNotStarted
<1>9. CASE update_application
  <2>1. /\ env'.app = [env.app EXCEPT ![Other(env.application)] = 1]
        /\ env'.application = env.application /\ env'.urs = "INCOMPLETE_APP_UPDATE"
    BY <1>1, <1>9
       DEF Flushed, update_application, MarkApplication, EnvType, STATE_UPDATE_UNCOMMITED
  <2>2. env.app[env.application] # 2
    BY SlotValues DEF PowerMarked, AppCur
  <2>3. \A s \in Slots : s = env.application \/ s = Other(env.application)
    BY <1>1 DEF Slots
  <2>4. \A s \in Slots : env'.app[s] # 2
    BY <1>1, <2>1, <2>2, <2>3 DEF SingleStates
  <2> QED
    BY <1>1, <2>1, <2>4, SlotValues DEF PowerMarked, AppCur
<1>10. CASE commit_update
  <2>1. stage = "idle" /\ (~ CommitOutcome.can => env' = env)
        /\ (CommitOutcome.can => env' = CommitOutcome.env)
    BY <1>0, <1>10 DEF commit_update, CanRead, CallsNow
  <2>2. CommitSafe
    BY <2>1, SafeToCommit DEF PowerInv
  <2> QED
    BY <1>2, <1>3, <2>1, <2>2, CommitKeepsBad, CommitKeepsNamed
<1>11. ASSUME env.urs \in {"INCOMPLETE_APP_UPDATE", "INCOMPLETE_APP_FW_UPDATE"}
       PROVE  AppNext # STATE_UPDATE_BAD
  BY <1>1, <1>11 DEF PowerMarked, AppNext
<1>12. ASSUME env'.app = env.app, env'.application = env.application,
              env'.urs \notin {"INCOMPLETE_FW_UPDATE", "INCOMPLETE_APP_UPDATE",
                               "INCOMPLETE_APP_FW_UPDATE"}
       PROVE  PowerMarked'
  BY <1>3, <1>12 DEF PowerMarked, AppCur
<1>13. ASSUME env'.app = env.app, env'.application = Other(env.application),
              AppNext # STATE_UPDATE_BAD,
              env'.urs \notin {"INCOMPLETE_FW_UPDATE", "INCOMPLETE_APP_UPDATE",
                               "INCOMPLETE_APP_FW_UPDATE"}
       PROVE  PowerMarked'
  BY <1>3, <1>13 DEF AppNext
<1>14. CASE RollbackUncommittedFirmware
  <2>1. /\ firmware_rollback \in EnvType
        /\ firmware_rollback.app = env.app
        /\ firmware_rollback.application = env.application
        /\ \/ firmware_rollback = env
           \/ firmware_rollback.urs \in {"NO_UPDATE_REBOOT_PENDING",
                                         "ROLLBACK_FW_REBOOT_PENDING"}
    BY <1>1, RollbackTypes
       DEF firmware_rollback, EnvType, Idle, BackToOldOrder
  <2>2. CASE pendingApplicationFirmwareUpdate
    <3>1. env' = [SwitchApplication(firmware_rollback) EXCEPT
                    !.urs = "ROLLBACK_APP_FW_REBOOT_PENDING"]
      BY <1>0, <1>14, <2>2 DEF RollbackUncommittedFirmware, Rolled
    <3>2. /\ env'.app = env.app /\ env'.application = Other(env.application)
          /\ env'.urs = "ROLLBACK_APP_FW_REBOOT_PENDING"
      BY <2>1, <3>1 DEF SwitchApplication, EnvType
    <3>3. AppNext # STATE_UPDATE_BAD
      BY <1>11, <2>2 DEF pendingApplicationFirmwareUpdate
    <3> QED
      BY <1>13, <3>2, <3>3
  <2>3. CASE ~ pendingApplicationFirmwareUpdate
    <3>1. env' = firmware_rollback
      BY <1>0, <1>14, <2>3 DEF RollbackUncommittedFirmware, Rolled
    <3> QED
      BY <1>2, <1>12, <2>1, <3>1
  <2> QED
    BY <2>2, <2>3
<1>15. CASE SwitchFirmware
  <2>1. /\ env'.app = env.app /\ env'.application = env.application
        /\ env'.urs = "ROLLBACK_FW_REBOOT_PENDING"
    BY <1>1, <1>15 DEF Flushed, SwitchFirmware, Rolled, EnvType
  <2> QED
    BY <1>12, <2>1
<1>16. CASE RollbackUncommittedApplication
  <2>1. CASE pendingApplicationUpdate
    <3>1. env' = applicaton_rollback
      BY <1>0, <1>16, <2>1 DEF RollbackUncommittedApplication, Rolled
    <3>2. AppNext # STATE_UPDATE_BAD
      BY <1>11, <2>1 DEF pendingApplicationUpdate
    <3>3. CASE application_reboot
      <4>1. /\ env'.app = env.app /\ env'.application = Other(env.application)
            /\ env'.urs = "ROLLBACK_APP_REBOOT_PENDING"
        BY <1>1, <3>1, <3>3 DEF applicaton_rollback, SwitchApplication, EnvType
      <4> QED
        BY <1>13, <3>2, <4>1
    <3>4. CASE ~ application_reboot
      <4>1. /\ env'.app = [env.app EXCEPT ![env.application] = STATE_UPDATE_COMMITED]
            /\ env'.application = Other(env.application)
            /\ env'.urs = "NO_UPDATE_REBOOT_PENDING"
        BY <1>1, <3>1, <3>4 DEF applicaton_rollback, SwitchApplication, Idle, EnvType
      <4> QED
        BY <1>1, <1>3, <3>2, <4>1 DEF AppNext, SingleStates
    <3> QED
      BY <3>3, <3>4
  <2>2. CASE ~ pendingApplicationUpdate
    BY <1>2, <1>16, <2>2 DEF RollbackUncommittedApplication, Rolled
  <2> QED
    BY <2>1, <2>2
<1>17. CASE SwitchToOtherApplication
  <2>1. /\ env'.app = env.app /\ env'.application = Other(env.application)
        /\ env'.urs = "ROLLBACK_APP_REBOOT_PENDING"
    BY <1>1, <1>17 DEF Flushed, SwitchToOtherApplication, Rolled, SwitchApplication, EnvType
  <2>2. AppNext # STATE_UPDATE_BAD
    BY <1>1, <1>17, SlotValues DEF SwitchToOtherApplication, AppNext, SingleStates
  <2> QED
    BY <1>13, <2>1, <2>2
<1>18. CASE RollbackFirmwareRefused \/ RollbackApplicationRefused
  BY <1>2, <1>18 DEF RollbackFirmwareRefused, RollbackApplicationRefused, Throw
<1>19. ASSUME NEW s \in Slots, NEW id \in {0, 1}, set_update_state_bad(s, id)
       PROVE  FALSE
  BY <1>19 DEF set_update_state_bad, CanRead, CallsNow, BadSlotsAssumption
<1>20. CASE update_reboot_state
  <2>1. /\ env'.app = env.app /\ env'.application = env.application
        /\ env'.urs \notin {"INCOMPLETE_FW_UPDATE", "INCOMPLETE_APP_UPDATE",
                            "INCOMPLETE_APP_FW_UPDATE"}
    BY <1>0, <1>1, <1>20 DEF update_reboot_state, Applied, EnvType
  <2> QED
    BY <1>12, <2>1
<1> QED
  BY <1>4, <1>5, <1>7, <1>8, <1>9, <1>10, <1>14, <1>15, <1>16, <1>17, <1>18, <1>19, <1>20
     DEF ClientCall, rollback_firmware, rollback_application

(* So does an installation: it names no application it has not marked.     *)
LEMMA InstallationPowerMarked ==
  ASSUME BadSlotsAssumption, IInv, SlotInv, PowerMarked, Installation
  PROVE  PowerMarked'
<1>1. /\ env \in EnvType
      /\ env.fw \in SingleStates /\ env.app \in SingleStates
      /\ booted \in Slots /\ Other(booted) \in Slots
      /\ env.application \in Slots /\ Other(env.application) \in Slots
      /\ Other(env.application) # env.application
      /\ env.order \in Slots
  BY SlotFacts
<1>2. ASSUME env' = env PROVE PowerMarked'
  BY <1>2 DEF PowerMarked, AppCur
<1>3. InstallationMarked
  BY DEF SlotInv, Marks
<1>4. \A s \in Slots : s = env.application \/ s = Other(env.application)
  BY <1>1 DEF Slots
<1>5. CASE RaucActivate
  <2>1. /\ env'.fw = env.fw /\ env'.app = env.app /\ env'.urs = env.urs
        /\ env'.application = env.application /\ env'.order = Other(booted)
    BY <1>1, <1>5 DEF RaucActivate, EnvType
  <2>2. env.urs = "INCOMPLETE_FW_UPDATE" /\ FwNext = STATE_UPDATE_UNCOMMITED
    BY <1>3, <1>5 DEF RaucActivate, InstallationMarked
  <2> QED
    BY <2>1, <2>2 DEF PowerMarked, AppCur, FwNext
<1>6. CASE installBundleFails
  <2>1. /\ env'.app = env.app /\ env'.urs = env.urs
        /\ env'.application = env.application /\ env'.order = env'.orderOld
    BY <1>1, <1>6 DEF installBundleFails, EnvType
  <2> QED
    BY <2>1 DEF PowerMarked, AppCur
<1>7. CASE FirmwareInstallFailed
  <2>1. /\ env'.app = env.app /\ env'.urs = "FAILED_FW_UPDATE"
        /\ env'.application = env.application
    BY <1>1, <1>7 DEF FirmwareInstallFailed, EnvType
  <2> QED
    BY <2>1 DEF PowerMarked, AppCur
<1>8. CASE FirmwareInstalledApplicationNext
  <2>1. /\ env'.app = [env.app EXCEPT ![Other(env.application)] = STATE_UPDATE_UNCOMMITED]
        /\ env'.fw = env.fw /\ env'.urs = "INCOMPLETE_APP_FW_UPDATE"
        /\ env'.application = env.application /\ env'.order = env.order
    BY <1>1, <1>8 DEF FirmwareInstalledApplicationNext, MarkApplication, EnvType
  <2>2. FwNext = STATE_UPDATE_UNCOMMITED /\ env.order = Other(booted)
    BY <1>3, <1>8 DEF FirmwareInstalledApplicationNext, InstallationMarked
  <2>3. env.app[env.application] # 2
    BY SlotValues DEF PowerMarked, AppCur
  <2>4. \A s \in Slots : env'.app[s] # 2
    BY <1>1, <1>4, <2>1, <2>3, SlotValues DEF SingleStates
  <2> QED
    BY <1>1, <2>1, <2>2, <2>4, SlotValues DEF PowerMarked, AppCur, FwNext
<1>9. CASE ApplicationInstalled
  <2>1. /\ env'.fw = env.fw /\ env'.app = env.app /\ env'.urs = env.urs
        /\ env'.order = env.order /\ env'.orderOld = env.orderOld
        /\ env'.application = Other(env.application)
    BY <1>1, <1>9 DEF ApplicationInstalled, SwitchApplication, EnvType
  <2>2. AppNext = STATE_UPDATE_UNCOMMITED
    BY <1>3, <1>9 DEF ApplicationInstalled, InstallationMarked
  <2> QED
    BY <2>1, <2>2, SlotValues DEF PowerMarked, AppCur, AppNext
<1>10. CASE ApplicationInstallFailed
  <2>1. ASSUME NEW e \in EnvType
        PROVE  /\ AlsoStaged(e).app = e.app /\ AlsoStaged(e).urs = e.urs
               /\ AlsoStaged(e).application \in {e.application, Other(e.application)}
    BY DEF AlsoStaged, SwitchApplication, EnvType, Slots, Other
  <2>2. CASE job = "app"
    <3> DEFINE e == [env EXCEPT !.urs = "FAILED_APP_UPDATE"]
    <3>1. /\ e \in EnvType /\ e.app = env.app /\ e.application = env.application
          /\ e.urs = "FAILED_APP_UPDATE" /\ env' = AlsoStaged(e)
      BY <1>1, <1>10, <2>2 DEF ApplicationInstallFailed, EnvType, RebootStates
    <3>2. env.urs = "INCOMPLETE_APP_UPDATE"
      BY <1>10, <2>2 DEF ApplicationInstallFailed, IInv, OrdersInv, WorkRecorded
    <3>3. \A s \in Slots : env.app[s] # STATE_UPDATE_BAD
      BY <3>2 DEF PowerMarked
    <3> HIDE DEF e
    <3>4. /\ env'.app = env.app /\ env'.urs = "FAILED_APP_UPDATE"
          /\ env'.application \in Slots
      BY <1>1, <2>1, <3>1
    <3>5. env'.app[env'.application] # STATE_UPDATE_BAD
      BY <3>3, <3>4
    <3> QED
      BY <3>4, <3>5 DEF PowerMarked, AppCur
  <2>3. CASE job # "app"
    <3> DEFINE e == [MarkApplication("FAILED_APP_UPDATE") EXCEPT
                       !.fw[Other(booted)] = STATE_UPDATE_COMMITED,
                       !.order = env.orderOld]
    <3>0. {STATE_UPDATE_COMMITED, STATE_UPDATE_UNCOMMITED} \subseteq SlotStates
      BY DEF STATE_UPDATE_COMMITED, STATE_UPDATE_UNCOMMITED, SlotStates
    <3>1. /\ e \in EnvType
          /\ e.app = [env.app EXCEPT ![Other(env.application)] = STATE_UPDATE_UNCOMMITED]
          /\ e.application = env.application
          /\ e.urs = "FAILED_APP_UPDATE"
      BY <1>1, <3>0 DEF MarkApplication, EnvType, RebootStates
    <3>2. env' = AlsoStaged(e)
      BY <1>10, <2>3 DEF ApplicationInstallFailed
    <3>3. env.app[env.application] # 2
      BY SlotValues DEF PowerMarked, AppCur
    <3> HIDE DEF e
    <3>4. ASSUME NEW s \in Slots PROVE e.app[s] # 2
      <4>1. e.app = [env.app EXCEPT ![Other(env.application)] = 1]
        BY <3>1, SlotValues
      <4>2. s = env.application \/ s = Other(env.application)
        BY <1>4
      <4> QED
        BY <1>1, <3>3, <4>1, <4>2 DEF SingleStates
    <3>5. /\ env'.app = e.app /\ env'.urs = "FAILED_APP_UPDATE"
          /\ env'.application \in Slots
      BY <1>1, <2>1, <3>1, <3>2
    <3> QED
      BY <3>4, <3>5, SlotValues DEF PowerMarked, AppCur
  <2> QED
    BY <2>2, <2>3
<1>11. CASE RaucWrite \/ TakeBackFails \/ SyncFails \/ FirmwareInstalled
              \/ ApplicationInstallFails \/ ApplicationNotMarked
  BY <1>2, <1>11
     DEF RaucWrite, TakeBackFails, SyncFails, FirmwareInstalled, ApplicationInstallFails,
         ApplicationNotMarked
<1>12. CASE FirmwareFailureUnrecorded \/ ApplicationFailureUnrecorded
  BY <1>12 DEF FirmwareFailureUnrecorded, ApplicationFailureUnrecorded,
               BadSlotsAssumption
<1> QED
  BY <1>5, <1>6, <1>7, <1>8, <1>9, <1>10, <1>11, <1>12 DEF Installation

(* So does the board. *)
LEMMA BoardStepPowerMarked ==
  ASSUME BadSlotsAssumption, "power" \in Faults, SlotInv, PowerMarked, BoardStep
  PROVE  PowerMarked'
<1>1. env \in EnvType
  BY SlotFacts
<1>2. "fallback_flag" \notin Faults
  BY DEF BadSlotsAssumption, OrdersAssumption
<1>3. ASSUME env'.fw = env.fw, env'.app = env.app, env'.application = env.application,
             env'.order = env.order, env'.orderOld = env.orderOld, env'.urs = env.urs
      PROVE  PowerMarked'
  BY <1>3 DEF PowerMarked, AppCur
<1>4. CASE Reboot \/ PowerFails
  BY <1>3, <1>4 DEF Reboot, PowerFails
<1>5. CASE BootAttempt
  <2>1. /\ env'.fw = env.fw /\ env'.app = env.app /\ env'.application = env.application
        /\ env'.order = env.order /\ env'.orderOld = env.orderOld
        /\ env'.urs = FallbackFlag
    BY <1>1, <1>5 DEF BootAttempt, EnvType
  <2> QED
    BY <1>2, <1>3, <2>1 DEF FallbackFlag
<1>6. CASE ResetCounters
  BY <1>1, <1>3, <1>6 DEF ResetCounters, EnvType
<1> QED
  BY <1>4, <1>5, <1>6 DEF BoardStep

(* SlotInv is inductive, and from it no step commits a bad slot. *)
LEMMA NextMarks ==
  ASSUME BadSlotsAssumption, SlotInv, PowerInv, staged = "nothing", [Next]_vars
  PROVE  SlotInv' /\ BadKept
<1>1. TypeOK'
  BY NextType DEF SlotInv
<1>2. CASE UNCHANGED vars
  BY <1>2 DEF vars, SlotInv, Marks, StatesSingle, InstallationMarked, PendingMarked,
     RebootCounted, TypeOK, FwNext, AppNext, AppCur, BadKept, KeepsBad
<1>3. CASE Next
  BY <1>1, <1>3, ClientCallMarks, InstallationMarks, BoardStepMarks DEF Next, SlotInv
<1> QED
  BY <1>2, <1>3

(* PowerInv is inductive where power fails, and says nothing elsewhere. *)
LEMMA NextPowerMarked ==
  ASSUME BadSlotsAssumption, SlotInv, PowerInv, staged = "nothing", [Next]_vars
  PROVE  PowerInv'
<1>1. CASE "power" \notin Faults
  BY <1>1 DEF PowerInv
<1>2. CASE "power" \in Faults
  <2>1. IInv /\ PowerMarked /\ OrdersAssumption
    BY <1>2 DEF PowerInv, BadSlotsAssumption
  <2>2. IInv'
    BY <2>1, NextType, NextOrders DEF IInv
  <2>3. PowerMarked'
    <3>1. CASE UNCHANGED vars
      BY <2>1, <3>1 DEF vars, PowerMarked, AppCur
    <3>2. CASE Next
      BY <1>2, <2>1, <3>2, ClientCallPowerMarked, InstallationPowerMarked,
         BoardStepPowerMarked DEF Next
    <3> QED
      BY <3>1, <3>2
  <2> QED
    BY <2>2, <2>3 DEF PowerInv
<1> QED
  BY <1>1, <1>2

(* A bad slot stays bad until an installation writes it again, whatever    *)
(* goes wrong with the installation, with taking it back and with the      *)
(* boot, as long as the handlers can record the failure and the client     *)
(* does not roll back before the reboot.  Where power fails too, the two   *)
(* boot orders must not come apart for any other reason, and the client    *)
(* must not declare the slot in use bad.                                   *)
THEOREM BadSlotsStayBad == BadSlotsAssumption => (Spec => BadStaysBad)
<1> SUFFICES ASSUME BadSlotsAssumption PROVE Spec => BadStaysBad
  OBVIOUS
<1> DEFINE Inv == SlotInv /\ PowerInv
<1>1. Init => Inv
  <2> SUFFICES ASSUME Init PROVE Inv
    OBVIOUS
  <2>1. TypeOK
    BY InitialType
  <2>2. SlotInv
    BY <2>1 DEF Init, FactoryEnv, SlotInv, Marks, StatesSingle, InstallationMarked,
       PendingMarked, RebootCounted, STATE_UPDATE_COMMITED
  <2>3. OrdersInv
    BY DEF Init, FactoryEnv, OrdersInv, OrdersAgree, WorkRecorded, LateRecord
  <2>4. PowerMarked
    BY DEF Init, FactoryEnv, PowerMarked, AppCur, Slots, STATE_UPDATE_COMMITED,
           STATE_UPDATE_BAD
  <2> QED
    BY <2>1, <2>2, <2>3, <2>4 DEF PowerInv, IInv
<1>2. Inv /\ staged = "nothing" /\ [Next]_vars => Inv'
  BY NextMarks, NextPowerMarked
<1>3. Inv /\ staged = "nothing" /\ [Next]_vars =>
        [\A s \in Slots :
           /\ Bad(env.fw[s]) => Bad(env'.fw[s]) \/ Uncommitted(env'.fw[s])
           /\ Bad(env.app[s]) => Bad(env'.app[s]) \/ Uncommitted(env'.app[s])]_vars
  BY NextMarks DEF BadKept, KeepsBad
<1>4. Spec => [](staged = "nothing")
  BY NothingStaged DEF BadSlotsAssumption
<1> HIDE DEF Inv
<1> QED
  BY <1>1, <1>2, <1>3, <1>4, PTL DEF Spec, BadStaysBad

-----------------------------------------------------------------------------
(* What commit_update confirms. *)

(* Only a combined update is confirmed without asking which application is *)
(* mounted, so its client has to reboot first.                             *)
CommitAssumption ==
  "early_commit" \in Habits => "update_firmware_and_application" \notin Calls

(* A pending combined update has its application mounted once the board    *)
(* has booted into it.  Before that a failure that was not recorded may    *)
(* have left it pending; then it is the other application that is marked.  *)
(* What a failed handler leaves staged never names a combined update, and  *)
(* without a call nothing of one ever shows.                               *)
CombinedMounted ==
  /\ (up /\ stage = "idle" /\ phase # "changed"
        /\ env.urs = "INCOMPLETE_APP_FW_UPDATE" /\ Uncommitted(AppCur)) =>
       mounted = env.application \/ Uncommitted(AppNext)
  /\ stage \in {"rauc", "writing", "activated", "fw_failed"} =>
       env.urs # "INCOMPLETE_APP_FW_UPDATE"
  /\ (stage \in {"app", "app_failed", "app_unflushed"}
        /\ env.urs = "INCOMPLETE_APP_FW_UPDATE") =>
       job # "app" /\ Uncommitted(AppNext)
  /\ staged # "nothing" => stage = "idle" /\ env.urs # "INCOMPLETE_APP_FW_UPDATE"
  /\ "update_firmware_and_application" \notin Calls =>
       job # "both" /\ env.urs # "INCOMPLETE_APP_FW_UPDATE"

MountInv == TypeOK /\ CombinedMounted

(* No entry of f becomes committed in g, but at slot s. *)
CommitsAtMost(f, g, s) ==
  \A t \in Slots : Uncommitted(f[t]) /\ g[t] = STATE_UPDATE_COMMITED => t = s

(* No entry of f becomes committed in g. *)
CommitsNothing(f, g) ==
  \A t \in Slots : ~ (Uncommitted(f[t]) /\ g[t] = STATE_UPDATE_COMMITED)

(* The step commits nothing but what runs. *)
RunningCommitted ==
  last'.call = "commit_update" =>
    /\ CommitsAtMost(env.fw, env'.fw, booted)
    /\ CommitsAtMost(env.app, env'.app, mounted)

(* Each confirmation commits at most the booted firmware and the           *)
(* application that is named, the latter only if it is mounted or the      *)
(* update was a combined one.                                              *)
LEMMA CommitEffects ==
  ASSUME TypeOK, CommitOutcome.can
  PROVE  LET e == CommitOutcome.env
         IN  /\ e.urs = "NO_UPDATE_REBOOT_PENDING"
             /\ CommitsAtMost(env.fw, e.fw, booted)
             /\ \/ CommitsNothing(env.app, e.app)
                \/ /\ CommitsAtMost(env.app, e.app, env.application)
                   /\ application_reboot \/ env.urs = "INCOMPLETE_APP_FW_UPDATE"
<1> DEFINE Fw(e) == CommitsAtMost(env.fw, e.fw, booted)
           NoApp(e) == CommitsNothing(env.app, e.app)
           OwnApp(e) == CommitsAtMost(env.app, e.app, env.application)
           Quiet(e) == e \in EnvType /\ Fw(e) /\ NoApp(e)
           Idled(e) == e.urs = "NO_UPDATE_REBOOT_PENDING"
<1>1. /\ env \in EnvType
      /\ booted \in Slots /\ Other(booted) \in Slots
      /\ env.application \in Slots /\ Other(env.application) \in Slots
      /\ env.fw \in [Slots -> SlotStates] /\ env.app \in [Slots -> SlotStates]
  BY OtherSlot DEF TypeOK, EnvType
<1>2. {STATE_UPDATE_BAD, STATE_UPDATE_COMMITED} \subseteq SlotStates
  BY DEF STATE_UPDATE_BAD, STATE_UPDATE_COMMITED, SlotStates
<1>3. \A n \in SlotStates : Uncommitted(n) => n # STATE_UPDATE_COMMITED
  BY DEF Uncommitted, STATE_UPDATE_COMMITED
<1>4. STATE_UPDATE_BAD # STATE_UPDATE_COMMITED
  BY DEF STATE_UPDATE_BAD, STATE_UPDATE_COMMITED
<1>5. Quiet(env)
  BY <1>1, <1>3 DEF CommitsAtMost, CommitsNothing
<1>6. ASSUME NEW e \in EnvType
      PROVE  /\ Idled(Idle(e))
             /\ Fw(Idle(e)) <=> Fw(e)
             /\ NoApp(Idle(e)) <=> NoApp(e)
             /\ OwnApp(Idle(e)) <=> OwnApp(e)
             /\ BackToOldOrder(e) \in EnvType /\ KeepNewOrder(e) \in EnvType
             /\ Fw(BackToOldOrder(e)) <=> Fw(e)
             /\ NoApp(BackToOldOrder(e)) <=> NoApp(e)
             /\ OwnApp(BackToOldOrder(e)) <=> OwnApp(e)
             /\ Fw(KeepNewOrder(e)) <=> Fw(e)
             /\ NoApp(KeepNewOrder(e)) <=> NoApp(e)
             /\ OwnApp(KeepNewOrder(e)) <=> OwnApp(e)
  BY SlotsUntouched, OrderHelpers
<1> DEFINE Done(e) == /\ Idled(e) /\ Fw(e)
                      /\ \/ NoApp(e)
                         \/ /\ OwnApp(e)
                            /\ application_reboot \/ env.urs = "INCOMPLETE_APP_FW_UPDATE"
           WriteFw(s, n) == [env EXCEPT !.fw[s] = n]
           WriteApp(e, s, n) == [e EXCEPT !.app[s] = n]
<1>7. ASSUME NEW s \in Slots, NEW n \in SlotStates,
             s = booted \/ n = STATE_UPDATE_BAD
      PROVE  Quiet(WriteFw(s, n))
  <2>1. WriteFw(s, n) \in EnvType
    BY <1>1 DEF EnvType
  <2>2. WriteFw(s, n).fw = [env.fw EXCEPT ![s] = n] /\ WriteFw(s, n).app = env.app
    BY <1>1 DEF EnvType
  <2> HIDE DEF WriteFw
  <2> QED
    BY <1>1, <1>3, <1>4, <1>7, <2>1, <2>2 DEF CommitsAtMost, CommitsNothing
<1>8. ASSUME NEW e \in EnvType, Quiet(e), NEW s \in Slots
      PROVE  Quiet(WriteApp(e, s, STATE_UPDATE_BAD))
  <2>1. WriteApp(e, s, STATE_UPDATE_BAD) \in EnvType
    BY <1>2 DEF EnvType
  <2>2. /\ WriteApp(e, s, STATE_UPDATE_BAD).app = [e.app EXCEPT ![s] = STATE_UPDATE_BAD]
        /\ WriteApp(e, s, STATE_UPDATE_BAD).fw = e.fw
        /\ e.app \in [Slots -> SlotStates]
    BY DEF EnvType
  <2> HIDE DEF WriteApp
  <2> QED
    BY <1>4, <1>8, <2>1, <2>2 DEF CommitsAtMost, CommitsNothing
<1>9. /\ confirmPendingFirmwareUpdate =
           IF firmware_update_reboot_failed
           THEN Idle(BackToOldOrder(WriteFw(Other(booted), STATE_UPDATE_BAD)))
           ELSE Idle(KeepNewOrder(WriteFw(booted, STATE_UPDATE_COMMITED)))
      /\ confirmFailedFirmwareUpdate = Idle(WriteFw(Other(booted), STATE_UPDATE_BAD))
      /\ confirmFailedRebootFirmwareUpdate = Idle(WriteFw(booted, STATE_UPDATE_BAD))
      /\ confirmFailedApplicationeUpdate
           = Idle(WriteApp(env, Other(env.application), STATE_UPDATE_BAD))
      /\ FirmwareRolledBack(env) =
           IF FwNext = STATE_UPDATE_COMMITED THEN KeepNewOrder(env)
           ELSE BackToOldOrder(WriteFw(Other(booted), STATE_UPDATE_BAD))
      /\ \A e : ApplicationRolledBack(e) =
           IF AppNext = STATE_UPDATE_UNCOMMITED
           THEN WriteApp(e, Other(env.application), STATE_UPDATE_BAD) ELSE e
  BY DEF confirmPendingFirmwareUpdate, confirmFailedFirmwareUpdate,
         confirmFailedRebootFirmwareUpdate, confirmFailedApplicationeUpdate,
         FirmwareRolledBack, ApplicationRolledBack
<1> HIDE DEF WriteFw, WriteApp
<1>10. ASSUME NEW e \in EnvType, Fw(e)
       PROVE  /\ NoApp(e) => /\ Quiet(BackToOldOrder(e)) /\ Quiet(KeepNewOrder(e))
                             /\ Done(Idle(e))
              /\ OwnApp(e) /\ application_reboot => Done(Idle(e))
              /\ OwnApp(e) /\ env.urs = "INCOMPLETE_APP_FW_UPDATE" =>
                   /\ Done(Idle(BackToOldOrder(e)))
                   /\ Done(Idle(KeepNewOrder(e)))
  <2> HIDE DEF Fw, NoApp, OwnApp, Idled
  <2>1. BackToOldOrder(e) \in EnvType /\ KeepNewOrder(e) \in EnvType
    BY <1>6
  <2> QED
    BY <1>6, <1>10, <2>1
<1>11. ASSUME NEW e \in EnvType, Quiet(e)
       PROVE  /\ Quiet(BackToOldOrder(e)) /\ Quiet(KeepNewOrder(e)) /\ Done(Idle(e))
              /\ Done(Idle(BackToOldOrder(e))) /\ Done(Idle(KeepNewOrder(e)))
  <2> HIDE DEF Fw, NoApp, OwnApp, Done
  <2>1. Quiet(BackToOldOrder(e)) /\ Quiet(KeepNewOrder(e)) /\ Done(Idle(e))
    BY <1>10, <1>11
  <2> QED
    BY <1>10, <2>1
<1>12. ASSUME pendingApplicationUpdate, application_reboot
       PROVE  Done(confirmPendingApplicationUpdate)
  <2> DEFINE e == [env EXCEPT !.app[env.application] = STATE_UPDATE_COMMITED]
  <2>1. e \in EnvType
    BY <1>1, <1>2 DEF EnvType
  <2>2. e.fw = env.fw /\ e.app = [env.app EXCEPT ![env.application] = STATE_UPDATE_COMMITED]
    BY <1>1 DEF EnvType
  <2>3. confirmPendingApplicationUpdate = Idle(e)
    BY DEF confirmPendingApplicationUpdate
  <2> HIDE DEF e
  <2>4. Fw(e) /\ OwnApp(e)
    BY <1>1, <1>3, <2>2 DEF CommitsAtMost
  <2> HIDE DEF Fw, NoApp, OwnApp, Done
  <2> QED
    BY <1>10, <1>12, <2>1, <2>3, <2>4
<1>13. ASSUME pendingApplicationFirmwareUpdate
       PROVE  Done(confirmPendingApplicationFirmwareUpdate)
  <2>1. env.urs = "INCOMPLETE_APP_FW_UPDATE"
    BY <1>13 DEF pendingApplicationFirmwareUpdate
  <2>2. CASE firmware_update_reboot_failed
    <3> DEFINE e == [env EXCEPT !.app[env.application] = STATE_UPDATE_COMMITED,
                                !.fw[Other(booted)] = STATE_UPDATE_BAD,
                                !.application = Other(env.application)]
    <3>1. e \in EnvType
      BY <1>1, <1>2 DEF EnvType
    <3>2. /\ e.app = [env.app EXCEPT ![env.application] = STATE_UPDATE_COMMITED]
          /\ e.fw = [env.fw EXCEPT ![Other(booted)] = STATE_UPDATE_BAD]
      BY <1>1 DEF EnvType
    <3>3. confirmPendingApplicationFirmwareUpdate = Idle(BackToOldOrder(e))
      BY <2>2 DEF confirmPendingApplicationFirmwareUpdate
    <3> HIDE DEF e
    <3>4. Fw(e) /\ OwnApp(e)
      BY <1>1, <1>3, <1>4, <3>2 DEF CommitsAtMost
    <3> HIDE DEF Fw, NoApp, OwnApp, Done
    <3> QED
      BY <1>10, <2>1, <3>1, <3>3, <3>4
  <2>3. CASE ~ firmware_update_reboot_failed
    <3> DEFINE e == [env EXCEPT !.fw[booted] = STATE_UPDATE_COMMITED,
                                !.app[env.application] = STATE_UPDATE_COMMITED]
    <3>1. e \in EnvType
      BY <1>1, <1>2 DEF EnvType
    <3>2. /\ e.app = [env.app EXCEPT ![env.application] = STATE_UPDATE_COMMITED]
          /\ e.fw = [env.fw EXCEPT ![booted] = STATE_UPDATE_COMMITED]
      BY <1>1 DEF EnvType
    <3>3. confirmPendingApplicationFirmwareUpdate = Idle(KeepNewOrder(e))
      BY <2>3 DEF confirmPendingApplicationFirmwareUpdate
    <3> HIDE DEF e
    <3>4. Fw(e) /\ OwnApp(e)
      BY <1>1, <1>3, <3>2 DEF CommitsAtMost
    <3> HIDE DEF Fw, NoApp, OwnApp, Done
    <3> QED
      BY <1>10, <2>1, <3>1, <3>3, <3>4
  <2> QED
    BY <2>2, <2>3
<1>14. noUpdateProcessing => Done(MarkGood)
  <2>1. MarkGood.fw = env.fw /\ MarkGood.app = env.app /\ MarkGood.urs = env.urs
    BY <1>1 DEF MarkGood, EnvType
  <2> QED
    BY <1>5, <2>1 DEF noUpdateProcessing
<1>15. /\ Quiet(WriteFw(Other(booted), STATE_UPDATE_BAD))
       /\ Quiet(WriteFw(booted, STATE_UPDATE_BAD))
       /\ Quiet(WriteFw(booted, STATE_UPDATE_COMMITED))
       /\ Quiet(WriteApp(env, Other(env.application), STATE_UPDATE_BAD))
  <2> HIDE DEF Fw, NoApp
  <2> QED
    BY <1>1, <1>2, <1>5, <1>7, <1>8
<1>16. /\ Done(confirmPendingFirmwareUpdate)
       /\ Done(confirmFailedFirmwareUpdate)
       /\ Done(confirmFailedRebootFirmwareUpdate)
       /\ Done(confirmFailedApplicationeUpdate)
       /\ Quiet(FirmwareRolledBack(env))
  <2> HIDE DEF Fw, NoApp, Done
  <2> QED
    BY <1>5, <1>9, <1>11, <1>15
<1>17. ASSUME NEW e \in EnvType, Quiet(e)
       PROVE  Quiet(ApplicationRolledBack(e))
  <2> HIDE DEF Fw, NoApp, Done
  <2>1. Quiet(WriteApp(e, Other(env.application), STATE_UPDATE_BAD))
    BY <1>1, <1>8, <1>17
  <2> QED
    BY <1>9, <1>17, <2>1
<1> HIDE DEF Quiet, Done
<1>18. Done(confirmUpdateRollback)
  <2>1. /\ Quiet(FirmwareRolledBack(env)) /\ FirmwareRolledBack(env) \in EnvType
        /\ env \in EnvType
    BY <1>1, <1>16 DEF Quiet
  <2>2. /\ Quiet(ApplicationRolledBack(FirmwareRolledBack(env)))
        /\ Quiet(ApplicationRolledBack(env))
    BY <1>5, <1>17, <2>1
  <2>3. /\ Done(Idle(ApplicationRolledBack(FirmwareRolledBack(env))))
        /\ Done(Idle(ApplicationRolledBack(env)))
        /\ Done(Idle(FirmwareRolledBack(env)))
    <3>1. ASSUME NEW e, Quiet(e) PROVE Done(Idle(e))
      BY <1>11, <3>1 DEF Quiet
    <3> QED
      BY <2>1, <2>2, <3>1
  <2> QED
    BY <2>3 DEF confirmUpdateRollback
<1>19. Done(CommitOutcome.env)
  BY <1>12, <1>13, <1>14, <1>16, <1>18 DEF CommitOutcome
<1> QED
  BY <1>19 DEF Done

(* commit_update confirms what runs. *)
LEMMA CommitCallMounted ==
  ASSUME CommitAssumption, MountInv, commit_update
  PROVE  CombinedMounted' /\ RunningCommitted
<1>1. /\ env \in EnvType /\ up /\ stage = "idle"
      /\ phase # "changed" \/ "early_commit" \in Habits
      /\ UNCHANGED <<booted, mounted, up, job, stage>>
      /\ phase' # "changed" => phase # "changed"
  BY DEF MountInv, TypeOK, commit_update, CanRead, CallsNow, MayCommit, Board
<1>4. /\ validate_update_bits(env) /\ Closed
      /\ env.application \in Slots /\ Other(env.application) \in Slots
      /\ Other(env.application) # env.application
  BY <1>1, OtherSlot DEF commit_update, CanRead, EnvType
<1>5. ~ (Uncommitted(AppCur) /\ Uncommitted(AppNext))
  BY <1>4 DEF validate_update_bits, AppCur, AppNext, Slots, Other
<1>2. CASE CommitOutcome.can
  <2>0. CommitOutcome.env \in EnvType /\ env' = Flushed(CommitOutcome.env)
    BY <1>1, <1>2, CommitType DEF MountInv, TypeOK, commit_update
  <2>1. /\ env'.fw = CommitOutcome.env.fw /\ env'.app = CommitOutcome.env.app
        /\ env'.urs \in {CommitOutcome.env.urs, "FAILED_FW_UPDATE", "FAILED_APP_UPDATE"}
    BY <1>1, <2>0, FlushedEffects
  <2>2. /\ env'.urs # "INCOMPLETE_APP_FW_UPDATE"
        /\ CommitsAtMost(env.fw, env'.fw, booted)
        /\ \/ CommitsNothing(env.app, env'.app)
           \/ /\ CommitsAtMost(env.app, env'.app, env.application)
              /\ application_reboot \/ env.urs = "INCOMPLETE_APP_FW_UPDATE"
    BY <1>2, <2>1, CommitEffects DEF MountInv
  <2>3. env.urs = "INCOMPLETE_APP_FW_UPDATE" /\ Uncommitted(AppCur) =>
          mounted = env.application
    BY <1>1, <1>5 DEF MountInv, CombinedMounted, CommitAssumption
  <2>4. CombinedMounted'
    BY <1>1, <1>4, <2>2 DEF MountInv, CombinedMounted, Closed
  <2> QED
    BY <1>4, <2>2, <2>3, <2>4
       DEF RunningCommitted, CommitsAtMost, CommitsNothing, application_reboot, AppCur
<1>3. CASE ~ CommitOutcome.can
  <2>1. env' = env
    BY <1>3 DEF commit_update
  <2>2. CombinedMounted'
    BY <1>1, <1>4, <2>1 DEF MountInv, CombinedMounted, Closed, AppCur, AppNext
  <2>3. \A n \in SlotStates : Uncommitted(n) => n # STATE_UPDATE_COMMITED
    BY DEF Uncommitted, STATE_UPDATE_COMMITED
  <2> QED
    BY <1>1, <2>1, <2>2, <2>3 DEF RunningCommitted, CommitsAtMost, EnvType
<1> QED
  BY <1>2, <1>3

(* A call that returns under another name says nothing of confirmations,   *)
(* and a step in which no call returns commits nothing.                    *)
LEMMA OtherStepCommitted ==
  ASSUME TypeOK,
         \/ last'.call # "commit_update"
         \/ /\ \A s \in Slots : env'.fw[s] \in {env.fw[s], STATE_UPDATE_UNCOMMITED}
            /\ \A s \in Slots : env'.app[s] \in {env.app[s], STATE_UPDATE_UNCOMMITED}
  PROVE  RunningCommitted
BY DEF TypeOK, EnvType, RunningCommitted, CommitsAtMost, Uncommitted, SlotStates,
       STATE_UPDATE_COMMITED, STATE_UPDATE_UNCOMMITED

(* A public call keeps the application of a combined update mounted and    *)
(* commits nothing but what runs.                                          *)
LEMMA ClientCallMounted ==
  ASSUME CommitAssumption, MountInv, ClientCall
  PROVE  CombinedMounted' /\ RunningCommitted
<1>1. /\ env \in EnvType /\ booted \in Slots /\ Other(booted) \in Slots
      /\ env.application \in Slots /\ Other(env.application) \in Slots
      /\ CombinedMounted /\ TypeOK
  BY OtherSlot DEF MountInv, TypeOK, EnvType
<1>2. ASSUME \A s \in Slots : env'.fw[s] \in {env.fw[s], STATE_UPDATE_UNCOMMITED},
             \A s \in Slots : env'.app[s] \in {env.app[s], STATE_UPDATE_UNCOMMITED}
      PROVE  RunningCommitted
  BY <1>1, <1>2, OtherStepCommitted
<1>3. ASSUME last'.call # "commit_update" PROVE RunningCommitted
  BY <1>1, <1>3, OtherStepCommitted
<1>4. ASSUME UNCHANGED <<env, mounted, up, job, stage>>, Closed \/ UNCHANGED staged,
             phase' # "changed" => phase # "changed"
      PROVE  CombinedMounted' /\ RunningCommitted
  BY <1>1, <1>2, <1>4 DEF CombinedMounted, Closed, AppCur, AppNext
<1>5. CASE \E c \in AllCalls : ReadRejected(c)
  BY <1>4, <1>5 DEF ReadRejected, Throw
<1>6. CASE \E c \in UpdateCalls : decorator_update_state(c)
  BY <1>4, <1>6 DEF decorator_update_state, Throw
<1>7. ASSUME NEW j \in {"fw", "both"}, BeginFirmware(j),
             j = "both" => "update_firmware_and_application" \in Calls
      PROVE  CombinedMounted' /\ RunningCommitted
  <2> DEFINE e == [env EXCEPT !.fw[Other(booted)] = STATE_UPDATE_UNCOMMITED,
                              !.urs = "INCOMPLETE_FW_UPDATE"]
  <2>0. STATE_UPDATE_UNCOMMITED \in SlotStates
    BY DEF STATE_UPDATE_UNCOMMITED, SlotStates
  <2>1. /\ e \in EnvType
        /\ e.fw = [env.fw EXCEPT ![Other(booted)] = STATE_UPDATE_UNCOMMITED]
        /\ e.app = env.app /\ e.urs = "INCOMPLETE_FW_UPDATE"
    BY <1>1, <2>0 DEF EnvType, RebootStates
  <2>2. /\ env.fw \in [Slots -> SlotStates] /\ job' = j /\ stage' = "rauc"
        /\ env' = Flushed(e) /\ noUpdateProcessing /\ Closed
    BY <1>1, <1>7 DEF BeginFirmware, EnvType
  <2> HIDE DEF e
  <2>3. /\ env'.fw = e.fw /\ env'.app = e.app /\ env'.urs = "INCOMPLETE_FW_UPDATE"
    BY <1>1, <2>1, <2>2, FlushedEffects DEF noUpdateProcessing
  <2>4. RunningCommitted
    BY <1>2, <2>1, <2>2, <2>3
  <2> QED
    BY <1>7, <2>2, <2>3, <2>4 DEF CombinedMounted, Closed
<1>8. CASE update_firmware
  BY <1>7, <1>8 DEF update_firmware
<1>9. CASE update_firmware_and_application
  BY <1>7, <1>9 DEF update_firmware_and_application, CanRead, CallsNow
<1>10. CASE CombinedUpdateNotStarted
  BY <1>1, <1>2, <1>10 DEF CombinedUpdateNotStarted, CallsNow, CombinedMounted, Closed,
                           noUpdateProcessing
<1>11. CASE update_application
  <2> DEFINE e == MarkApplication("INCOMPLETE_APP_UPDATE")
  <2>0. STATE_UPDATE_UNCOMMITED \in SlotStates
    BY DEF STATE_UPDATE_UNCOMMITED, SlotStates
  <2>1. /\ e \in EnvType
        /\ e.app = [env.app EXCEPT ![Other(env.application)] = STATE_UPDATE_UNCOMMITED]
        /\ e.fw = env.fw /\ e.urs = "INCOMPLETE_APP_UPDATE"
    BY <1>1, <2>0 DEF MarkApplication, EnvType, RebootStates
  <2>2. /\ env.app \in [Slots -> SlotStates] /\ job' = "app" /\ stage' = "app"
        /\ env' = Flushed(e) /\ noUpdateProcessing /\ Closed
    BY <1>1, <1>11 DEF update_application, EnvType
  <2> HIDE DEF e
  <2>3. /\ env'.fw = e.fw /\ env'.app = e.app /\ env'.urs = "INCOMPLETE_APP_UPDATE"
    BY <1>1, <2>1, <2>2, FlushedEffects DEF noUpdateProcessing
  <2>4. RunningCommitted
    BY <1>2, <2>1, <2>2, <2>3
  <2> QED
    BY <2>2, <2>3, <2>4 DEF CombinedMounted, Closed
<1>12. CASE commit_update
  BY <1>12, CommitCallMounted
<1>13. ASSUME NEW e \in EnvType, env' = Flushed(e) \/ env' = e,
              e.urs # "INCOMPLETE_APP_FW_UPDATE" \/ e.urs = env.urs,
              phase' = "changed", UNCHANGED job, stage' = "idle", Closed
       PROVE  CombinedMounted'
  <2>1. env'.urs \in {e.urs, "FAILED_FW_UPDATE", "FAILED_APP_UPDATE"}
    BY <1>1, <1>13, FlushedEffects
  <2> QED
    BY <1>1, <1>13, <2>1 DEF CombinedMounted, Closed
<1>14. CASE rollback_firmware
  <2>1. last'.call = "rollback_firmware"
    BY <1>14 DEF rollback_firmware, RollbackUncommittedFirmware, SwitchFirmware,
                 RollbackFirmwareRefused, Rolled, Throw, Return
  <2>2. CASE RollbackUncommittedFirmware
    <3>1. phase' = "changed" /\ UNCHANGED job /\ stage' = "idle" /\ Closed
      BY <2>2 DEF RollbackUncommittedFirmware, Rolled, RollbackAnswers, CanRead, CallsNow
    <3>2. /\ firmware_rollback \in EnvType
          /\ \/ firmware_rollback.urs \in {"NO_UPDATE_REBOOT_PENDING",
                                            "ROLLBACK_FW_REBOOT_PENDING"}
             \/ firmware_rollback.urs = env.urs
      <4>1. CASE missing_firmware_update_reboot
        <5>1. [env EXCEPT !.fw[booted] = STATE_UPDATE_COMMITED] \in EnvType
          BY <1>1 DEF EnvType, SlotStates, STATE_UPDATE_COMMITED
        <5> QED
          BY <1>1, <4>1, <5>1, RollbackTypes, OrderHelpers, SlotsUntouched
             DEF firmware_rollback
      <4>2. CASE ~ missing_firmware_update_reboot
        BY <1>1, <4>2, RollbackTypes DEF firmware_rollback, EnvType
      <4> QED
        BY <4>1, <4>2
    <3>3. SwitchApplication(firmware_rollback) \in EnvType
      BY <1>1, <3>2, SwitchType
    <3>4. CASE pendingApplicationFirmwareUpdate
      <4> DEFINE f == [SwitchApplication(firmware_rollback) EXCEPT
                         !.urs = "ROLLBACK_APP_FW_REBOOT_PENDING"]
      <4>1. f \in EnvType /\ f.urs = "ROLLBACK_APP_FW_REBOOT_PENDING"
        BY <3>3 DEF EnvType, RebootStates
      <4>2. env' = Flushed(f)
        BY <2>2, <3>4 DEF RollbackUncommittedFirmware, Rolled
      <4> HIDE DEF f
      <4> QED
        BY <1>3, <1>13, <2>1, <3>1, <4>1, <4>2
    <3>5. CASE ~ pendingApplicationFirmwareUpdate
      <4>1. env' = Flushed(firmware_rollback)
        BY <2>2, <3>5 DEF RollbackUncommittedFirmware, Rolled
      <4> QED
        BY <1>3, <1>13, <2>1, <3>1, <3>2, <4>1
    <3> QED
      BY <3>4, <3>5
  <2>3. CASE SwitchFirmware
    <3> DEFINE e == [env EXCEPT !.order = Other(booted), !.orderOld = booted,
                                !.urs = "ROLLBACK_FW_REBOOT_PENDING"]
    <3>1. e \in EnvType /\ e.urs = "ROLLBACK_FW_REBOOT_PENDING"
      BY <1>1 DEF EnvType, RebootStates
    <3>2. /\ phase' = "changed" /\ UNCHANGED job /\ stage' = "idle" /\ Closed
          /\ env' = Flushed(e)
      BY <2>3 DEF SwitchFirmware, Rolled, RollbackAnswers, CanRead, CallsNow
    <3> HIDE DEF e
    <3> QED
      BY <1>3, <1>13, <2>1, <3>1, <3>2
  <2>4. CASE RollbackFirmwareRefused
    BY <1>4, <2>4 DEF RollbackFirmwareRefused, Throw
  <2> QED
    BY <1>14, <2>2, <2>3, <2>4 DEF rollback_firmware
<1>15. CASE rollback_application
  <2>1. last'.call = "rollback_application"
    BY <1>15 DEF rollback_application, RollbackUncommittedApplication,
                 SwitchToOtherApplication, RollbackApplicationRefused, Rolled, Throw,
                 Return
  <2>2. CASE RollbackUncommittedApplication
    <3>1. phase' = "changed" /\ UNCHANGED job /\ stage' = "idle" /\ Closed
      BY <2>2 DEF RollbackUncommittedApplication, Rolled, RollbackAnswers, CanRead,
                  CallsNow
    <3>2. applicaton_rollback.urs # "INCOMPLETE_APP_FW_UPDATE"
      <4>1. CASE application_reboot
        BY <1>1, <4>1, SwitchType DEF applicaton_rollback, EnvType
      <4>2. CASE ~ application_reboot
        BY <1>1, <4>2, SwitchType DEF applicaton_rollback, Idle, EnvType
      <4> QED
        BY <4>1, <4>2
    <3>3. env' = Flushed(applicaton_rollback) \/ env' = env
      BY <2>2 DEF RollbackUncommittedApplication, Rolled
    <3>4. applicaton_rollback \in EnvType
      BY <1>1, RollbackTypes
    <3> QED
      BY <1>1, <1>3, <1>13, <2>1, <3>1, <3>2, <3>3, <3>4
  <2>3. CASE SwitchToOtherApplication
    <3> DEFINE e == [SwitchApplication(env) EXCEPT !.urs = "ROLLBACK_APP_REBOOT_PENDING"]
    <3>1. e \in EnvType /\ e.urs = "ROLLBACK_APP_REBOOT_PENDING"
      <4>1. SwitchApplication(env) \in EnvType
        BY <1>1, SwitchType
      <4> QED
        BY <4>1 DEF EnvType, RebootStates
    <3>2. /\ phase' = "changed" /\ UNCHANGED job /\ stage' = "idle" /\ Closed
          /\ env' = Flushed(e)
      BY <2>3 DEF SwitchToOtherApplication, Rolled, RollbackAnswers, CanRead, CallsNow
    <3> HIDE DEF e
    <3> QED
      BY <1>3, <1>13, <2>1, <3>1, <3>2
  <2>4. CASE RollbackApplicationRefused
    BY <1>4, <2>4 DEF RollbackApplicationRefused, Throw
  <2> QED
    BY <1>15, <2>2, <2>3, <2>4 DEF rollback_application
<1>16. ASSUME NEW s \in Slots, NEW id \in {0, 1}, set_update_state_bad(s, id)
       PROVE  CombinedMounted' /\ RunningCommitted
  <2>1. /\ UNCHANGED <<mounted, up, job, stage, phase>>
        /\ last'.call = "set_update_state_bad"
    BY <1>16 DEF set_update_state_bad, Board, Return
  <2>2. /\ stage = "idle" /\ Closed /\ validate_update_bits(env)
        /\ Other(env.application) # env.application
    BY <1>1, <1>16, OtherSlot DEF set_update_state_bad, CanRead, CallsNow
  <2>3. ASSUME NEW n \in SlotStates
        PROVE  MarkBad(n) \in SlotStates /\ (Uncommitted(MarkBad(n)) => Uncommitted(n))
    BY DEF MarkBad, Uncommitted, SlotStates, STATE_UPDATE_BAD, STATE_UPDATE_UNCOMMITED
  <2>4. PICK e \in EnvType :
          /\ env' = Flushed(e) /\ e.urs = env.urs /\ e.application = env.application
          /\ \A t \in Slots : Uncommitted(e.app[t]) => Uncommitted(env.app[t])
    BY <1>1, <1>16, <2>3 DEF set_update_state_bad, EnvType
  <2>5. /\ env'.urs \in {env.urs, "FAILED_FW_UPDATE", "FAILED_APP_UPDATE"}
        /\ env'.app = e.app
        /\ staged = "nothing" => env'.urs = env.urs /\ env'.application = env.application
    BY <1>1, <2>4, FlushedEffects
  <2>6. ~ (Uncommitted(env.app[env.application])
             /\ Uncommitted(env.app[Other(env.application)]))
    BY <1>1, <2>2 DEF validate_update_bits, Slots
  <2>7. CombinedMounted'
    BY <1>1, <2>1, <2>2, <2>4, <2>5, <2>6 DEF CombinedMounted, Closed, AppCur, AppNext
  <2> QED
    BY <1>3, <2>1, <2>7
<1>17. CASE update_reboot_state
  <2> DEFINE e == [env EXCEPT !.urs = Applied(env.urs)]
  <2>1. e \in EnvType /\ e.urs # "INCOMPLETE_APP_FW_UPDATE"
    BY <1>1 DEF Applied, EnvType, RebootStates
  <2>2. /\ phase' = "changed" /\ UNCHANGED job /\ last'.call = "update_reboot_state"
        /\ stage' = "idle" /\ Closed /\ env' = Flushed(e)
    BY <1>17 DEF update_reboot_state, CallsNow, Return
  <2> HIDE DEF e
  <2> QED
    BY <1>3, <1>13, <2>1, <2>2
<1> QED
  BY <1>5, <1>6, <1>8, <1>9, <1>10, <1>11, <1>12, <1>14, <1>15, <1>16, <1>17
     DEF ClientCall

(* So does an installation: it ends with the board not yet rebooted.       *)
LEMMA InstallationMounted ==
  ASSUME MountInv, Installation
  PROVE  CombinedMounted' /\ RunningCommitted
<1>1. /\ env \in EnvType /\ booted \in Slots /\ Other(booted) \in Slots
      /\ env.application \in Slots /\ Other(env.application) \in Slots
      /\ CombinedMounted /\ TypeOK
  BY OtherSlot DEF MountInv, TypeOK, EnvType
<1>2. ASSUME env'.fw = env.fw,
             \A s \in Slots : env'.app[s] \in {env.app[s], STATE_UPDATE_UNCOMMITED}
      PROVE  RunningCommitted
  BY <1>1, <1>2, OtherStepCommitted
<1>3. ASSUME last'.call # "commit_update" PROVE RunningCommitted
  BY <1>1, <1>3, OtherStepCommitted
<1>4. ASSUME env'.urs = env.urs, job' \in {job, "none"}, UNCHANGED staged,
             phase' = "changed" \/ env.urs # "INCOMPLETE_APP_FW_UPDATE",
             stage # "idle", stage' = "idle"
      PROVE  CombinedMounted'
  BY <1>1, <1>4 DEF CombinedMounted
<1>15. ASSUME env'.urs = env.urs, env'.app = env.app, env'.application = env.application,
              job' = job, UNCHANGED staged, stage # "idle",
              \/ /\ stage' \in {"rauc", "writing", "activated", "fw_failed"}
                 /\ stage \in {"rauc", "writing", "activated", "fw_failed"}
              \/ /\ stage' \in {"app", "app_failed", "app_unflushed"}
                 /\ stage \notin {"rauc", "writing", "fw_failed"}
       PROVE  CombinedMounted'
  BY <1>1, <1>15 DEF CombinedMounted, AppNext, Stages, TypeOK
<1>5. CASE RaucWrite \/ TakeBackFails \/ SyncFails \/ ApplicationInstallFails
           \/ ApplicationNotMarked
  BY <1>2, <1>5, <1>15
     DEF RaucWrite, TakeBackFails, SyncFails, ApplicationInstallFails,
         ApplicationNotMarked
<1>6. CASE RaucActivate \/ installBundleFails
  <2>1. /\ env'.fw = env.fw /\ env'.app = env.app /\ env'.urs = env.urs
        /\ env'.application = env.application
    BY <1>1, <1>6 DEF RaucActivate, installBundleFails, EnvType
  <2>2. /\ job' = job /\ UNCHANGED staged /\ stage' \in {"activated", "fw_failed"}
        /\ stage \in {"rauc", "writing", "activated"}
    BY <1>6 DEF RaucActivate, installBundleFails
  <2> QED
    BY <1>2, <1>15, <2>1, <2>2
<1>7. CASE FirmwareInstallFailed
  <2>1. env'.urs = "FAILED_FW_UPDATE" /\ job' = "none"
    BY <1>1, <1>7 DEF FirmwareInstallFailed, EnvType
  <2>2. last'.call # "commit_update"
    BY <1>7 DEF FirmwareInstallFailed, FirmwareCall, Return
  <2>3. stage = "fw_failed" /\ stage' = "idle" /\ UNCHANGED staged
    BY <1>7 DEF FirmwareInstallFailed
  <2> QED
    BY <1>1, <1>3, <2>1, <2>2, <2>3 DEF CombinedMounted
<1>8. CASE FirmwareInstalled
  BY <1>2, <1>4, <1>8 DEF FirmwareInstalled, Stages
<1>9. CASE FirmwareInstalledApplicationNext
  <2>1. /\ env'.fw = env.fw
        /\ env'.app = [env.app EXCEPT ![Other(env.application)] = STATE_UPDATE_UNCOMMITED]
        /\ env'.application = env.application
        /\ env.app \in [Slots -> SlotStates]
    BY <1>1, <1>9 DEF FirmwareInstalledApplicationNext, MarkApplication, EnvType
  <2>2. /\ job = "both" /\ job' = job /\ stage = "activated" /\ stage' = "app"
        /\ UNCHANGED staged
    BY <1>9 DEF FirmwareInstalledApplicationNext
  <2>3. Uncommitted(AppNext')
    <3>1. AppNext' = STATE_UPDATE_UNCOMMITED
      BY <1>1, <2>1 DEF AppNext
    <3> QED
      BY <3>1 DEF Uncommitted, STATE_UPDATE_UNCOMMITED
  <2> QED
    BY <1>1, <1>2, <2>1, <2>2, <2>3 DEF CombinedMounted
<1>10. CASE ApplicationInstalled
  <2>1. env'.fw = env.fw /\ env'.app = env.app /\ env'.urs = env.urs
    BY <1>1, <1>10 DEF ApplicationInstalled, SwitchApplication, EnvType
  <2>2. /\ job' = "none" /\ phase' = "changed" /\ UNCHANGED staged
        /\ stage = "app" /\ stage' = "idle"
    BY <1>10 DEF ApplicationInstalled
  <2> QED
    BY <1>2, <1>4, <2>1, <2>2
<1>11. CASE ApplicationInstallFailed
  <2>1. last'.call # "commit_update" /\ job' = "none"
    BY <1>11 DEF ApplicationInstallFailed, Return, AppCall
  <2>2. ASSUME NEW e \in EnvType PROVE AlsoStaged(e).urs = e.urs
    BY DEF AlsoStaged, SwitchApplication, EnvType
  <2>3. env'.urs = "FAILED_APP_UPDATE"
    <3>1. CASE job = "app"
      <4> DEFINE e == [env EXCEPT !.urs = "FAILED_APP_UPDATE"]
      <4>1. e \in EnvType /\ e.urs = "FAILED_APP_UPDATE" /\ env' = AlsoStaged(e)
        BY <1>1, <1>11, <3>1 DEF ApplicationInstallFailed, EnvType, RebootStates
      <4> HIDE DEF e
      <4> QED
        BY <2>2, <4>1
    <3>2. CASE job # "app"
      <4> DEFINE e == [MarkApplication("FAILED_APP_UPDATE") EXCEPT
                         !.fw[Other(booted)] = STATE_UPDATE_COMMITED,
                         !.order = env.orderOld]
      <4>1. {STATE_UPDATE_COMMITED, STATE_UPDATE_UNCOMMITED} \subseteq SlotStates
        BY DEF STATE_UPDATE_COMMITED, STATE_UPDATE_UNCOMMITED, SlotStates
      <4>2. e \in EnvType /\ e.urs = "FAILED_APP_UPDATE"
        BY <1>1, <4>1 DEF MarkApplication, EnvType, RebootStates
      <4>3. env' = AlsoStaged(e)
        BY <1>11, <3>2 DEF ApplicationInstallFailed
      <4> HIDE DEF e
      <4> QED
        BY <2>2, <4>2, <4>3
    <3> QED
      BY <3>1, <3>2
  <2>4. UNCHANGED staged /\ stage # "idle" /\ stage' = "idle"
    BY <1>11 DEF ApplicationInstallFailed
  <2> QED
    BY <1>1, <1>3, <2>1, <2>3, <2>4 DEF CombinedMounted
<1>12. CASE FirmwareFailureUnrecorded
  <2>1. /\ stage = "fw_failed" /\ stage' = "idle" /\ job' = "none" /\ env' = env
        /\ last'.call # "commit_update"
    BY <1>12 DEF FirmwareFailureUnrecorded, FirmwareCall, Return
  <2> QED
    BY <1>1, <1>3, <2>1 DEF CombinedMounted
<1>13. CASE ApplicationFailureUnrecorded
  <2>1. /\ stage \in {"app_failed", "app_unflushed"} /\ stage' = "idle"
        /\ job' = "none" /\ env' = env /\ last'.call # "commit_update"
        /\ staged' # "nothing" => job = "app"
    BY <1>13 DEF ApplicationFailureUnrecorded, AppCall, Return
  <2> QED
    BY <1>1, <1>3, <2>1 DEF CombinedMounted, AppCur, AppNext
<1> QED
  BY <1>5, <1>6, <1>7, <1>8, <1>9, <1>10, <1>11, <1>12, <1>13 DEF Installation

(* A boot mounts the application that is named. *)
LEMMA BoardStepMounted ==
  ASSUME MountInv, BoardStep
  PROVE  CombinedMounted' /\ RunningCommitted
<1>1. env \in EnvType /\ CombinedMounted /\ TypeOK
  BY DEF MountInv, TypeOK
<1>2. ASSUME env'.fw = env.fw, env'.app = env.app PROVE RunningCommitted
  BY <1>1, <1>2, OtherStepCommitted
<1>3. CASE Reboot
  BY <1>1, <1>2, <1>3 DEF Reboot, CombinedMounted, AppNext
<1>4. CASE PowerFails
  BY <1>1, <1>2, <1>4 DEF PowerFails, CombinedMounted, AppNext
<1>5. CASE BootAttempt
  <2>1. /\ env'.fw = env.fw /\ env'.app = env.app /\ env'.urs = FallbackFlag
        /\ env'.application = env.application
    BY <1>1, <1>5 DEF BootAttempt, EnvType
  <2>2. FallbackFlag \in {env.urs, "FW_UPDATE_REBOOT_FAILED"}
    BY DEF FallbackFlag
  <2>3. /\ job' = job /\ (mounted' = env.application \/ ~ up')
        /\ UNCHANGED <<stage, staged>>
    BY <1>5 DEF BootAttempt
  <2> QED
    BY <1>1, <1>2, <2>1, <2>2, <2>3 DEF CombinedMounted, AppNext
<1>6. CASE ResetCounters
  <2>1. /\ env'.fw = env.fw /\ env'.app = env.app /\ env'.urs = env.urs
        /\ env'.application = env.application
    BY <1>1, <1>6 DEF ResetCounters, EnvType
  <2>2. ~ up' /\ UNCHANGED <<job, stage, staged>>
    BY <1>6 DEF ResetCounters, Board
  <2> QED
    BY <1>1, <1>2, <2>1, <2>2 DEF CombinedMounted, AppNext
<1> QED
  BY <1>3, <1>4, <1>5, <1>6 DEF BoardStep

(* MountInv is inductive, and from it commit_update commits only what runs. *)
LEMMA NextMounted ==
  ASSUME CommitAssumption, MountInv, [Next]_vars
  PROVE  MountInv' /\ RunningCommitted
<1>1. TypeOK'
  BY NextType DEF MountInv
<1>2. CASE UNCHANGED vars
  <2>1. RunningCommitted
    BY <1>2, OtherStepCommitted DEF vars, MountInv
  <2> QED
    BY <1>1, <1>2, <2>1 DEF vars, MountInv, CombinedMounted, AppCur, AppNext
<1>3. CASE Next
  BY <1>1, <1>3, ClientCallMounted, InstallationMounted, BoardStepMounted
     DEF Next, MountInv
<1> QED
  BY <1>2, <1>3

(* Whatever fails and whatever liberties the client takes, but for         *)
(* committing a combined update before its reboot: commit_update declares  *)
(* committed only the firmware that is booted and the application that is  *)
(* mounted.                                                                *)
THEOREM CommitsConfirmRunning == CommitAssumption => (Spec => CommitConfirmsRunning)
<1> SUFFICES ASSUME CommitAssumption PROVE Spec => CommitConfirmsRunning
  OBVIOUS
<1>1. Init => MountInv
  <2>1. Init => TypeOK
    BY InitialType
  <2> QED
    BY <2>1 DEF Init, FactoryEnv, MountInv, CombinedMounted
<1>2. MountInv /\ [Next]_vars => MountInv'
  BY NextMounted
<1>3. MountInv /\ [Next]_vars =>
        [last'.call = "commit_update" =>
           \A s \in Slots :
             /\ Uncommitted(env.fw[s]) /\ env'.fw[s] = STATE_UPDATE_COMMITED
                  => booted = s
             /\ Uncommitted(env.app[s]) /\ env'.app[s] = STATE_UPDATE_COMMITED
                  => mounted = s]_vars
  BY NextMounted DEF RunningCommitted, CommitsAtMost
<1> QED
  BY <1>1, <1>2, <1>3, PTL DEF Spec, CommitConfirmsRunning
=============================================================================
