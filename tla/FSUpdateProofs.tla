--------------------------- MODULE FSUpdateProofs ---------------------------
(***************************************************************************)
(* Proofs about the update life cycle, for every client, every fault and   *)
(* every habit the constants of FSUpdate allow.                            *)
(***************************************************************************)
EXTENDS FSUpdateProperties, TLAPS

-----------------------------------------------------------------------------
(* The environment after one assignment. *)

(* Flipping a slot name gives the other slot name. *)
LEMMA OtherSlot == ASSUME NEW s \in Slots
                   PROVE  Other(s) \in Slots /\ Other(s) # s
BY DEF Other, Slots

(* Writing the update state of a firmware slot keeps the environment well  *)
(* formed and everything else in it.                                       *)
LEMMA SetFw ==
  ASSUME NEW e \in EnvType, NEW s \in Slots, NEW n \in SlotStates
  PROVE  [e EXCEPT !.fw[s] = n] \in EnvType
BY DEF EnvType, SlotStates

(* The same for an application slot. *)
LEMMA SetApp ==
  ASSUME NEW e \in EnvType, NEW s \in Slots, NEW n \in SlotStates
  PROVE  [e EXCEPT !.app[s] = n] \in EnvType
BY DEF EnvType, SlotStates

(* The same for update_reboot_state. *)
LEMMA SetUrs ==
  ASSUME NEW e \in EnvType, NEW u \in RebootStates
  PROVE  [e EXCEPT !.urs = u] \in EnvType
BY DEF EnvType

(* The combined assignments the confirmations are made of. *)
LEMMA OrderHelpers ==
  ASSUME NEW e \in EnvType
  PROVE  /\ Idle(e) \in EnvType
         /\ BackToOldOrder(e) \in EnvType
         /\ KeepNewOrder(e) \in EnvType
<1>1. FullCounters \in [Slots -> 0 .. BootAttempts]
  BY DEF FullCounters, BootAttempts
<1>2. Idle(e) \in EnvType
  BY SetUrs DEF Idle, RebootStates
<1>3. BackToOldOrder(e) \in EnvType
  BY <1>1 DEF EnvType, BackToOldOrder
<1>4. KeepNewOrder(e) \in EnvType
  BY <1>1 DEF EnvType, KeepNewOrder
<1> QED
  BY <1>2, <1>3, <1>4

(* applicationUpdate::rollback names the other slot. *)
LEMMA SwitchType ==
  ASSUME NEW e \in EnvType, env \in EnvType
  PROVE  SwitchApplication(e) \in EnvType
<1>1. Other(env.application) \in Slots
  BY OtherSlot DEF EnvType
<1> QED
  BY <1>1 DEF SwitchApplication, EnvType

(* A flush stores what the call has staged; what a failed handler has left *)
(* staged can only change the update state, and only if the call leaves it *)
(* alone, and the name of the application.                                 *)
LEMMA FlushedEffects ==
  ASSUME NEW e \in EnvType, env \in EnvType
  PROVE  /\ Flushed(e) \in EnvType
         /\ Flushed(e).fw = e.fw /\ Flushed(e).app = e.app
         /\ Flushed(e).order = e.order /\ Flushed(e).orderOld = e.orderOld
         /\ Flushed(e).left = e.left
         /\ e.urs # env.urs => Flushed(e).urs = e.urs
         /\ Flushed(e).urs \in {e.urs, "FAILED_FW_UPDATE", "FAILED_APP_UPDATE"}
         /\ staged # "app_unflushed" => Flushed(e).application = e.application
         /\ staged = "nothing" => Flushed(e) = e
<1>1. CASE staged = "nothing"
  BY <1>1 DEF Flushed
<1>2. CASE staged # "nothing"
  <2>1. Other(env.application) \in Slots
    BY OtherSlot DEF EnvType
  <2>2. StagedFlag \in {"FAILED_FW_UPDATE", "FAILED_APP_UPDATE"}
    BY DEF StagedFlag
  <2> QED
    BY <1>2, <2>1, <2>2 DEF Flushed, EnvType, RebootStates
<1> QED
  BY <1>1, <1>2

-----------------------------------------------------------------------------
(* Every confirmation leaves a well-formed environment. *)
LEMMA ConfirmTypes ==
  ASSUME env \in EnvType, booted \in Slots
  PROVE  /\ confirmFailedFirmwareUpdate \in EnvType
         /\ confirmFailedRebootFirmwareUpdate \in EnvType
         /\ confirmFailedApplicationeUpdate \in EnvType
         /\ confirmPendingFirmwareUpdate \in EnvType
         /\ confirmPendingApplicationUpdate \in EnvType
         /\ confirmPendingApplicationFirmwareUpdate \in EnvType
         /\ confirmUpdateRollback \in EnvType
         /\ MarkGood \in EnvType
<1>1. /\ Other(booted) \in Slots
      /\ env.application \in Slots
      /\ Other(env.application) \in Slots
  BY OtherSlot DEF EnvType
<1>2. {STATE_UPDATE_BAD, STATE_UPDATE_COMMITED} \subseteq SlotStates
  BY DEF STATE_UPDATE_BAD, STATE_UPDATE_COMMITED, SlotStates
<1>3. confirmFailedFirmwareUpdate \in EnvType
  BY <1>1, <1>2, SetFw, OrderHelpers DEF confirmFailedFirmwareUpdate
<1>4. confirmFailedRebootFirmwareUpdate \in EnvType
  BY <1>2, SetFw, OrderHelpers DEF confirmFailedRebootFirmwareUpdate
<1>5. confirmFailedApplicationeUpdate \in EnvType
  BY <1>1, <1>2, SetApp, OrderHelpers DEF confirmFailedApplicationeUpdate
<1>6. confirmPendingFirmwareUpdate \in EnvType
  BY <1>1, <1>2, SetFw, OrderHelpers DEF confirmPendingFirmwareUpdate
<1>7. confirmPendingApplicationUpdate \in EnvType
  BY <1>1, <1>2, SetApp, OrderHelpers DEF confirmPendingApplicationUpdate
<1>8. confirmPendingApplicationFirmwareUpdate \in EnvType
  <2>1. /\ [env EXCEPT !.app[env.application] = STATE_UPDATE_COMMITED,
                       !.fw[Other(booted)] = STATE_UPDATE_BAD,
                       !.application = Other(env.application)] \in EnvType
        /\ [env EXCEPT !.fw[booted] = STATE_UPDATE_COMMITED,
                       !.app[env.application] = STATE_UPDATE_COMMITED] \in EnvType
    BY <1>1, <1>2 DEF EnvType
  <2> QED
    BY <2>1, OrderHelpers DEF confirmPendingApplicationFirmwareUpdate
<1>9. ASSUME NEW e \in EnvType
      PROVE  FirmwareRolledBack(e) \in EnvType /\ ApplicationRolledBack(e) \in EnvType
  BY <1>1, <1>2, SetFw, SetApp, OrderHelpers
     DEF FirmwareRolledBack, ApplicationRolledBack
<1>10. confirmUpdateRollback \in EnvType
  BY <1>9, OrderHelpers DEF confirmUpdateRollback
<1>11. MarkGood \in EnvType
  BY DEF MarkGood, EnvType, BootAttempts
<1> QED
  BY <1>3, <1>4, <1>5, <1>6, <1>7, <1>8, <1>10, <1>11

(* So does every rollback of an uncommitted update. *)
LEMMA RollbackTypes ==
  ASSUME env \in EnvType, booted \in Slots
  PROVE  /\ firmware_rollback \in EnvType
         /\ applicaton_rollback \in EnvType
<1>1. STATE_UPDATE_COMMITED \in SlotStates /\ 0 \in 0 .. BootAttempts
  BY DEF STATE_UPDATE_COMMITED, SlotStates, BootAttempts
<1>2. Idle(BackToOldOrder([env EXCEPT !.fw[booted] = STATE_UPDATE_COMMITED])) \in EnvType
  BY <1>1, SetFw, OrderHelpers
<1>3. [env EXCEPT !.left[booted] = 0, !.urs = "ROLLBACK_FW_REBOOT_PENDING"] \in EnvType
  BY <1>1 DEF EnvType, RebootStates
<1>4. firmware_rollback \in EnvType
  BY <1>2, <1>3 DEF firmware_rollback
<1>5. SwitchApplication(env) \in EnvType /\ env.application \in Slots
  BY SwitchType DEF EnvType
<1>6. [SwitchApplication(env) EXCEPT !.urs = "ROLLBACK_APP_REBOOT_PENDING"] \in EnvType
  BY <1>5, SetUrs DEF RebootStates
<1>7. Idle([SwitchApplication(env) EXCEPT !.app[env.application] = STATE_UPDATE_COMMITED])
        \in EnvType
  BY <1>1, <1>5, SetApp, OrderHelpers
<1>8. applicaton_rollback \in EnvType
  BY <1>6, <1>7 DEF applicaton_rollback
<1> QED
  BY <1>4, <1>8

(* commit_update leaves a well-formed environment, whichever question it   *)
(* answers with yes.                                                       *)
LEMMA CommitType ==
  ASSUME env \in EnvType, booted \in Slots
  PROVE  CommitOutcome.env \in EnvType
BY ConfirmTypes DEF CommitOutcome

-----------------------------------------------------------------------------
(* Type correctness. *)

(* A board as it leaves production is well formed. *)
LEMMA InitialType == Init => TypeOK
<1>1. FactoryEnv \in EnvType
  BY DEF FactoryEnv, EnvType, Slots, SlotStates, RebootStates,
         STATE_UPDATE_COMMITED, BootAttempts
<1> QED
  BY <1>1 DEF Init, TypeOK, Slots, Stages, Images, Phases, Results, AllCalls, Unflushed

(* A public call keeps the types. *)
LEMMA ClientCallType ==
  ASSUME TypeOK, ClientCall
  PROVE  TypeOK'
<1> USE DEF TypeOK
<1>1. booted \in Slots /\ Other(booted) \in Slots /\ env \in EnvType
  BY OtherSlot
<1>2. /\ STATE_UPDATE_UNCOMMITED \in SlotStates
      /\ STATE_UPDATE_BAD \in SlotStates
  BY DEF STATE_UPDATE_UNCOMMITED, STATE_UPDATE_BAD, SlotStates
<1>3. ASSUME NEW c \in AllCalls, NEW r \in Results, Return(c, r)
      PROVE  last' \in [call : AllCalls, res : Results]
  BY <1>3 DEF Return
<1>4. ASSUME NEW c \in AllCalls, Throw(c), Closed \/ UNCHANGED staged
      PROVE  TypeOK' \/ phase' # phase
  BY <1>3, <1>4 DEF Throw, Results, Return, Closed, Unflushed
<1>19. ASSUME NEW e \in EnvType PROVE Flushed(e) \in EnvType
  BY <1>1, FlushedEffects
<1>20. Closed => staged' \in Unflushed
  BY DEF Closed, Unflushed
<1>5. CASE \E c \in AllCalls : ReadRejected(c)
  BY <1>4, <1>5 DEF ReadRejected
<1>6. CASE \E c \in UpdateCalls : decorator_update_state(c)
  BY <1>4, <1>6 DEF decorator_update_state, UpdateCalls, AllCalls
<1>7. ASSUME NEW j \in {"fw", "both"}, BeginFirmware(j) PROVE TypeOK'
  <2>1. [env EXCEPT !.fw[Other(booted)] = STATE_UPDATE_UNCOMMITED,
                    !.urs = "INCOMPLETE_FW_UPDATE"] \in EnvType
    BY <1>1, <1>2 DEF EnvType, RebootStates
  <2> QED
    BY <1>7, <1>19, <1>20, <2>1 DEF BeginFirmware, Board, Stages
<1>8. CASE update_firmware
  BY <1>7, <1>8 DEF update_firmware
<1>9. CASE update_firmware_and_application
  BY <1>7, <1>9 DEF update_firmware_and_application
<1>10. CASE CombinedUpdateNotStarted
  BY <1>10, <1>20 DEF CombinedUpdateNotStarted, Board, Stages
<1>11. CASE update_application
  <2>1. MarkApplication("INCOMPLETE_APP_UPDATE") \in EnvType
    BY <1>1, <1>2, OtherSlot DEF MarkApplication, EnvType, RebootStates
  <2> QED
    BY <1>11, <1>19, <1>20, <2>1 DEF update_application, Board, Stages
<1>12. CASE commit_update
  <2>1. env' \in EnvType
    BY <1>1, <1>12, <1>19, CommitType DEF commit_update
  <2>2. CommitResult \in Results /\ "commit_update" \in AllCalls
    BY DEF CommitResult, Results, AllCalls
  <2>3. last' \in [call : AllCalls, res : Results]
    BY <1>3, <1>12, <2>2 DEF commit_update
  <2> QED
    BY <1>12, <1>20, <2>1, <2>3 DEF commit_update, Board, Phases
<1>13. ASSUME NEW c \in AllCalls, NEW e \in EnvType, Rolled(c, e) PROVE TypeOK'
  <2>1. last' \in [call : AllCalls, res : Results]
    BY <1>3, <1>13 DEF Rolled, Results
  <2> QED
    BY <1>13, <1>20, <2>1 DEF Rolled, Board, Phases
<1>14. /\ "rollback_firmware" \in AllCalls
       /\ "rollback_application" \in AllCalls
  BY DEF AllCalls
<1>15. CASE rollback_firmware
  <2>1. CASE RollbackUncommittedFirmware
    <3>1. firmware_rollback \in EnvType
      BY <1>1, RollbackTypes
    <3>2. [SwitchApplication(firmware_rollback) EXCEPT
             !.urs = "ROLLBACK_APP_FW_REBOOT_PENDING"] \in EnvType
      BY <1>1, <3>1, SwitchType, SetUrs DEF RebootStates
    <3> QED
      BY <1>13, <1>14, <1>19, <2>1, <3>1, <3>2 DEF RollbackUncommittedFirmware
  <2>2. CASE SwitchFirmware
    <3>1. [env EXCEPT !.order = Other(booted), !.orderOld = booted,
                      !.urs = "ROLLBACK_FW_REBOOT_PENDING"] \in EnvType
      BY <1>1 DEF EnvType, RebootStates
    <3> QED
      BY <1>13, <1>14, <1>19, <2>2, <3>1 DEF SwitchFirmware
  <2>3. CASE RollbackFirmwareRefused
    BY <1>4, <1>14, <2>3 DEF RollbackFirmwareRefused
  <2> QED
    BY <1>15, <2>1, <2>2, <2>3 DEF rollback_firmware
<1>16. CASE rollback_application
  <2>1. CASE RollbackUncommittedApplication
    BY <1>1, <1>13, <1>14, <1>19, <2>1, RollbackTypes
       DEF RollbackUncommittedApplication
  <2>2. CASE SwitchToOtherApplication
    <3>1. [SwitchApplication(env) EXCEPT !.urs = "ROLLBACK_APP_REBOOT_PENDING"]
            \in EnvType
      BY <1>1, SwitchType, SetUrs DEF RebootStates
    <3> QED
      BY <1>13, <1>14, <1>19, <2>2, <3>1 DEF SwitchToOtherApplication
  <2>3. CASE RollbackApplicationRefused
    BY <1>4, <1>14, <2>3 DEF RollbackApplicationRefused
  <2> QED
    BY <1>16, <2>1, <2>2, <2>3 DEF rollback_application
<1>17. ASSUME NEW s \in Slots, NEW id \in {0, 1}, set_update_state_bad(s, id)
       PROVE  TypeOK'
  <2>1. ASSUME NEW n \in SlotStates PROVE MarkBad(n) \in SlotStates
    BY <1>2 DEF MarkBad
  <2>2. /\ [env EXCEPT !.fw[s] = MarkBad(@)] \in EnvType
        /\ [env EXCEPT !.app[s] = MarkBad(@)] \in EnvType
    BY <1>1, <2>1 DEF EnvType
  <2>3. last' \in [call : AllCalls, res : Results]
    BY <1>3, <1>17 DEF set_update_state_bad, AllCalls, Results
  <2> QED
    BY <1>17, <1>19, <1>20, <2>2, <2>3 DEF set_update_state_bad, Board
<1>18. CASE update_reboot_state
  <2>1. Applied(env.urs) \in RebootStates
    BY DEF Applied, RebootStates
  <2>2. env' \in EnvType
    BY <1>1, <1>18, <1>19, <2>1, SetUrs DEF update_reboot_state
  <2>3. last' \in [call : AllCalls, res : Results]
    BY <1>3, <1>18 DEF update_reboot_state, AllCalls, Results
  <2> QED
    BY <1>18, <1>20, <2>2, <2>3 DEF update_reboot_state, Board, Phases
<1> QED
  BY <1>5, <1>6, <1>8, <1>9, <1>10, <1>11, <1>12, <1>15, <1>16, <1>17, <1>18
     DEF ClientCall

(* An installation keeps the types. *)
LEMMA InstallationType ==
  ASSUME TypeOK, Installation
  PROVE  TypeOK'
<1> USE DEF TypeOK
<1>1. booted \in Slots /\ Other(booted) \in Slots /\ env \in EnvType
  BY OtherSlot
<1>2. ASSUME NEW u \in RebootStates
      PROVE  MarkApplication(u) \in EnvType
  <2>1. Other(env.application) \in Slots
    BY OtherSlot DEF EnvType
  <2>2. STATE_UPDATE_UNCOMMITED \in SlotStates
    BY DEF STATE_UPDATE_UNCOMMITED, SlotStates
  <2> QED
    BY <1>1, <2>1, <2>2 DEF MarkApplication, EnvType
<1>3. /\ AppCall \in AllCalls
      /\ FirmwareCall \in AllCalls
      /\ {"ok", "throw"} \subseteq Results
  BY DEF AppCall, FirmwareCall, AllCalls, Results
<1>4. CASE RaucWrite
  BY <1>1, <1>4 DEF RaucWrite, Stages, Images
<1>5. CASE RaucActivate
  <2>1. env' \in EnvType
    <3>1. BootAttempts \in 0 .. BootAttempts
      BY DEF BootAttempts
    <3> QED
      BY <1>1, <1>5, <3>1 DEF RaucActivate, EnvType
  <2>2. image' \in [Slots -> Images]
    BY <1>1, <1>5 DEF RaucActivate, Images
  <2> QED
    BY <1>5, <2>1, <2>2 DEF RaucActivate, Stages
<1>6. CASE installBundleFails
  <2>1. [env EXCEPT !.order = env.orderOld] \in EnvType
    BY <1>1 DEF EnvType
  <2> QED
    BY <1>6, <2>1 DEF installBundleFails, Board, Stages
<1>7. CASE SyncFails \/ TakeBackFails
  BY <1>7 DEF SyncFails, TakeBackFails, Board, Stages
<1>8. CASE FirmwareInstallFailed
  <2>1. [env EXCEPT !.urs = "FAILED_FW_UPDATE"] \in EnvType
    BY <1>1, SetUrs DEF RebootStates
  <2> QED
    BY <1>3, <1>8, <2>1 DEF FirmwareInstallFailed, Return, Board, Stages
<1>9. CASE FirmwareInstalled
  BY <1>9 DEF FirmwareInstalled, Return, Board, Stages, Phases, AllCalls, Results
<1>10. CASE FirmwareInstalledApplicationNext
  <2>1. MarkApplication("INCOMPLETE_APP_FW_UPDATE") \in EnvType
    BY <1>2 DEF RebootStates
  <2> QED
    BY <1>10, <2>1 DEF FirmwareInstalledApplicationNext, Board, Stages
<1>11. CASE ApplicationInstalled
  <2>1. SwitchApplication(env) \in EnvType
    BY <1>1, SwitchType
  <2> QED
    BY <1>3, <1>11, <2>1 DEF ApplicationInstalled, Return, Board, Stages, Phases
<1>12. CASE ApplicationInstallFails
  BY <1>12 DEF ApplicationInstallFails, Board, Stages
<1>13. CASE ApplicationNotMarked
  BY <1>13 DEF ApplicationNotMarked, Board, Stages
<1>14. CASE ApplicationInstallFailed
  <2>1. ASSUME NEW e \in EnvType PROVE AlsoStaged(e) \in EnvType
    BY <1>1, SwitchType DEF AlsoStaged
  <2>2. [env EXCEPT !.urs = "FAILED_APP_UPDATE"] \in EnvType
    BY <1>1, SetUrs DEF RebootStates
  <2>3. [MarkApplication("FAILED_APP_UPDATE") EXCEPT
           !.fw[Other(booted)] = STATE_UPDATE_COMMITED,
           !.order = env.orderOld] \in EnvType
    <3>1. MarkApplication("FAILED_APP_UPDATE") \in EnvType
      BY <1>2 DEF RebootStates
    <3>2. STATE_UPDATE_COMMITED \in SlotStates /\ env.orderOld \in Slots
      BY DEF SlotStates, STATE_UPDATE_COMMITED, EnvType
    <3> QED
      BY <1>1, <3>1, <3>2 DEF EnvType
  <2>4. env' \in EnvType
    BY <1>14, <2>1, <2>2, <2>3 DEF ApplicationInstallFailed
  <2> QED
    BY <1>3, <1>14, <2>4 DEF ApplicationInstallFailed, Return, Board, Stages
<1>15. CASE FirmwareFailureUnrecorded \/ ApplicationFailureUnrecorded
  BY <1>3, <1>15 DEF FirmwareFailureUnrecorded, ApplicationFailureUnrecorded,
                     Return, Board, Stages, Unflushed
<1> QED
  BY <1>4, <1>5, <1>6, <1>7, <1>8, <1>9, <1>10, <1>11, <1>12, <1>13, <1>14, <1>15
     DEF Installation

(* A reboot, a power failure and the boot loader keep the types. *)
LEMMA BoardStepType ==
  ASSUME TypeOK, BoardStep
  PROVE  TypeOK'
<1> USE DEF TypeOK
<1>1. CASE Reboot
  BY <1>1 DEF Reboot, Unflushed
<1>2. CASE PowerFails
  BY <1>2 DEF PowerFails, Stages, Unflushed
<1>3. CASE BootAttempt
  <2>1. Selected \in Slots /\ env.application \in Slots
    BY OtherSlot DEF Selected, EnvType
  <2>2. FallbackFlag \in RebootStates
    BY DEF FallbackFlag, EnvType, RebootStates
  <2>3. env' \in EnvType
    <3>1. env.left[Selected] - 1 \in 0 .. BootAttempts
      BY <1>3, <2>1 DEF BootAttempt, EnvType, BootAttempts
    <3>2. env' = [env EXCEPT !.left[Selected] = env.left[Selected] - 1,
                             !.urs = FallbackFlag]
      BY <1>3 DEF BootAttempt
    <3> QED
      BY <2>1, <2>2, <3>1, <3>2 DEF EnvType
  <2>4. image' \in [Slots -> Images] /\ phase' \in Phases
    BY <1>3, <2>1 DEF BootAttempt, Images, Phases
  <2> QED
    BY <1>3, <2>1, <2>3, <2>4 DEF BootAttempt
<1>4. CASE ResetCounters
  <2>1. [env EXCEPT !.left = FullCounters] \in EnvType
    BY DEF EnvType, FullCounters, BootAttempts
  <2> QED
    BY <1>4, <2>1 DEF ResetCounters, Board
<1> QED
  BY <1>1, <1>2, <1>3, <1>4 DEF BoardStep

(* TypeOK is inductive as it stands. *)
LEMMA NextType ==
  ASSUME TypeOK, [Next]_vars
  PROVE  TypeOK'
<1>1. CASE UNCHANGED vars
  BY <1>1 DEF vars, TypeOK
<1> QED
  BY <1>1, ClientCallType, InstallationType, BoardStepType DEF Next

(* Whatever the client calls, whatever fails and whenever, the environment *)
(* only ever holds values the library and the boot loader understand, and  *)
(* the boot counters stay between 0 and 3.                                 *)
THEOREM TypeCorrect == Spec => []TypeOK
<1>1. Init => TypeOK
  BY InitialType
<1>2. TypeOK /\ [Next]_vars => TypeOK'
  BY NextType
<1> QED
  BY <1>1, <1>2, PTL DEF Spec

-----------------------------------------------------------------------------
(* What a failed handler leaves staged. *)

(* Where every failure is recorded, no step leaves anything staged.        *)
LEMMA StagesNothing ==
  ASSUME "record" \notin Faults, staged = "nothing", [Next]_vars
  PROVE  staged' = "nothing"
<1>1. CASE ClientCall
  BY <1>1
     DEF ClientCall, ReadRejected, decorator_update_state, update_firmware,
         update_application, update_firmware_and_application, BeginFirmware,
         CombinedUpdateNotStarted, commit_update, rollback_firmware,
         RollbackUncommittedFirmware, SwitchFirmware, RollbackFirmwareRefused,
         rollback_application, RollbackUncommittedApplication,
         SwitchToOtherApplication, RollbackApplicationRefused, Rolled,
         set_update_state_bad, update_reboot_state, Closed
<1>2. CASE Installation
  BY <1>2
     DEF Installation, RaucWrite, RaucActivate, installBundleFails, TakeBackFails,
         SyncFails, FirmwareInstallFailed, FirmwareFailureUnrecorded,
         FirmwareInstalled, FirmwareInstalledApplicationNext, ApplicationInstalled,
         ApplicationInstallFails, ApplicationNotMarked, ApplicationInstallFailed,
         ApplicationFailureUnrecorded
<1>3. CASE BoardStep
  BY <1>3 DEF BoardStep, Reboot, PowerFails, BootAttempt, ResetCounters
<1>4. CASE UNCHANGED vars
  BY <1>4 DEF vars
<1> QED
  BY <1>1, <1>2, <1>3, <1>4 DEF Next

(* So nothing is ever staged outside of a call, and a flush stores exactly *)
(* what its call has staged.                                               *)
LEMMA NothingStaged ==
  "record" \notin Faults => (Spec => [](staged = "nothing"))
<1> SUFFICES ASSUME "record" \notin Faults PROVE Spec => [](staged = "nothing")
  OBVIOUS
<1>1. Init => staged = "nothing"
  BY DEF Init
<1>2. staged = "nothing" /\ [Next]_vars => (staged = "nothing")'
  BY StagesNothing
<1> QED
  BY <1>1, <1>2, PTL DEF Spec

(* Then Flushed is the identity.                                           *)
LEMMA FlushedNothing == ASSUME staged = "nothing", NEW e PROVE Flushed(e) = e
BY DEF Flushed

-----------------------------------------------------------------------------
(* The boot order and its old copy. *)

(* What can separate the two copies behind the library's back: a sync that *)
(* fails after rauc succeeded, a flush that fails after rauc activated the *)
(* slot and its pipe broke, a boot loader that overwrites the update       *)
(* state, and a rollback of the component that is not being updated.       *)
OrdersAssumption ==
  /\ "sync" \notin Faults
  /\ "pipe" \in Faults => "take_back" \notin Faults
  /\ "fallback_flag" \notin Faults
  /\ "cross_rollback" \notin Habits

(* OrdersAgree alone is not inductive: whether RaucActivate may separate   *)
(* the orders depends on what the installation has recorded before, and    *)
(* whether a failure may be recorded late on what it left behind.          *)
LateRecord ==
  /\ stage \in {"rauc", "writing"} => env.order = env.orderOld
  /\ stage = "fw_failed" =>
       env.urs \in {"NO_UPDATE_REBOOT_PENDING", "INCOMPLETE_FW_UPDATE"}
  /\ staged # "nothing" =>
       /\ stage = "idle" /\ env.order = env.orderOld
       /\ env.urs \in {"NO_UPDATE_REBOOT_PENDING", "INCOMPLETE_FW_UPDATE",
                       "INCOMPLETE_APP_UPDATE"}

OrdersInv == OrdersAgree /\ WorkRecorded /\ LateRecord

IInv == TypeOK /\ OrdersInv

(* A flush keeps the orders accounted for if the call has staged equal     *)
(* orders, or an update state of its own that tells why they differ.       *)
LEMMA FlushedOrders ==
  ASSUME NEW e \in EnvType, env \in EnvType, env' = Flushed(e),
         \/ e.order = e.orderOld
         \/ e.urs \in FirmwareInFlux /\ (e.urs # env.urs \/ staged = "nothing")
  PROVE  OrdersAgree'
BY FlushedEffects DEF OrdersAgree

(* The order after each of the assignments the confirmations are made of.  *)
LEMMA OrderEffects ==
  ASSUME NEW e \in EnvType
  PROVE  /\ Idle(e).order = e.order /\ Idle(e).orderOld = e.orderOld
         /\ BackToOldOrder(e).order = BackToOldOrder(e).orderOld
         /\ KeepNewOrder(e).order = KeepNewOrder(e).orderOld
         /\ SwitchApplication(e).order = e.order
         /\ SwitchApplication(e).orderOld = e.orderOld
         /\ SwitchApplication(e).urs = e.urs
BY DEF EnvType, Idle, BackToOldOrder, KeepNewOrder, SwitchApplication

(* commit_update leaves the two copies equal, or touches neither of them   *)
(* nor the update state.                                                   *)
LEMMA CommitOrders ==
  ASSUME TypeOK, OrdersAgree, CommitOutcome.can
  PROVE  \/ CommitOutcome.env.order = CommitOutcome.env.orderOld
         \/ /\ CommitOutcome.env.order = env.order
            /\ CommitOutcome.env.orderOld = env.orderOld
            /\ CommitOutcome.env.urs = env.urs
<1> DEFINE Agreed(e) == e.order = e.orderOld
<1>1. /\ env \in EnvType /\ booted \in Slots /\ Other(booted) \in Slots
      /\ env.application \in Slots /\ Other(env.application) \in Slots
  BY OtherSlot DEF TypeOK, EnvType
<1>2. {STATE_UPDATE_BAD, STATE_UPDATE_COMMITED} \subseteq SlotStates
  BY DEF STATE_UPDATE_BAD, STATE_UPDATE_COMMITED, SlotStates
<1>3. ASSUME NEW e \in EnvType, NEW f \in EnvType
      PROVE  Agreed(Idle(BackToOldOrder(e))) /\ Agreed(Idle(KeepNewOrder(f)))
  BY OrderEffects, OrderHelpers
<1>4. Agreed(confirmPendingFirmwareUpdate)
  BY <1>1, <1>2, <1>3, SetFw DEF confirmPendingFirmwareUpdate
<1>5. Agreed(confirmPendingApplicationFirmwareUpdate)
  <2>1. /\ [env EXCEPT !.app[env.application] = STATE_UPDATE_COMMITED,
                       !.fw[Other(booted)] = STATE_UPDATE_BAD,
                       !.application = Other(env.application)] \in EnvType
        /\ [env EXCEPT !.fw[booted] = STATE_UPDATE_COMMITED,
                       !.app[env.application] = STATE_UPDATE_COMMITED] \in EnvType
    BY <1>1, <1>2 DEF EnvType
  <2> QED
    BY <1>3, <2>1 DEF confirmPendingApplicationFirmwareUpdate
<1>6. ASSUME env.urs \notin FirmwareInFlux
      PROVE  /\ Agreed(confirmPendingApplicationUpdate)
             /\ Agreed(confirmFailedFirmwareUpdate)
             /\ Agreed(confirmFailedRebootFirmwareUpdate)
             /\ Agreed(confirmFailedApplicationeUpdate)
  BY <1>1, <1>6
     DEF OrdersAgree, EnvType, Idle, confirmPendingApplicationUpdate,
         confirmFailedFirmwareUpdate, confirmFailedRebootFirmwareUpdate,
         confirmFailedApplicationeUpdate
<1>7. ASSUME pendingUpdateRollback PROVE Agreed(confirmUpdateRollback)
  <2>1. ASSUME NEW e \in EnvType
        PROVE  Agreed(FirmwareRolledBack(e)) /\ FirmwareRolledBack(e) \in EnvType
    BY <1>1, <1>2, SetFw, OrderHelpers, OrderEffects DEF FirmwareRolledBack
  <2>2. ASSUME NEW e \in EnvType
        PROVE  /\ ApplicationRolledBack(e) \in EnvType
               /\ ApplicationRolledBack(e).order = e.order
               /\ ApplicationRolledBack(e).orderOld = e.orderOld
    <3>1. /\ [e EXCEPT !.app[Other(env.application)] = STATE_UPDATE_BAD].order = e.order
          /\ [e EXCEPT !.app[Other(env.application)] = STATE_UPDATE_BAD].orderOld
               = e.orderOld
      BY DEF EnvType
    <3> QED
      BY <1>1, <1>2, <3>1, SetApp DEF ApplicationRolledBack
  <2>3. /\ Agreed(Idle(ApplicationRolledBack(FirmwareRolledBack(env))))
        /\ Agreed(Idle(FirmwareRolledBack(env)))
    BY <1>1, <2>1, <2>2, OrderEffects
  <2>4. CASE env.urs \in {"INCOMPLETE_APP_FW_ROLLBACK", "ROLLBACK_APP_FW_REBOOT_PENDING",
                          "INCOMPLETE_FW_ROLLBACK", "ROLLBACK_FW_REBOOT_PENDING"}
    BY <2>3, <2>4 DEF confirmUpdateRollback
  <2>5. CASE env.urs \in {"INCOMPLETE_APP_ROLLBACK", "ROLLBACK_APP_REBOOT_PENDING"}
    <3>1. Agreed(env)
      BY <2>5 DEF OrdersAgree, FirmwareInFlux
    <3>2. Agreed(Idle(ApplicationRolledBack(env)))
      BY <1>1, <2>2, <3>1, OrderEffects
    <3> QED
      BY <2>5, <3>2 DEF confirmUpdateRollback
  <2> QED
    BY <1>7, <2>4, <2>5 DEF pendingUpdateRollback
<1>8. MarkGood.order = env.order /\ MarkGood.orderOld = env.orderOld
      /\ MarkGood.urs = env.urs
  BY <1>1 DEF MarkGood, EnvType
<1>9. /\ pendingApplicationUpdate => env.urs \notin FirmwareInFlux
      /\ failedFirmwareUpdate => env.urs \notin FirmwareInFlux
      /\ failedRebootFirmwareUpdate => env.urs \notin FirmwareInFlux
      /\ failedApplicationUpdate => env.urs \notin FirmwareInFlux
  BY DEF pendingApplicationUpdate, failedFirmwareUpdate, failedRebootFirmwareUpdate,
         failedApplicationUpdate, FirmwareInFlux
<1> HIDE DEF Agreed
<1>10. Agreed(CommitOutcome.env) \/ CommitOutcome.env = MarkGood
  BY <1>4, <1>5, <1>6, <1>7, <1>9 DEF CommitOutcome
<1> QED
  BY <1>8, <1>10 DEF Agreed

(* A public call keeps the orders accounted for. *)
LEMMA ClientCallOrders ==
  ASSUME OrdersAssumption, IInv, ClientCall
  PROVE  OrdersInv'
<1> USE DEF IInv, OrdersInv
<1>1. env \in EnvType /\ booted \in Slots /\ Other(booted) \in Slots
  BY OtherSlot DEF TypeOK
<1>2. ASSUME stage' = "idle" PROVE WorkRecorded'
  BY <1>2 DEF WorkRecorded
<1>3. ASSUME noUpdateProcessing PROVE env.order = env.orderOld
  BY <1>3 DEF noUpdateProcessing, OrdersAgree, FirmwareInFlux
<1>17. ASSUME Closed, stage' \notin {"rauc", "writing", "fw_failed"}
       PROVE  LateRecord'
  BY <1>17 DEF Closed, LateRecord
<1>4. ASSUME UNCHANGED <<env, job, stage>>, Closed \/ UNCHANGED staged
      PROVE  OrdersInv'
  BY <1>4 DEF OrdersAgree, WorkRecorded, LateRecord, Closed
<1>18. ASSUME NEW e \in EnvType, env' = Flushed(e), e.order = e.orderOld
       PROVE  OrdersAgree'
  BY <1>1, <1>18, FlushedOrders
<1>19. ASSUME NEW e \in EnvType, env' = Flushed(e), e.urs \in FirmwareInFlux,
              e.urs # env.urs \/ staged = "nothing"
       PROVE  OrdersAgree'
  BY <1>1, <1>19, FlushedOrders
<1>20. staged = "nothing" \/ env.order = env.orderOld
  BY DEF LateRecord
<1>5. CASE \E c \in AllCalls : ReadRejected(c)
  BY <1>4, <1>5 DEF ReadRejected, Throw
<1>6. CASE \E c \in UpdateCalls : decorator_update_state(c)
  BY <1>4, <1>6 DEF decorator_update_state, Throw
<1>7. ASSUME NEW j \in {"fw", "both"}, BeginFirmware(j)
      PROVE  OrdersInv'
  <2> DEFINE e == [env EXCEPT !.fw[Other(booted)] = STATE_UPDATE_UNCOMMITED,
                              !.urs = "INCOMPLETE_FW_UPDATE"]
  <2>1. /\ e \in EnvType
        /\ e.order = env.order /\ e.orderOld = env.orderOld
        /\ e.urs = "INCOMPLETE_FW_UPDATE"
    <3>1. STATE_UPDATE_UNCOMMITED \in SlotStates
      BY DEF STATE_UPDATE_UNCOMMITED, SlotStates
    <3> QED
      BY <1>1, <3>1 DEF EnvType, RebootStates
  <2>2. env' = Flushed(e) /\ stage' = "rauc" /\ job' = j /\ Closed
    BY <1>7 DEF BeginFirmware
  <2> HIDE DEF e
  <2>3. env'.urs = "INCOMPLETE_FW_UPDATE"
    BY <1>1, <1>7, <2>1, <2>2, FlushedEffects DEF BeginFirmware, noUpdateProcessing
  <2>4. env.order = env.orderOld /\ env'.order = env'.orderOld
    BY <1>1, <1>3, <1>7, <2>1, <2>2, FlushedEffects DEF BeginFirmware
  <2> QED
    BY <2>2, <2>3, <2>4 DEF OrdersAgree, WorkRecorded, LateRecord, Closed
<1>8. CASE update_firmware
  BY <1>7, <1>8 DEF update_firmware
<1>9. CASE update_firmware_and_application
  BY <1>7, <1>9 DEF update_firmware_and_application
<1>10. CASE CombinedUpdateNotStarted
  BY <1>3, <1>10 DEF CombinedUpdateNotStarted, OrdersAgree, WorkRecorded, LateRecord,
                     Closed, noUpdateProcessing
<1>11. CASE update_application
  <2> DEFINE e == MarkApplication("INCOMPLETE_APP_UPDATE")
  <2>1. /\ e \in EnvType
        /\ e.order = env.order /\ e.orderOld = env.orderOld
        /\ e.urs = "INCOMPLETE_APP_UPDATE"
    <3>1. STATE_UPDATE_UNCOMMITED \in SlotStates /\ Other(env.application) \in Slots
      BY <1>1, OtherSlot DEF STATE_UPDATE_UNCOMMITED, SlotStates, EnvType
    <3> QED
      BY <1>1, <3>1 DEF MarkApplication, EnvType, RebootStates
  <2>2. /\ env' = Flushed(e) /\ stage' = "app" /\ job' = "app" /\ Closed
        /\ noUpdateProcessing
    BY <1>11 DEF update_application
  <2> HIDE DEF e
  <2>3. env'.urs = "INCOMPLETE_APP_UPDATE"
    BY <1>1, <2>1, <2>2, FlushedEffects DEF noUpdateProcessing
  <2> QED
    BY <1>3, <1>17, <1>18, <2>1, <2>2, <2>3 DEF WorkRecorded
<1>12. CASE commit_update
  <2>1. stage' = "idle" /\ Closed
    BY <1>12 DEF commit_update, CanRead, CallsNow
  <2>2. CASE CommitOutcome.can
    <3>1. CommitOutcome.env \in EnvType /\ env' = Flushed(CommitOutcome.env)
      BY <1>1, <1>12, <2>2, CommitType DEF commit_update
    <3>2. \/ CommitOutcome.env.order = CommitOutcome.env.orderOld
          \/ /\ CommitOutcome.env.order = env.order
             /\ CommitOutcome.env.orderOld = env.orderOld
             /\ CommitOutcome.env.urs = env.urs
      BY <2>2, CommitOrders
    <3> HIDE DEF IInv
    <3>3. OrdersAgree'
      <4>1. CASE CommitOutcome.env.order = CommitOutcome.env.orderOld
        BY <1>18, <3>1, <4>1
      <4>2. CASE CommitOutcome.env.order # CommitOutcome.env.orderOld
        BY <1>19, <1>20, <3>1, <3>2, <4>2 DEF OrdersAgree, IInv
      <4> QED
        BY <4>1, <4>2
    <3> QED
      BY <1>2, <1>17, <2>1, <3>3
  <2>3. CASE ~ CommitOutcome.can
    BY <1>2, <1>12, <1>17, <2>1, <2>3 DEF commit_update, OrdersAgree
  <2> QED
    BY <2>2, <2>3
<1>13. CASE rollback_firmware
  <2>1. stage' = "idle" /\ Closed
    BY <1>13 DEF rollback_firmware, RollbackUncommittedFirmware, SwitchFirmware,
         RollbackFirmwareRefused, RollbackAnswers, CanRead, CallsNow, Rolled, Throw
  <2>2. CASE RollbackUncommittedFirmware
    <3>1. \/ firmware_rollback.order = firmware_rollback.orderOld
          \/ /\ firmware_rollback.urs \in {env.urs, "ROLLBACK_FW_REBOOT_PENDING"}
             /\ env.order # env.orderOld
      <4>1. CASE missing_firmware_update_reboot
        <5>1. STATE_UPDATE_COMMITED \in SlotStates
          BY DEF STATE_UPDATE_COMMITED, SlotStates
        <5>2. [env EXCEPT !.fw[booted] = STATE_UPDATE_COMMITED] \in EnvType
          BY <1>1, <5>1, SetFw
        <5> QED
          BY <4>1, <5>2, OrderEffects, OrderHelpers DEF firmware_rollback
      <4>2. CASE ~ missing_firmware_update_reboot
        BY <1>1, <4>2, RollbackTypes DEF firmware_rollback, EnvType
      <4> QED
        BY <4>1, <4>2
    <3>2. env.urs \in FirmwareInFlux
      BY <2>2 DEF RollbackUncommittedFirmware, pendingFirmwareUpdate,
                  pendingApplicationFirmwareUpdate, FirmwareInFlux
    <3>3. firmware_rollback \in EnvType /\ SwitchApplication(firmware_rollback) \in EnvType
      BY <1>1, RollbackTypes, SwitchType
    <3>4. ASSUME NEW e \in EnvType
          PROVE  LET f == [e EXCEPT !.urs = "ROLLBACK_APP_FW_REBOOT_PENDING"]
                 IN  /\ f \in EnvType /\ f.order = e.order /\ f.orderOld = e.orderOld
                     /\ f.urs = "ROLLBACK_APP_FW_REBOOT_PENDING"
      BY DEF EnvType, RebootStates
    <3>5. CASE pendingApplicationFirmwareUpdate
      <4> DEFINE f == [SwitchApplication(firmware_rollback) EXCEPT
                         !.urs = "ROLLBACK_APP_FW_REBOOT_PENDING"]
      <4>1. f \in EnvType /\ f.urs = "ROLLBACK_APP_FW_REBOOT_PENDING"
        BY <3>3, <3>4
      <4>2. env' = Flushed(f)
        BY <2>2, <3>5 DEF RollbackUncommittedFirmware, Rolled
      <4>3. f.urs \in FirmwareInFlux /\ f.urs # env.urs
        BY <3>5, <4>1 DEF FirmwareInFlux, pendingApplicationFirmwareUpdate
      <4> HIDE DEF f
      <4> QED
        BY <1>2, <1>17, <1>19, <2>1, <4>1, <4>2, <4>3
    <3>6. CASE ~ pendingApplicationFirmwareUpdate
      <4>1. env' = Flushed(firmware_rollback)
        BY <2>2, <3>6 DEF RollbackUncommittedFirmware, Rolled
      <4>2. CASE firmware_rollback.order = firmware_rollback.orderOld
        BY <1>2, <1>17, <1>18, <2>1, <3>3, <4>1, <4>2
      <4>3. CASE firmware_rollback.order # firmware_rollback.orderOld
        <5>1. firmware_rollback.urs \in FirmwareInFlux /\ staged = "nothing"
          BY <1>20, <3>1, <3>2, <4>3 DEF FirmwareInFlux
        <5> QED
          BY <1>2, <1>17, <1>19, <2>1, <3>3, <4>1, <5>1
      <4> QED
        BY <4>2, <4>3
    <3> QED
      BY <3>5, <3>6
  <2>3. CASE SwitchFirmware
    <3> DEFINE e == [env EXCEPT !.order = Other(booted), !.orderOld = booted,
                                !.urs = "ROLLBACK_FW_REBOOT_PENDING"]
    <3>1. e \in EnvType /\ e.urs = "ROLLBACK_FW_REBOOT_PENDING" /\ env' = Flushed(e)
      BY <1>1, <2>3 DEF SwitchFirmware, Rolled, EnvType, RebootStates
    <3>2. e.urs \in FirmwareInFlux /\ (e.urs # env.urs \/ staged = "nothing")
      BY <3>1 DEF FirmwareInFlux, LateRecord
    <3> HIDE DEF e
    <3> QED
      BY <1>2, <1>17, <1>19, <2>1, <3>1, <3>2
  <2>4. CASE RollbackFirmwareRefused
    BY <1>4, <2>4 DEF RollbackFirmwareRefused, Throw
  <2> QED
    BY <1>13, <2>2, <2>3, <2>4 DEF rollback_firmware
<1>14. CASE rollback_application
  <2>1. stage' = "idle" /\ Closed
    BY <1>14 DEF rollback_application, RollbackUncommittedApplication,
         SwitchToOtherApplication, RollbackApplicationRefused, RollbackAnswers,
         CanRead, CallsNow, Rolled, Throw
  <2>2. ASSUME RollbackAnswers("rollback_application") PROVE env.order = env.orderOld
    BY <2>2 DEF RollbackAnswers, OrdersAssumption, OrdersAgree, FirmwareInFlux,
                FirmwareStates, CombinedStates
  <2>3. CASE RollbackUncommittedApplication
    <3>1. /\ applicaton_rollback \in EnvType
          /\ applicaton_rollback.order = env.order
          /\ applicaton_rollback.orderOld = env.orderOld
      BY <1>1, RollbackTypes DEF applicaton_rollback, SwitchApplication, Idle, EnvType
    <3>2. env' = env \/ env' = Flushed(applicaton_rollback)
      BY <2>3 DEF RollbackUncommittedApplication, Rolled
    <3>3. env.order = env.orderOld
      BY <2>2, <2>3 DEF RollbackUncommittedApplication
    <3>4. OrdersAgree'
      BY <1>18, <3>1, <3>2, <3>3 DEF OrdersAgree
    <3> QED
      BY <1>2, <1>17, <2>1, <3>4
  <2>4. CASE SwitchToOtherApplication
    <3> DEFINE e == [SwitchApplication(env) EXCEPT !.urs = "ROLLBACK_APP_REBOOT_PENDING"]
    <3>1. SwitchApplication(env) \in EnvType
      BY <1>1, SwitchType
    <3>2. e \in EnvType /\ e.order = env.order /\ e.orderOld = env.orderOld
      <4>1. ASSUME NEW f \in EnvType
            PROVE  LET g == [f EXCEPT !.urs = "ROLLBACK_APP_REBOOT_PENDING"]
                   IN  g \in EnvType /\ g.order = f.order /\ g.orderOld = f.orderOld
        BY DEF EnvType, RebootStates
      <4> QED
        BY <1>1, <3>1, <4>1, OrderEffects
    <3>3. env' = Flushed(e) /\ env.order = env.orderOld
      BY <2>2, <2>4 DEF SwitchToOtherApplication, Rolled
    <3> HIDE DEF e
    <3> QED
      BY <1>2, <1>17, <1>18, <2>1, <3>2, <3>3
  <2>5. CASE RollbackApplicationRefused
    BY <1>4, <2>5 DEF RollbackApplicationRefused, Throw
  <2> QED
    BY <1>14, <2>3, <2>4, <2>5 DEF rollback_application
<1>15. ASSUME NEW s \in Slots, NEW id \in {0, 1}, set_update_state_bad(s, id)
       PROVE  OrdersInv'
  <2>1. ASSUME NEW n \in SlotStates PROVE MarkBad(n) \in SlotStates
    BY DEF MarkBad, SlotStates, STATE_UPDATE_BAD
  <2>2. PICK e \in EnvType : /\ env' = Flushed(e) /\ e.order = env.order
                             /\ e.orderOld = env.orderOld /\ e.urs = env.urs
    BY <1>1, <1>15, <2>1 DEF set_update_state_bad, EnvType
  <2>3. OrdersAgree'
    BY <1>18, <1>19, <1>20, <2>2 DEF OrdersAgree
  <2> QED
    BY <1>2, <1>15, <1>17, <2>3 DEF set_update_state_bad, CanRead, CallsNow
<1>16. CASE update_reboot_state
  <2> DEFINE e == [env EXCEPT !.urs = Applied(env.urs)]
  <2>1. Applied(env.urs) \in RebootStates
    BY DEF Applied, RebootStates
  <2>2. /\ e \in EnvType /\ e.order = env.order /\ e.orderOld = env.orderOld
        /\ e.urs = Applied(env.urs)
    BY <1>1, <2>1 DEF EnvType
  <2>3. env.urs \in FirmwareInFlux => Applied(env.urs) \in FirmwareInFlux
    BY <1>16 DEF update_reboot_state, Applied, RollbackPending, FirmwareInFlux
  <2>4. env' = Flushed(e)
    BY <1>16 DEF update_reboot_state
  <2> HIDE DEF e
  <2>5. OrdersAgree'
    BY <1>18, <1>19, <1>20, <2>2, <2>3, <2>4 DEF OrdersAgree
  <2> QED
    BY <1>2, <1>16, <1>17, <2>5 DEF update_reboot_state, CallsNow
<1> QED
  BY <1>5, <1>6, <1>8, <1>9, <1>10, <1>11, <1>12, <1>13, <1>14, <1>15, <1>16
     DEF ClientCall

(* An installation keeps the orders accounted for. *)
LEMMA InstallationOrders ==
  ASSUME OrdersAssumption, IInv, Installation
  PROVE  OrdersInv'
<1> USE DEF IInv, OrdersInv
<1>1. env \in EnvType /\ booted \in Slots /\ Other(booted) \in Slots
  BY OtherSlot DEF TypeOK
<1>2. ASSUME stage' = "idle" PROVE WorkRecorded'
  BY <1>2 DEF WorkRecorded
<1>3. ASSUME NEW u \in RebootStates
      PROVE  /\ MarkApplication(u).order = env.order
             /\ MarkApplication(u).orderOld = env.orderOld
             /\ MarkApplication(u).urs = u
  BY <1>1 DEF MarkApplication, EnvType
<1>15. ASSUME stage # "idle", UNCHANGED staged,
              stage' \notin {"rauc", "writing", "fw_failed"}
       PROVE  LateRecord'
  BY <1>15 DEF LateRecord
<1>4. CASE RaucWrite
  BY <1>4 DEF RaucWrite, OrdersAgree, WorkRecorded, LateRecord
<1>5. CASE RaucActivate
  <2>1. env'.urs = env.urs
    BY <1>1, <1>5 DEF RaucActivate, EnvType
  <2> QED
    BY <1>5, <1>15, <2>1 DEF RaucActivate, OrdersAgree, WorkRecorded, FirmwareInFlux
<1>6. CASE installBundleFails
  <2>1. env'.order = env'.orderOld
    BY <1>1, <1>6 DEF installBundleFails, EnvType
  <2>2. env'.urs = env.urs
    BY <1>1, <1>6 DEF installBundleFails, EnvType
  <2> QED
    BY <1>6, <2>1, <2>2 DEF LateRecord, installBundleFails, OrdersAgree, WorkRecorded
<1>7. CASE SyncFails
  BY <1>7 DEF SyncFails, OrdersAssumption
<1>16. CASE TakeBackFails
  <2>1. /\ stage \in {"rauc", "writing"} /\ stage' = "fw_failed"
        /\ UNCHANGED <<env, job, staged>>
    BY <1>16 DEF TakeBackFails, OrdersAssumption
  <2>2. env.urs = "INCOMPLETE_FW_UPDATE"
    BY <2>1 DEF WorkRecorded
  <2>3. env.order = env.orderOld
    BY <2>1 DEF LateRecord
  <2> QED
    BY <2>1, <2>2, <2>3 DEF OrdersAgree, WorkRecorded, LateRecord
<1>8. CASE FirmwareInstallFailed
  <2>1. env'.order = env.order /\ env'.orderOld = env.orderOld
    BY <1>1, <1>8 DEF FirmwareInstallFailed, EnvType
  <2> QED
    BY <1>2, <1>8, <1>15, <2>1 DEF FirmwareInstallFailed, OrdersAgree, WorkRecorded
<1>9. CASE FirmwareInstalled
  BY <1>2, <1>9, <1>15 DEF FirmwareInstalled, OrdersAgree
<1>10. CASE FirmwareInstalledApplicationNext
  <2>1. env'.urs = "INCOMPLETE_APP_FW_UPDATE"
    BY <1>3, <1>10 DEF FirmwareInstalledApplicationNext, RebootStates
  <2> QED
    BY <1>10, <1>15, <2>1 DEF FirmwareInstalledApplicationNext, OrdersAgree,
                       WorkRecorded, FirmwareInFlux
<1>11. CASE ApplicationInstalled
  <2>1. /\ env'.order = env.order /\ env'.orderOld = env.orderOld
        /\ env'.urs = env.urs
    BY <1>1, <1>11, OrderEffects DEF ApplicationInstalled
  <2> QED
    BY <1>2, <1>11, <1>15, <2>1 DEF ApplicationInstalled, OrdersAgree
<1>12. CASE ApplicationInstallFails
  BY <1>12, <1>15 DEF ApplicationInstallFails, OrdersAgree, WorkRecorded
<1>13. CASE ApplicationNotMarked
  BY <1>13, <1>15 DEF ApplicationNotMarked, OrdersAgree, WorkRecorded
<1>14. CASE ApplicationInstallFailed
  <2>1. ASSUME NEW e \in EnvType
        PROVE  /\ AlsoStaged(e).order = e.order
               /\ AlsoStaged(e).orderOld = e.orderOld
    BY <1>1, OrderEffects DEF AlsoStaged
  <2>2. CASE job = "app"
    <3>1. env.order = env.orderOld
      BY <1>14, <2>2 DEF ApplicationInstallFailed, WorkRecorded,
                         OrdersAgree, FirmwareInFlux
    <3>2. [env EXCEPT !.urs = "FAILED_APP_UPDATE"] \in EnvType
      BY <1>1, SetUrs DEF RebootStates
    <3>3. env' = AlsoStaged([env EXCEPT !.urs = "FAILED_APP_UPDATE"])
      BY <1>14, <2>2 DEF ApplicationInstallFailed
    <3>4. env'.order = env'.orderOld
      BY <1>1, <2>1, <3>1, <3>2, <3>3 DEF EnvType
    <3> QED
      BY <1>2, <1>14, <1>15, <3>4 DEF ApplicationInstallFailed, OrdersAgree
  <2>3. CASE job # "app"
    <3> DEFINE e == [MarkApplication("FAILED_APP_UPDATE") EXCEPT
                       !.fw[Other(booted)] = STATE_UPDATE_COMMITED,
                       !.order = env.orderOld]
    <3>1. MarkApplication("FAILED_APP_UPDATE") \in EnvType
      <4>1. Other(env.application) \in Slots
        BY <1>1, OtherSlot DEF EnvType
      <4>2. STATE_UPDATE_UNCOMMITED \in SlotStates
        BY DEF STATE_UPDATE_UNCOMMITED, SlotStates
      <4> QED
        BY <1>1, <4>1, <4>2 DEF MarkApplication, EnvType, RebootStates
    <3>2. STATE_UPDATE_COMMITED \in SlotStates /\ env.orderOld \in Slots
      BY <1>1 DEF SlotStates, STATE_UPDATE_COMMITED, EnvType
    <3>3. e \in EnvType /\ e.order = env.orderOld /\ e.orderOld = env.orderOld
      BY <1>1, <1>3, <3>1, <3>2 DEF EnvType, RebootStates
    <3>4. env' = AlsoStaged(e)
      BY <1>14, <2>3 DEF ApplicationInstallFailed
    <3> HIDE DEF e
    <3>5. env'.order = env'.orderOld
      BY <2>1, <3>3, <3>4
    <3> QED
      BY <1>2, <1>14, <1>15, <3>5 DEF ApplicationInstallFailed, OrdersAgree
  <2> QED
    BY <2>2, <2>3
<1>17. CASE FirmwareFailureUnrecorded
  <2>1. env.order = env.orderOld
    BY <1>17 DEF FirmwareFailureUnrecorded, WorkRecorded
  <2>2. env.urs \in {"NO_UPDATE_REBOOT_PENDING", "INCOMPLETE_FW_UPDATE"}
    BY <1>17 DEF FirmwareFailureUnrecorded, LateRecord
  <2> QED
    BY <1>2, <1>17, <2>1, <2>2 DEF FirmwareFailureUnrecorded, OrdersAgree, LateRecord
<1>18. CASE ApplicationFailureUnrecorded
  <2>1. OrdersAgree' /\ WorkRecorded'
    BY <1>2, <1>18 DEF ApplicationFailureUnrecorded, OrdersAgree
  <2>2. CASE job = "app"
    BY <1>18, <2>1, <2>2 DEF ApplicationFailureUnrecorded, WorkRecorded, OrdersAgree,
                             FirmwareInFlux, LateRecord
  <2>3. CASE job # "app"
    BY <1>18, <2>1, <2>3 DEF ApplicationFailureUnrecorded, LateRecord
  <2> QED
    BY <2>2, <2>3
<1> QED
  BY <1>4, <1>5, <1>6, <1>7, <1>8, <1>9, <1>10, <1>11, <1>12, <1>13, <1>14,
     <1>16, <1>17, <1>18
     DEF Installation

(* A reboot, a power failure and the boot loader keep the orders accounted *)
(* for.                                                                    *)
LEMMA BoardStepOrders ==
  ASSUME OrdersAssumption, IInv, BoardStep
  PROVE  OrdersInv'
<1> USE DEF IInv, OrdersInv
<1>1. env \in EnvType
  BY DEF TypeOK
<1>2. CASE Reboot
  BY <1>2 DEF Reboot, OrdersAgree, WorkRecorded, LateRecord
<1>3. CASE PowerFails
  BY <1>3 DEF PowerFails, OrdersAgree, WorkRecorded, LateRecord
<1>4. CASE BootAttempt
  <2>1. FallbackFlag = env.urs
    BY DEF FallbackFlag, OrdersAssumption
  <2>2. /\ env'.order = env.order /\ env'.orderOld = env.orderOld
        /\ env'.urs = env.urs
    BY <1>1, <1>4, <2>1 DEF BootAttempt, EnvType
  <2> QED
    BY <1>4, <2>2 DEF BootAttempt, OrdersAgree, WorkRecorded, LateRecord
<1>5. CASE ResetCounters
  <2>1. /\ env'.order = env.order /\ env'.orderOld = env.orderOld
        /\ env'.urs = env.urs
    BY <1>1, <1>5 DEF ResetCounters, EnvType
  <2> QED
    BY <1>5, <2>1 DEF ResetCounters, OrdersAgree, WorkRecorded, LateRecord
<1> QED
  BY <1>2, <1>3, <1>4, <1>5 DEF BoardStep

(* IInv is inductive. *)
LEMMA NextOrders ==
  ASSUME OrdersAssumption, IInv, [Next]_vars
  PROVE  IInv'
<1>1. TypeOK'
  BY NextType DEF IInv
<1>2. OrdersInv'
  <2>1. CASE UNCHANGED vars
    BY <2>1 DEF vars, IInv, OrdersInv, OrdersAgree, WorkRecorded, LateRecord
  <2> QED
    BY <2>1, ClientCallOrders, InstallationOrders, BoardStepOrders DEF Next
<1> QED
  BY <1>1, <1>2 DEF IInv

(* The inductive invariant holds from production on. *)
LEMMA Inductive == OrdersAssumption => (Spec => []IInv)
<1> SUFFICES ASSUME OrdersAssumption PROVE Spec => []IInv
  OBVIOUS
<1>1. Init => IInv
  BY InitialType
     DEF Init, FactoryEnv, IInv, OrdersInv, OrdersAgree, WorkRecorded, LateRecord
<1>2. IInv /\ [Next]_vars => IInv'
  BY NextOrders
<1> QED
  BY <1>1, <1>2, PTL DEF Spec

(* Where BOOT_ORDER and BOOT_ORDER_OLD differ, update_reboot_state says    *)
(* that a firmware update or rollback is under way, for every order of     *)
(* calls, every installation failure, recorded or not, every boot and      *)
(* every power failure, as long as sync never fails, a slot switch can be  *)
(* taken back when the pipe to rauc breaks, the boot loader leaves         *)
(* update_reboot_state alone and the client rolls back only what it        *)
(* updated.                                                                *)
THEOREM OrdersAgreement == OrdersAssumption => (Spec => []OrdersAgree)
<1> SUFFICES ASSUME OrdersAssumption PROVE Spec => []OrdersAgree
  OBVIOUS
<1>1. IInv => OrdersAgree
  BY DEF IInv, OrdersInv
<1> QED
  BY <1>1, Inductive, PTL

-----------------------------------------------------------------------------
(* The slot that was cut short. *)

(* PartialUntrusted alone is not inductive: whether rauc may start writing *)
(* depends on what the installation has marked, whether the handler of a   *)
(* combined update may call the new firmware committed on how far rauc     *)
(* came, and a confirmation on the fact that what is booted has run.       *)
CutShort ==
  /\ image[booted] = "ran"
  /\ stage # "idle" => up
  /\ stage \in {"rauc", "writing"} => Uncommitted(FwNext)
  /\ stage = "activated" => image[Other(booted)] # "partial"
  /\ stage \in {"app", "app_failed", "app_unflushed"} /\ job # "app" =>
       image[Other(booted)] # "partial"
  /\ PartialUntrusted

CutInv == TypeOK /\ CutShort

(* What a call may commit: the firmware that runs. *)
CommitsBootedOnly(e) ==
  \A s \in Slots : e.fw[s] = STATE_UPDATE_COMMITED =>
                     env.fw[s] = STATE_UPDATE_COMMITED \/ s = booted

(* Every confirmation and every rollback commits no other firmware. *)
LEMMA ConfirmationsCommitBooted ==
  ASSUME env \in EnvType, booted \in Slots
  PROVE  /\ CommitsBootedOnly(CommitOutcome.env)
         /\ CommitsBootedOnly(firmware_rollback)
         /\ CommitsBootedOnly(applicaton_rollback)
<1>1. /\ Other(booted) \in Slots /\ Other(booted) # booted
      /\ env.application \in Slots /\ Other(env.application) \in Slots
  BY OtherSlot DEF EnvType
<1>2. /\ STATE_UPDATE_BAD \in SlotStates /\ STATE_UPDATE_COMMITED \in SlotStates
      /\ STATE_UPDATE_BAD # STATE_UPDATE_COMMITED
  BY DEF STATE_UPDATE_BAD, STATE_UPDATE_COMMITED, SlotStates
<1>3. ASSUME NEW e \in EnvType
      PROVE  /\ Idle(e).fw = e.fw /\ Idle(e) \in EnvType
             /\ BackToOldOrder(e).fw = e.fw /\ BackToOldOrder(e) \in EnvType
             /\ KeepNewOrder(e).fw = e.fw /\ KeepNewOrder(e) \in EnvType
  BY OrderHelpers DEF Idle, BackToOldOrder, KeepNewOrder, EnvType
<1>4. /\ [env EXCEPT !.fw[booted] = STATE_UPDATE_COMMITED] \in EnvType
      /\ CommitsBootedOnly([env EXCEPT !.fw[booted] = STATE_UPDATE_COMMITED])
  BY <1>1, <1>2, SetFw DEF CommitsBootedOnly, EnvType
<1>5. ASSUME NEW s \in Slots
      PROVE  /\ [env EXCEPT !.fw[s] = STATE_UPDATE_BAD] \in EnvType
             /\ CommitsBootedOnly([env EXCEPT !.fw[s] = STATE_UPDATE_BAD])
  BY <1>2, SetFw DEF CommitsBootedOnly, EnvType
<1>6. ASSUME NEW s \in Slots, NEW n \in SlotStates
      PROVE  /\ [env EXCEPT !.app[s] = n] \in EnvType
             /\ CommitsBootedOnly([env EXCEPT !.app[s] = n])
  BY SetApp DEF CommitsBootedOnly, EnvType
<1>7. ASSUME NEW e \in EnvType, CommitsBootedOnly(e)
      PROVE  /\ CommitsBootedOnly(Idle(e)) /\ Idle(e) \in EnvType
             /\ CommitsBootedOnly(BackToOldOrder(e)) /\ BackToOldOrder(e) \in EnvType
             /\ CommitsBootedOnly(KeepNewOrder(e)) /\ KeepNewOrder(e) \in EnvType
  BY <1>3, <1>7 DEF CommitsBootedOnly
<1>8. CommitsBootedOnly(confirmFailedFirmwareUpdate)
  BY <1>1, <1>5, <1>7 DEF confirmFailedFirmwareUpdate
<1>9. CommitsBootedOnly(confirmFailedRebootFirmwareUpdate)
  BY <1>5, <1>7 DEF confirmFailedRebootFirmwareUpdate
<1>10. CommitsBootedOnly(confirmFailedApplicationeUpdate)
  BY <1>1, <1>2, <1>6, <1>7 DEF confirmFailedApplicationeUpdate
<1>11. CommitsBootedOnly(confirmPendingFirmwareUpdate)
  BY <1>1, <1>4, <1>5, <1>7 DEF confirmPendingFirmwareUpdate
<1>12. CommitsBootedOnly(confirmPendingApplicationUpdate)
  BY <1>1, <1>2, <1>6, <1>7 DEF confirmPendingApplicationUpdate
<1>13. CommitsBootedOnly(confirmPendingApplicationFirmwareUpdate)
  <2> DEFINE back == [env EXCEPT !.app[env.application] = STATE_UPDATE_COMMITED,
                                 !.fw[Other(booted)] = STATE_UPDATE_BAD,
                                 !.application = Other(env.application)]
             kept == [env EXCEPT !.fw[booted] = STATE_UPDATE_COMMITED,
                                 !.app[env.application] = STATE_UPDATE_COMMITED]
  <2>1. /\ back \in EnvType /\ CommitsBootedOnly(back)
        /\ kept \in EnvType /\ CommitsBootedOnly(kept)
    BY <1>1, <1>2 DEF CommitsBootedOnly, EnvType
  <2> HIDE DEF back, kept
  <2>2. CommitsBootedOnly(Idle(BackToOldOrder(back))) /\ CommitsBootedOnly(Idle(KeepNewOrder(kept)))
    BY <1>7, <2>1
  <2> QED
    BY <2>2 DEF confirmPendingApplicationFirmwareUpdate, back, kept
<1>14. CommitsBootedOnly(env)
  BY DEF CommitsBootedOnly
<1>15. FirmwareRolledBack(env) \in EnvType /\ CommitsBootedOnly(FirmwareRolledBack(env))
  BY <1>1, <1>5, <1>7, <1>14 DEF FirmwareRolledBack
<1>16. ASSUME NEW e \in EnvType, CommitsBootedOnly(e)
       PROVE  /\ ApplicationRolledBack(e) \in EnvType
              /\ CommitsBootedOnly(ApplicationRolledBack(e))
  <2>1. /\ [e EXCEPT !.app[Other(env.application)] = STATE_UPDATE_BAD] \in EnvType
        /\ [e EXCEPT !.app[Other(env.application)] = STATE_UPDATE_BAD].fw = e.fw
    BY <1>1, <1>2, SetApp DEF EnvType
  <2> QED
    BY <1>16, <2>1 DEF ApplicationRolledBack, CommitsBootedOnly
<1>17. CommitsBootedOnly(confirmUpdateRollback)
  BY <1>7, <1>14, <1>15, <1>16 DEF confirmUpdateRollback
<1>18. CommitsBootedOnly(MarkGood)
  BY DEF MarkGood, CommitsBootedOnly, EnvType
<1>19. CommitsBootedOnly(firmware_rollback)
  <2>1. CommitsBootedOnly([env EXCEPT !.left[booted] = 0,
                                      !.urs = "ROLLBACK_FW_REBOOT_PENDING"])
    BY DEF CommitsBootedOnly, EnvType
  <2> QED
    BY <1>4, <1>7, <1>14, <2>1 DEF firmware_rollback
<1>20. CommitsBootedOnly(applicaton_rollback)
  BY <1>1, SwitchType DEF applicaton_rollback, SwitchApplication, Idle,
                          CommitsBootedOnly, EnvType
<1> QED
  BY <1>8, <1>9, <1>10, <1>11, <1>12, <1>13, <1>17, <1>18, <1>19, <1>20
     DEF CommitOutcome

(* Between two calls the invariant survives whatever commits no firmware   *)
(* but the running one.                                                    *)
LEMMA CutShortKept ==
  ASSUME CutInv, UNCHANGED <<booted, image>>, stage' = "idle",
         \A s \in Slots : env'.fw[s] = STATE_UPDATE_COMMITED =>
                            env.fw[s] = STATE_UPDATE_COMMITED \/ s = booted
  PROVE  CutShort'
BY DEF CutInv, CutShort, PartialUntrusted

(* A public call keeps the slot that was cut short apart. *)
LEMMA ClientCallCutShort ==
  ASSUME CutInv, ClientCall
  PROVE  CutShort'
<1>1. /\ env \in EnvType /\ booted \in Slots
      /\ Other(booted) \in Slots /\ Other(booted) # booted
  BY OtherSlot DEF CutInv, TypeOK
<1>2. ASSUME UNCHANGED <<env, booted, image, up, stage, job>> PROVE CutShort'
  BY <1>2 DEF CutInv, CutShort, PartialUntrusted, FwNext
<1>3. ASSUME NEW e \in EnvType, env' = Flushed(e), CommitsBootedOnly(e),
             UNCHANGED <<booted, image>>, stage' = "idle"
      PROVE  CutShort'
  BY <1>1, <1>3, FlushedEffects, CutShortKept DEF CommitsBootedOnly
<1>4. CommitsBootedOnly(env)
  BY DEF CommitsBootedOnly
<1>5. CASE \E c \in AllCalls : ReadRejected(c)
  BY <1>2, <1>5 DEF ReadRejected, Throw
<1>6. CASE \E c \in UpdateCalls : decorator_update_state(c)
  BY <1>2, <1>6 DEF decorator_update_state, Throw
<1>7. ASSUME NEW j \in {"fw", "both"}, BeginFirmware(j), up PROVE CutShort'
  <2> DEFINE e == [env EXCEPT !.fw[Other(booted)] = STATE_UPDATE_UNCOMMITED,
                              !.urs = "INCOMPLETE_FW_UPDATE"]
  <2>1. STATE_UPDATE_UNCOMMITED \in SlotStates
    BY DEF STATE_UPDATE_UNCOMMITED, SlotStates
  <2>2. /\ e \in EnvType /\ e.fw[Other(booted)] = STATE_UPDATE_UNCOMMITED
        /\ e.fw[booted] = env.fw[booted]
    BY <1>1, <2>1 DEF EnvType, RebootStates
  <2>3. env' = Flushed(e) /\ stage' = "rauc" /\ UNCHANGED <<booted, image, up>>
    BY <1>7 DEF BeginFirmware, Board
  <2> HIDE DEF e
  <2>4. /\ env'.fw[Other(booted)] = STATE_UPDATE_UNCOMMITED
        /\ env'.fw[booted] = env.fw[booted]
    BY <1>1, <2>2, <2>3, FlushedEffects
  <2>5. \A s \in Slots : s = booted \/ s = Other(booted)
    BY <1>1 DEF Slots, Other
  <2> QED
    BY <1>1, <1>7, <2>3, <2>4, <2>5
       DEF CutInv, CutShort, PartialUntrusted, Uncommitted, FwNext,
           STATE_UPDATE_COMMITED, STATE_UPDATE_UNCOMMITED
<1>8. CASE update_firmware
  BY <1>7, <1>8 DEF update_firmware, CanRead, CallsNow
<1>9. CASE update_firmware_and_application
  BY <1>7, <1>9 DEF update_firmware_and_application, CanRead, CallsNow
<1>10. CASE CombinedUpdateNotStarted
  BY <1>10 DEF CombinedUpdateNotStarted, CallsNow, Board, CutInv, CutShort,
               PartialUntrusted
<1>11. CASE update_application
  <2> DEFINE e == MarkApplication("INCOMPLETE_APP_UPDATE")
  <2>1. STATE_UPDATE_UNCOMMITED \in SlotStates /\ Other(env.application) \in Slots
    BY <1>1, OtherSlot DEF STATE_UPDATE_UNCOMMITED, SlotStates, EnvType
  <2>2. e \in EnvType /\ e.fw = env.fw
    BY <1>1, <2>1 DEF MarkApplication, EnvType, RebootStates
  <2>3. /\ env' = Flushed(e) /\ stage' = "app" /\ job' = "app"
        /\ up /\ UNCHANGED <<booted, image, up>>
    BY <1>11 DEF update_application, CanRead, CallsNow, Board
  <2> HIDE DEF e
  <2>4. env'.fw = env.fw
    BY <1>1, <2>2, <2>3, FlushedEffects
  <2> QED
    BY <2>3, <2>4 DEF CutInv, CutShort, PartialUntrusted
<1>12. CASE commit_update
  <2>1. UNCHANGED <<booted, image, up, job, stage>> /\ stage' = "idle"
    BY <1>12 DEF commit_update, CanRead, CallsNow, Board
  <2>2. env' = env \/ env' = Flushed(CommitOutcome.env)
    BY <1>12 DEF commit_update
  <2> QED
    BY <1>1, <1>2, <1>3, <2>1, <2>2, CommitType, ConfirmationsCommitBooted
<1>13. ASSUME NEW c \in AllCalls, NEW e, Rolled(c, e)
       PROVE  env' = e /\ UNCHANGED <<booted, image, up, job, stage>>
  BY <1>13 DEF Rolled, Board
<1>14. /\ "rollback_firmware" \in AllCalls /\ "rollback_application" \in AllCalls
       /\ \A c \in AllCalls : RollbackAnswers(c) => stage = "idle"
  BY DEF AllCalls, RollbackAnswers, CanRead, CallsNow
<1>19. ASSUME NEW e \in EnvType, NEW u \in RebootStates
       PROVE  /\ [SwitchApplication(e) EXCEPT !.urs = u] \in EnvType
              /\ [SwitchApplication(e) EXCEPT !.urs = u].fw = e.fw
  <2>1. SwitchApplication(e) \in EnvType
    BY <1>1, SwitchType
  <2>2. SwitchApplication(e).fw = e.fw
    BY DEF SwitchApplication, EnvType
  <2>3. [SwitchApplication(e) EXCEPT !.urs = u].fw = SwitchApplication(e).fw
    BY <2>1 DEF EnvType
  <2> QED
    BY <2>1, <2>2, <2>3, SetUrs
<1>20. {"ROLLBACK_APP_REBOOT_PENDING", "ROLLBACK_APP_FW_REBOOT_PENDING"}
         \subseteq RebootStates
  BY DEF RebootStates
<1>15. CASE rollback_firmware
  <2>1. CASE RollbackUncommittedFirmware
    <3>1. /\ firmware_rollback \in EnvType
          /\ CommitsBootedOnly(firmware_rollback)
      BY <1>1, RollbackTypes, ConfirmationsCommitBooted
    <3> DEFINE f == [SwitchApplication(firmware_rollback) EXCEPT
                       !.urs = "ROLLBACK_APP_FW_REBOOT_PENDING"]
    <3>2. f \in EnvType /\ f.fw = firmware_rollback.fw
      BY <1>19, <1>20, <3>1
    <3>3. CommitsBootedOnly(f)
      BY <3>1, <3>2 DEF CommitsBootedOnly
    <3>4. env' = Flushed(f) \/ env' = Flushed(firmware_rollback)
      BY <1>13, <1>14, <2>1 DEF RollbackUncommittedFirmware
    <3>5. UNCHANGED <<booted, image>> /\ stage' = "idle"
      BY <1>13, <1>14, <2>1 DEF RollbackUncommittedFirmware
    <3> HIDE DEF f
    <3> QED
      BY <1>3, <3>1, <3>2, <3>3, <3>4, <3>5
  <2>2. CASE SwitchFirmware
    <3> DEFINE e == [env EXCEPT !.order = Other(booted), !.orderOld = booted,
                                !.urs = "ROLLBACK_FW_REBOOT_PENDING"]
    <3>1. e \in EnvType /\ CommitsBootedOnly(e)
      BY <1>1 DEF EnvType, RebootStates, CommitsBootedOnly
    <3>2. env' = Flushed(e) /\ UNCHANGED <<booted, image>> /\ stage' = "idle"
      BY <1>13, <1>14, <2>2 DEF SwitchFirmware
    <3> HIDE DEF e
    <3> QED
      BY <1>3, <3>1, <3>2
  <2>3. CASE RollbackFirmwareRefused
    BY <1>2, <2>3 DEF RollbackFirmwareRefused, Throw
  <2> QED
    BY <1>15, <2>1, <2>2, <2>3 DEF rollback_firmware
<1>16. CASE rollback_application
  <2>1. CASE RollbackUncommittedApplication
    <3>1. /\ applicaton_rollback \in EnvType
          /\ CommitsBootedOnly(applicaton_rollback)
      BY <1>1, RollbackTypes, ConfirmationsCommitBooted
    <3>2. /\ env' = env \/ env' = Flushed(applicaton_rollback)
          /\ UNCHANGED <<booted, image, up, job, stage>> /\ stage' = "idle"
      BY <1>13, <1>14, <2>1 DEF RollbackUncommittedApplication
    <3> QED
      BY <1>2, <1>3, <3>1, <3>2
  <2>2. CASE SwitchToOtherApplication
    <3> DEFINE e == [SwitchApplication(env) EXCEPT !.urs = "ROLLBACK_APP_REBOOT_PENDING"]
    <3>1. e \in EnvType /\ e.fw = env.fw
      BY <1>1, <1>19, <1>20
    <3>2. env' = Flushed(e) /\ UNCHANGED <<booted, image>> /\ stage' = "idle"
      BY <1>13, <1>14, <2>2 DEF SwitchToOtherApplication
    <3>3. CommitsBootedOnly(e)
      BY <3>1 DEF CommitsBootedOnly
    <3> HIDE DEF e
    <3> QED
      BY <1>3, <3>1, <3>2, <3>3
  <2>3. CASE RollbackApplicationRefused
    BY <1>2, <2>3 DEF RollbackApplicationRefused, Throw
  <2> QED
    BY <1>16, <2>1, <2>2, <2>3 DEF rollback_application
<1>17. ASSUME NEW s \in Slots, NEW id \in {0, 1}, set_update_state_bad(s, id)
       PROVE  CutShort'
  <2>1. ASSUME NEW n \in SlotStates
        PROVE  /\ MarkBad(n) \in SlotStates
               /\ MarkBad(n) = STATE_UPDATE_COMMITED => n = STATE_UPDATE_COMMITED
    BY DEF MarkBad, SlotStates, STATE_UPDATE_BAD, STATE_UPDATE_COMMITED
  <2>2. PICK e \in EnvType : env' = Flushed(e) /\ CommitsBootedOnly(e)
    BY <1>1, <1>17, <2>1 DEF set_update_state_bad, EnvType, CommitsBootedOnly
  <2> QED
    BY <1>3, <1>17, <2>2 DEF set_update_state_bad, CanRead, CallsNow, Board
<1>18. CASE update_reboot_state
  <2> DEFINE e == [env EXCEPT !.urs = Applied(env.urs)]
  <2>1. Applied(env.urs) \in RebootStates
    BY DEF Applied, RebootStates
  <2>2. e \in EnvType /\ e.fw = env.fw
    BY <1>1, <2>1 DEF EnvType
  <2>3. env' = Flushed(e) /\ UNCHANGED <<booted, image>> /\ stage' = "idle"
    BY <1>18 DEF update_reboot_state, CallsNow, Board
  <2>4. CommitsBootedOnly(e)
    BY <2>2 DEF CommitsBootedOnly
  <2> HIDE DEF e
  <2> QED
    BY <1>3, <2>2, <2>3, <2>4
<1> QED
  BY <1>5, <1>6, <1>8, <1>9, <1>10, <1>11, <1>12, <1>15, <1>16, <1>17, <1>18
     DEF ClientCall

(* So does an installation, which writes the slot it has marked. *)
LEMMA InstallationCutShort ==
  ASSUME CutInv, Installation
  PROVE  CutShort'
<1>1. /\ env \in EnvType /\ booted \in Slots
      /\ Other(booted) \in Slots /\ Other(booted) # booted
      /\ image \in [Slots -> Images]
  BY OtherSlot DEF CutInv, TypeOK
<1>2. \A s \in Slots : s = booted \/ s = Other(booted)
  BY <1>1 DEF Slots, Other
<1>3. ASSUME stage' = "idle", UNCHANGED <<booted, image>>, env'.fw = env.fw
      PROVE  CutShort'
  BY <1>3, CutShortKept
<1>4. ASSUME NEW u \in RebootStates
      PROVE  MarkApplication(u) \in EnvType /\ MarkApplication(u).fw = env.fw
  <2>1. Other(env.application) \in Slots /\ STATE_UPDATE_UNCOMMITED \in SlotStates
    BY <1>1, OtherSlot DEF EnvType, STATE_UPDATE_UNCOMMITED, SlotStates
  <2> QED
    BY <1>1, <2>1 DEF MarkApplication, EnvType
<1>5. CASE RaucWrite
  BY <1>1, <1>2, <1>5
     DEF RaucWrite, CutInv, CutShort, PartialUntrusted, Uncommitted, FwNext,
         STATE_UPDATE_COMMITED, STATE_UPDATE_UNCOMMITED
<1>6. CASE RaucActivate
  <2>1. PICK img \in {"new", "broken"} : image' = [image EXCEPT ![Other(booted)] = img]
    BY <1>6 DEF RaucActivate
  <2>2. env'.fw = env.fw
    BY <1>1, <1>6 DEF RaucActivate, EnvType
  <2> QED
    BY <1>1, <1>6, <2>1, <2>2 DEF RaucActivate, CutInv, CutShort, PartialUntrusted
<1>7. CASE installBundleFails
  <2>1. env'.fw = env.fw
    BY <1>1, <1>7 DEF installBundleFails, EnvType
  <2> QED
    BY <1>7, <2>1 DEF installBundleFails, Board, CutInv, CutShort, PartialUntrusted
<1>8. CASE TakeBackFails \/ SyncFails
  BY <1>8 DEF TakeBackFails, SyncFails, Board, CutInv, CutShort, PartialUntrusted
<1>9. CASE FirmwareInstallFailed
  <2>1. env'.fw = env.fw
    BY <1>1, <1>9 DEF FirmwareInstallFailed, EnvType
  <2> QED
    BY <1>3, <1>9, <2>1 DEF FirmwareInstallFailed, Board
<1>10. CASE FirmwareFailureUnrecorded \/ ApplicationFailureUnrecorded
  BY <1>3, <1>10 DEF FirmwareFailureUnrecorded, ApplicationFailureUnrecorded, Board
<1>11. CASE FirmwareInstalled
  BY <1>3, <1>11 DEF FirmwareInstalled, Board
<1>12. CASE FirmwareInstalledApplicationNext
  <2>1. env'.fw = env.fw
    BY <1>4, <1>12 DEF FirmwareInstalledApplicationNext, RebootStates
  <2> QED
    BY <1>12, <2>1 DEF FirmwareInstalledApplicationNext, Board, CutInv, CutShort,
                       PartialUntrusted
<1>13. CASE ApplicationInstalled
  <2>1. env'.fw = env.fw
    BY <1>1, <1>13 DEF ApplicationInstalled, SwitchApplication, EnvType
  <2> QED
    BY <1>3, <1>13, <2>1 DEF ApplicationInstalled, Board
<1>14. CASE ApplicationInstallFails \/ ApplicationNotMarked
  BY <1>14 DEF ApplicationInstallFails, ApplicationNotMarked, Board, CutInv, CutShort,
               PartialUntrusted
<1>15. CASE ApplicationInstallFailed
  <2>1. ASSUME NEW e \in EnvType PROVE AlsoStaged(e).fw = e.fw
    BY <2>1 DEF AlsoStaged, SwitchApplication, EnvType
  <2>2. CASE job = "app"
    <3>1. /\ [env EXCEPT !.urs = "FAILED_APP_UPDATE"] \in EnvType
          /\ [env EXCEPT !.urs = "FAILED_APP_UPDATE"].fw = env.fw
      BY <1>1 DEF EnvType, RebootStates
    <3>2. env'.fw = env.fw
      BY <1>15, <2>1, <2>2, <3>1 DEF ApplicationInstallFailed
    <3> QED
      BY <1>3, <1>15, <3>2 DEF ApplicationInstallFailed, Board
  <2>3. CASE job # "app"
    <3> DEFINE e == [MarkApplication("FAILED_APP_UPDATE") EXCEPT
                       !.fw[Other(booted)] = STATE_UPDATE_COMMITED,
                       !.order = env.orderOld]
    <3>1. STATE_UPDATE_COMMITED \in SlotStates /\ env.orderOld \in Slots
      BY <1>1 DEF SlotStates, STATE_UPDATE_COMMITED, EnvType
    <3>2. e \in EnvType /\ e.fw = [env.fw EXCEPT ![Other(booted)] = STATE_UPDATE_COMMITED]
      BY <1>1, <1>4, <3>1 DEF EnvType, RebootStates
    <3>3. env' = AlsoStaged(e) /\ stage' = "idle" /\ UNCHANGED <<booted, image>>
      BY <1>15, <2>3 DEF ApplicationInstallFailed, Board
    <3> HIDE DEF e
    <3>4. /\ env'.fw = [env.fw EXCEPT ![Other(booted)] = STATE_UPDATE_COMMITED]
          /\ image[Other(booted)] # "partial"
      BY <1>15, <2>1, <2>3, <3>2, <3>3
         DEF ApplicationInstallFailed, CutInv, CutShort
    <3>5. env.fw \in [Slots -> SlotStates]
      BY <1>1 DEF EnvType
    <3> QED
      BY <1>1, <1>2, <3>3, <3>4, <3>5 DEF CutInv, CutShort, PartialUntrusted
  <2> QED
    BY <2>2, <2>3
<1> QED
  BY <1>5, <1>6, <1>7, <1>8, <1>9, <1>10, <1>11, <1>12, <1>13, <1>14, <1>15
     DEF Installation

(* And so do a reboot, a power failure and the boot loader. *)
LEMMA BoardStepCutShort ==
  ASSUME CutInv, BoardStep
  PROVE  CutShort'
<1>1. env \in EnvType /\ image \in [Slots -> Images]
  BY DEF CutInv, TypeOK
<1>2. CASE Reboot \/ PowerFails
  BY <1>2 DEF Reboot, PowerFails, CutInv, CutShort, PartialUntrusted
<1>3. CASE BootAttempt
  <2>1. env'.fw = env.fw /\ Selected \in Slots
    BY <1>1, <1>3, OtherSlot DEF BootAttempt, Selected, EnvType
  <2> QED
    BY <1>1, <1>3, <2>1 DEF BootAttempt, CutInv, CutShort, PartialUntrusted
<1>4. CASE ResetCounters
  BY <1>1, <1>4 DEF ResetCounters, Board, CutInv, CutShort, PartialUntrusted, EnvType,
                    FwNext
<1> QED
  BY <1>2, <1>3, <1>4 DEF BoardStep

(* CutInv is inductive, whatever the constants are. *)
LEMMA CutShortAlways == Spec => []CutInv
<1>1. Init => CutInv
  BY InitialType DEF Init, CutInv, CutShort, PartialUntrusted, Slots
<1>2. CutInv /\ [Next]_vars => CutInv'
  <2> SUFFICES ASSUME CutInv, [Next]_vars PROVE CutInv'
    OBVIOUS
  <2>1. TypeOK'
    BY NextType DEF CutInv
  <2>2. CutShort'
    <3>1. CASE UNCHANGED vars
      BY <3>1 DEF vars, CutInv, CutShort, PartialUntrusted, FwNext
    <3> QED
      BY <3>1, ClientCallCutShort, InstallationCutShort, BoardStepCutShort DEF Next
  <2> QED
    BY <2>1, <2>2 DEF CutInv
<1> QED
  BY <1>1, <1>2, PTL DEF Spec

(* A slot in which rauc was cut short is never recorded as committed,      *)
(* whatever is called, whatever fails and whenever, so rollback_firmware   *)
(* never switches to it.                                                   *)
THEOREM CutShortUntrusted == Spec => []PartialUntrusted
<1>1. CutInv => PartialUntrusted
  BY DEF CutInv, CutShort
<1> QED
  BY <1>1, CutShortAlways, PTL

(* Under the assumption of OrdersAgreement an installation also finds the  *)
(* update recorded at every step, and its failure the slot switch taken    *)
(* back.                                                                   *)
THEOREM InstallationsAccounted == OrdersAssumption => (Spec => []InstallationAccounted)
<1> SUFFICES ASSUME OrdersAssumption PROVE Spec => []InstallationAccounted
  OBVIOUS
<1>1. IInv /\ PartialUntrusted => InstallationAccounted
  BY DEF IInv, OrdersInv, InstallationAccounted
<1> QED
  BY <1>1, Inductive, CutShortUntrusted, PTL

=============================================================================
