----------------------------- MODULE UpdateImage -----------------------------
(***************************************************************************)
(* FSUpdate::update_image (fsupdate.cpp): the update store, the choice of  *)
(* one of the three updates, the installers and the marker file, for       *)
(* several FSUpdate instances on one board.                                *)
(*                                                                         *)
(* FSUpdate models what the update calls do to the environment and to the  *)
(* slots of one client; here the files are in the centre.  Of the          *)
(* environment there is update_reboot_state, "application" and which       *)
(* firmware BOOT_ORDER and BOOT_ORDER_OLD name.                            *)
(***************************************************************************)
EXTENDS UpdateStore, ApplicationInstaller

CONSTANTS
  Images,     \* update images: a valid header or not, and the files packed
  Firmwares,  \* contents that rauc accepts
  Types,      \* values of update_type
  Paths,      \* files that calls with a type name
  Faults      \* what else goes wrong: "rauc", "sync", "marker", "death", "power"

ASSUME ImageAssumption ==
  /\ Firmwares \subseteq Contents
  /\ \A i \in Images :
       /\ i.header \in BOOLEAN
       /\ DOMAIN i.packed \subseteq Entries
       /\ \A f \in DOMAIN i.packed : i.packed[f] \in Contents
  /\ Paths \subseteq Contents \cup {"absent"}
  /\ Types \subseteq {"", "fw", "app", "other"}
  /\ Faults \subseteq {"rauc", "sync", "marker", "death", "power"}

VARIABLES
  at,         \* where update_image is, for each instance
  type,       \* its update_type
  image,      \* its update image
  urs,        \* update_reboot_state
  firmware,   \* what the first slot of BOOT_ORDER holds, or "factory"
  fallback,   \* what the first slot of BOOT_ORDER_OLD holds, or "factory"
  ret         \* whether the last call has installed what is available, or
              \* "failed" after it had begun to

callVars == <<at, type, image, ret>>
envVars == <<urs, firmware, fallback>>
vars == <<storeVars, appVars, callVars, envVars>>

Incomplete(avail) ==
  CASE avail = {"update.fw"} -> "INCOMPLETE_FW_UPDATE"
    [] avail = {"update.app"} -> "INCOMPLETE_APP_UPDATE"
    [] OTHER -> "INCOMPLETE_APP_FW_UPDATE"

UpdateStates ==
  {"NO_UPDATE_REBOOT_PENDING", "FAILED_FW_UPDATE", "FAILED_APP_UPDATE"}
    \cup {Incomplete(a) : a \in SUBSET Payloads}

Idle == urs = "NO_UPDATE_REBOOT_PENDING"

(* An update that has begun and is not over. *)
InstallStages == {"firmware", "fw_failed", "fw_installed", "application", "app_failed"}

Stages == {"idle", "store", "dispatch", "begin", "not_begun", "marker"} \cup InstallStages

TypeOK ==
  /\ StoreTypeOK /\ AppTypeOK
  /\ at \in [Procs -> Stages]
  /\ type \in [Procs -> Types \cup {""}]
  /\ \A p \in Procs :
       /\ image[p].header \in BOOLEAN
       /\ DOMAIN image[p].packed \subseteq Entries
       /\ \A f \in DOMAIN image[p].packed : image[p].packed[f] \in File
  /\ urs \in UpdateStates
  /\ firmware \in Firmwares \cup {"factory"}
  /\ fallback \in Firmwares \cup {"factory"}
  /\ ret \in [Procs -> {"none", "installed", "failed"}]

NoImage == [header |-> FALSE, packed |-> [f \in {} |-> "absent"]]

Init ==
  /\ StoreInit /\ AppInit
  /\ at = [p \in Procs |-> "idle"]
  /\ type = [p \in Procs |-> ""]
  /\ image = [p \in Procs |-> NoImage]
  /\ urs = "NO_UPDATE_REBOOT_PENDING"
  /\ firmware = "factory" /\ fallback = "factory"
  /\ ret = [p \in Procs |-> "none"]

-----------------------------------------------------------------------------
GoesTo(p, stage) ==
  /\ at' = [at EXCEPT ![p] = stage]
  /\ UNCHANGED <<storeVars, type, image, ret>>

(* The calls of P are over, and their locals with them; an answer stays    *)
(* with the call it belongs to.                                            *)
Over(P, answer) ==
  /\ at' = [p \in Procs |-> IF p \in P THEN "idle" ELSE at[p]]
  /\ ret' = [p \in Procs |-> IF p \in P THEN answer ELSE ret[p]]
  /\ type' = [p \in Procs |-> IF p \in P THEN "" ELSE type[p]]
  /\ image' = [p \in Procs |-> IF p \in P THEN NoImage ELSE image[p]]
  /\ NewStore(P, {})

Throws(p) == Over({p}, "none") /\ UNCHANGED archive
Fails(p) == Over({p}, "failed") /\ UNCHANGED archive

(* The payload an update call is given: extracted, or the path itself.     *)
Source(p, f) ==
  IF type[p] = "" THEN archive[f]
  ELSE IF f \in DOMAIN image[p].packed THEN image[p].packed[f] ELSE "absent"

(* Calls without a type bring an update image.                             *)
update_image(p) ==
  /\ at[p] = "idle"
  /\ \E i \in Images : image' = [image EXCEPT ![p] = i]
  /\ type' = [type EXCEPT ![p] = ""]
  /\ NewStore({p}, {})
  /\ at' = [at EXCEPT ![p] = "store"]
  /\ ret' = [ret EXCEPT ![p] = "none"]
  /\ UNCHANGED <<archive, appVars, envVars>>

(* Calls with a type bring the payload itself, or a path to nothing.       *)
update_image_typed(p) ==
  /\ at[p] = "idle"
  /\ \E t \in Types \ {""} :
       LET avail == CASE t = "fw" -> {"update.fw"} [] t = "app" -> {"update.app"}
                      [] OTHER -> {}
       IN /\ type' = [type EXCEPT ![p] = t]
          /\ NewStore({p}, avail)
          /\ \E c \in Paths :
               image' = [image EXCEPT ![p] =
                           [header |-> FALSE, packed |-> [f \in avail |-> c]]]
  /\ at' = [at EXCEPT ![p] = "dispatch"]
  /\ ret' = [ret EXCEPT ![p] = "none"]
  /\ UNCHANGED <<archive, appVars, envVars>>

Store(p) ==
  /\ at[p] = "store"
  /\ StoreStep(p, image[p].header, image[p].packed)
  /\ UNCHANGED <<appVars, callVars, envVars>>

StoreEnds(p) ==
  /\ at[p] = "store"
  /\ \/ store[p] = "checked" /\ GoesTo(p, "dispatch")
     \/ store[p] = "failed" /\ Throws(p)
  /\ UNCHANGED <<appVars, envVars>>

(* Nothing to install, or decorator_update_state refuses.  The state is    *)
(* read here, and written in a transaction of its own.                     *)
Refused(p) ==
  /\ at[p] = "dispatch"
  /\ available[p] = {} \/ ~ Idle
  /\ Throws(p)
  /\ UNCHANGED <<appVars, envVars>>

decorator_update_state(p) ==
  /\ at[p] = "dispatch"
  /\ available[p] # {} /\ Idle
  /\ GoesTo(p, "begin")
  /\ UNCHANGED <<appVars, envVars>>

-----------------------------------------------------------------------------
(* Transactions and handlers.  A flush stores all the instance has staged; *)
(* closing the transaction drops it, whether it was stored or not.         *)

Flush(p, state) ==
  /\ urs' = state
  /\ application' = AlsoStaged(p)
  /\ staged' = [staged EXCEPT ![p] = "none"]
  /\ UNCHANGED <<files, disk, unsynced, current>>

FlushFails(p, keep) ==
  /\ "flush" \in InstallFaults
  /\ staged' = IF keep THEN staged ELSE [staged EXCEPT ![p] = "none"]
  /\ UNCHANGED <<files, disk, unsynced, application, current, app, envVars>>

HasFirmware(p) == "update.fw" \in available[p]
HasApplication(p) == "update.app" \in available[p]

Begin(p) ==
  /\ at[p] = "begin"
  /\ IF HasFirmware(p)
     THEN Flush(p, "INCOMPLETE_FW_UPDATE") /\ GoesTo(p, "firmware") /\ UNCHANGED app
     ELSE /\ Flush(p, "INCOMPLETE_APP_UPDATE")
          /\ GoesTo(p, "application") /\ Reaches(p, "started")
  /\ UNCHANGED <<firmware, fallback>>

(* The combined update begins inside the try block of the firmware.        *)
BeginFails(p) ==
  /\ at[p] = "begin"
  /\ FlushFails(p, FALSE)
  /\ IF available[p] = Payloads THEN GoesTo(p, "not_begun") ELSE Throws(p)

(* RAUC checks the bundle, writes the other slot and puts it first in      *)
(* BOOT_ORDER; on failure the order of BOOT_ORDER_OLD is restored, unless  *)
(* it is sync that fails, or the flush that restores it.                   *)
FirmwareInstalled(p) ==
  /\ at[p] = "firmware" /\ Source(p, "update.fw") \in Firmwares
  /\ firmware' = Source(p, "update.fw")
  /\ \/ GoesTo(p, IF HasApplication(p) THEN "fw_installed" ELSE "marker")
     \/ "sync" \in Faults /\ GoesTo(p, "fw_failed")
  /\ UNCHANGED <<appVars, urs, fallback>>

FirmwareFails(p) ==
  /\ at[p] = "firmware"
  /\ Source(p, "update.fw") \notin Firmwares \/ "rauc" \in Faults
  /\ \/ firmware' = fallback
     \/ /\ "flush" \in InstallFaults /\ Source(p, "update.fw") \in Firmwares
        /\ firmware' = Source(p, "update.fw")
  /\ GoesTo(p, "fw_failed")
  /\ UNCHANGED <<appVars, urs, fallback>>

FirmwareFailed(p) ==
  /\ at[p] \in {"fw_failed", "not_begun"}
  /\ \/ Flush(p, "FAILED_FW_UPDATE") /\ UNCHANGED <<app, firmware, fallback>>
     \/ FlushFails(p, TRUE)
  /\ IF at[p] = "fw_failed" THEN Fails(p) ELSE Throws(p)

BeginApplication(p) ==
  /\ at[p] = "fw_installed"
  /\ \/ /\ Flush(p, "INCOMPLETE_APP_FW_UPDATE") /\ UNCHANGED <<firmware, fallback>>
        /\ GoesTo(p, "application") /\ Reaches(p, "started")
     \/ FlushFails(p, FALSE) /\ GoesTo(p, "app_failed")

Application(p) ==
  /\ at[p] = "application"
  /\ InstallStep(p, Source(p, "update.app"))
  /\ UNCHANGED <<storeVars, callVars, envVars>>

ApplicationEnds(p) ==
  /\ at[p] = "application"
  /\ \/ app[p] = "installed" /\ GoesTo(p, "marker")
     \/ app[p] = "failed" /\ GoesTo(p, "app_failed")
  /\ app' = [app EXCEPT ![p] = "none"] /\ current' = [current EXCEPT ![p] = "A"]
  /\ UNCHANGED <<files, disk, unsynced, application, staged, envVars>>

(* Mutant: the handler returns to the state before the update. *)
ApplicationForgotten(p) ==
  /\ at[p] = "app_failed"
  /\ Flush(p, "NO_UPDATE_REBOOT_PENDING") /\ UNCHANGED <<app, fallback>>
  /\ firmware' = IF HasFirmware(p) THEN fallback ELSE firmware
  /\ Fails(p)

(* The handler of the combined update is a transaction and takes the       *)
(* firmware back.                                                          *)
ApplicationFailed(p) ==
  /\ at[p] = "app_failed"
  /\ \/ /\ Flush(p, "FAILED_APP_UPDATE") /\ UNCHANGED <<app, fallback>>
        /\ firmware' = IF HasFirmware(p) THEN fallback ELSE firmware
     \/ FlushFails(p, ~ HasFirmware(p))
  /\ Fails(p)

(* create_work_dir and the file updateInstalled in it.                     *)
Marker(p) ==
  /\ at[p] = "marker"
  /\ \/ /\ at' = [at EXCEPT ![p] = "idle"] /\ ret' = [ret EXCEPT ![p] = "installed"]
        /\ UNCHANGED <<storeVars, type, image>>
     \/ "marker" \in Faults /\ Fails(p)
  /\ UNCHANGED <<appVars, envVars>>

-----------------------------------------------------------------------------
(* The client decides with commit_update or a rollback about what is       *)
(* installed.  FSUpdate says when it may; what counts here is that         *)
(* "application" may come to name either slot.                             *)
Decide(p) ==
  /\ at[p] = "idle" /\ ~ Idle
  /\ urs' = "NO_UPDATE_REBOOT_PENDING"
  /\ \/ application' = AlsoStaged(p) /\ fallback' = firmware /\ UNCHANGED firmware
     \/ application' \in Slots /\ firmware' = fallback /\ UNCHANGED fallback
  /\ staged' = [staged EXCEPT ![p] = "none"]
  /\ Over({q \in Procs : at[q] = "idle"}, "none")
  /\ UNCHANGED <<archive, files, disk, unsynced, app, current>>

(* The instances of P are gone. *)
Gone(P) ==
  /\ app' = [p \in Procs |-> IF p \in P THEN "none" ELSE app[p]]
  /\ staged' = [p \in Procs |-> IF p \in P THEN "none" ELSE staged[p]]
  /\ current' = [p \in Procs |-> IF p \in P THEN "A" ELSE current[p]]
  /\ UNCHANGED <<application, envVars>>

(* The process of an instance ends, by a signal or by the null logger.     *)
Dies(p) ==
  /\ at[p] # "idle"
  /\ "death" \in Faults \/ store[p] = "crashed"
  /\ Over({p}, "none") /\ Gone({p})
  /\ UNCHANGED <<archive, files, disk, unsynced>>

(* The archive directory is in /tmp.  What was answered before counts.     *)
PowerFails ==
  /\ "power" \in Faults
  /\ Over({p \in Procs : at[p] # "idle"}, "none") /\ Gone(Procs)
  /\ PowerLoss
  /\ archive' = EmptyArchive

Call(p) ==
  \/ Store(p) \/ StoreEnds(p)
  \/ Refused(p) \/ decorator_update_state(p)
  \/ Begin(p) \/ BeginFails(p)
  \/ FirmwareInstalled(p) \/ FirmwareFails(p) \/ FirmwareFailed(p)
  \/ BeginApplication(p)
  \/ Application(p) \/ ApplicationEnds(p) \/ ApplicationFailed(p)
  \/ Marker(p)

Next ==
  \/ \E p \in Procs :
       update_image(p) \/ update_image_typed(p) \/ Call(p) \/ Decide(p) \/ Dies(p)
  \/ PowerFails

Spec == Init /\ [][Next]_vars

-----------------------------------------------------------------------------
(* Whatever fails, both slots hold a complete application that has been    *)
(* verified, in the running system and after a power failure.              *)
SlotsIntact == \A s \in Slots : files[s] \in Bundles /\ disk[s] \in Bundles

(* What update_image reports as installed is installed: exactly the files  *)
(* that the image's own manifest lists, with the contents it lists,        *)
(* whatever earlier calls have left in the archive directory.  An image    *)
(* without a manifest declares nothing that could be compared.             *)
Declared(p) ==
  IF type[p] # "" THEN image[p].packed
  ELSE IF "fsupdate.json" \in DOMAIN image[p].packed
  THEN Manifest[image[p].packed["fsupdate.json"]]
  ELSE [f \in available[p] |-> IF f = "update.fw" THEN firmware ELSE files[application]]

InstalledAsDeclared ==
  \A p \in Procs : ret[p] = "installed" =>
    /\ available[p] = DOMAIN Declared(p)
    /\ HasFirmware(p) => firmware = Declared(p)["update.fw"]
    /\ HasApplication(p) => files[application] = Declared(p)["update.app"]

(* An application reported as installed survives a power failure.          *)
InstalledSurvives ==
  \A p \in Procs : ret[p] = "installed" /\ HasApplication(p) =>
    disk[application] = files[application]

(* The environment accounts for every installation: while one runs and     *)
(* after it has failed in any way, the flush of its handler and the marker *)
(* file included, the update state is not idle; a call that returned has   *)
(* recorded its own kind of update; and idle, no firmware is activated     *)
(* that is not confirmed.                                                  *)
OutcomeRecorded ==
  /\ \A p \in Procs :
       /\ at[p] \in InstallStages \/ ret[p] = "failed" => ~ Idle
       /\ ret[p] = "installed" => urs = Incomplete(available[p])
  /\ Idle => firmware = fallback

(* No two instances install at once. *)
OneInstallation ==
  \A p, q \in Procs : at[p] \in InstallStages /\ at[q] \in InstallStages => p = q
=============================================================================
