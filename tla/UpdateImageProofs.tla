-------------------------- MODULE UpdateImageProofs --------------------------
(***************************************************************************)
(* What update_image guarantees for the application slots, the environment *)
(* and what it reports as installed, for all images, manifests, bundles    *)
(* and faults and any number of FSUpdate instances, as long as they take   *)
(* turns (two_updaters.cfg shows that the library does not see to it).     *)
(* The types hold without that, and the only instance always has the turn. *)
(***************************************************************************)
EXTENDS UpdateImage, TLAPS

(* What an instance and its client do. *)
Step(p) ==
  \/ update_image(p) \/ update_image_typed(p) \/ Call(p) \/ Decide(p) \/ Dies(p)

(* No other instance is in a call. *)
Alone(p) == \A q \in Procs : q # p => at[q] = "idle"

TurnStep == PowerFails \/ \E p \in Procs : Alone(p) /\ Step(p)

(* Instances take turns: a call begins and a decision is made only while   *)
(* no other instance is in a call.                                         *)
TakeTurns == [][TurnStep]_vars

-----------------------------------------------------------------------------
(* Facts about the two slots and the files. *)
LEMMA OtherSlot == \A s \in Slots : Other(s) \in Slots
BY DEF Slots, Other

LEMMA SlotNames == "tmp" \notin Slots /\ "tmp" \in Names /\ Slots \subseteq Names
BY DEF Slots, Names

LEMMA BundlesAreFiles == Bundles \subseteq Contents /\ Contents \subseteq File
BY BundlesAssumption DEF BundlesAssumption, File

(* The names of the update states, and what can be available. *)
LEMMA IncompleteStates ==
  /\ \A a : Incomplete(a) # "NO_UPDATE_REBOOT_PENDING"
  /\ Incomplete({"update.fw"}) = "INCOMPLETE_FW_UPDATE"
  /\ Incomplete({"update.app"}) = "INCOMPLETE_APP_UPDATE"
  /\ Incomplete(Payloads) = "INCOMPLETE_APP_FW_UPDATE"
<1>1. Payloads # {"update.fw"} /\ Payloads # {"update.app"}
  BY DEF Payloads
<1>2. {"update.fw"} # {"update.app"}
  OBVIOUS
<1>3. QED
  BY <1>1, <1>2 DEF Incomplete

LEMMA AvailableSets ==
  \A a \in SUBSET Payloads :
    /\ "update.fw" \in a /\ "update.app" \notin a => a = {"update.fw"}
    /\ "update.fw" \notin a /\ a # {} => a = {"update.app"}
    /\ "update.fw" \in a /\ "update.app" \in a => a = Payloads
BY DEF Payloads

-----------------------------------------------------------------------------
(* Type correctness, for any number of instances. *)

(* TypeOK alone does not say that what a store extracts is in its image.   *)
TypeInv ==
  /\ TypeOK
  /\ image = [p \in Procs |-> image[p]]
  /\ \A p \in Procs :
       store[p] = "extracting" => entries[p] \subseteq DOMAIN image[p].packed

(* What an update image or the locals of a call may hold.                  *)
ImageOK(i) ==
  /\ i.header \in BOOLEAN
  /\ DOMAIN i.packed \subseteq Entries
  /\ \A f \in DOMAIN i.packed : i.packed[f] \in File

ImagesOK ==
  /\ image = [p \in Procs |-> image[p]]
  /\ \A p \in Procs : ImageOK(image[p])

ExtractsPacked ==
  \A p \in Procs :
    store[p] = "extracting" => entries[p] \subseteq DOMAIN image[p].packed

EnvTypeOK ==
  /\ urs \in UpdateStates
  /\ firmware \in Firmwares \cup {"factory"}
  /\ fallback \in Firmwares \cup {"factory"}

CallTypeOK ==
  /\ at \in [Procs -> Stages]
  /\ type \in [Procs -> Types \cup {""}]
  /\ ret \in [Procs -> {"none", "installed", "failed"}]

(* TypeInv by its parts. *)
LEMMA TypeParts ==
  TypeInv <=> /\ StoreTypeOK /\ AppTypeOK /\ EnvTypeOK /\ CallTypeOK
              /\ ImagesOK /\ ExtractsPacked
BY DEF TypeInv, TypeOK, EnvTypeOK, CallTypeOK, ImagesOK, ImageOK, ExtractsPacked

(* The same of the state after a step. *)
LEMMA TypePartsAfter ==
  TypeInv' <=> /\ StoreTypeOK' /\ AppTypeOK' /\ EnvTypeOK' /\ CallTypeOK'
               /\ ImagesOK' /\ ExtractsPacked'
BY TypeParts, PTL

(* The locals of a call that is over are well formed. *)
LEMMA NoImageOK == ImageOK(NoImage)
BY DEF ImageOK, NoImage, Entries

(* Every flush records a known update state. *)
LEMMA FlushedStates ==
  {"NO_UPDATE_REBOOT_PENDING", "FAILED_FW_UPDATE", "FAILED_APP_UPDATE",
   "INCOMPLETE_FW_UPDATE", "INCOMPLETE_APP_UPDATE", "INCOMPLETE_APP_FW_UPDATE"}
    \subseteq UpdateStates
<1>1. {{"update.fw"}, {"update.app"}, Payloads} \subseteq SUBSET Payloads
  BY DEF Payloads
<1> QED
  BY <1>1, IncompleteStates DEF UpdateStates

(* A store keeps to its archive, its entries and its stages. *)
LEMMA StoreStepTypes ==
  ASSUME TypeInv, NEW p \in Procs, StoreStep(p, image[p].header, image[p].packed),
         image' = image
  PROVE  StoreTypeOK' /\ ExtractsPacked'
<1>1. /\ StoreTypeOK /\ ExtractsPacked /\ ImageOK(image[p])
  BY TypeParts DEF ImagesOK
<1>2. Payloads \subseteq Entries /\ "fsupdate.json" \in Entries
  BY DEF Entries
<1> USE <1>1, <1>2 DEF StoreTypeOK, ExtractsPacked, ImageOK, StoreStages
<1>3. CASE ExtractUpdateStore(p, image[p].header, image[p].packed)
  BY <1>3 DEF ExtractUpdateStore
<1>4. CASE ImageRejected(p, image[p].header, image[p].packed)
  BY <1>4 DEF ImageRejected, StoreFails
<1>5. CASE ExtractEntry(p, image[p].packed)
  BY <1>5 DEF ExtractEntry
<1>6. CASE ExtractFails(p)
  BY <1>6 DEF ExtractFails, StoreFails, File
<1>7. CASE ReadUpdateConfiguration(p)
  BY <1>7, StoreAssumption DEF ReadUpdateConfiguration, StoreAssumption
<1>8. CASE NoUpdateConfiguration(p)
  BY <1>8 DEF NoUpdateConfiguration, StoreFails
<1>9. CASE NodesMissing(p)
  BY <1>9 DEF NodesMissing
<1>10. CASE CheckEntry(p)
  BY <1>10 DEF CheckEntry, Checks, ToCheck
<1>11. CASE CheckThrows(p)
  BY <1>11 DEF CheckThrows, StoreFails
<1>12. CASE CheckRejects(p)
  <2>1. EmptyArchive \in [Entries -> File]
    BY DEF EmptyArchive, File
  <2> QED
    BY <1>12, <2>1 DEF CheckRejects, StoreFails
<1>13. CASE Checked(p)
  BY <1>13 DEF Checked
<1> QED
  BY <1>3, <1>4, <1>5, <1>6, <1>7, <1>8, <1>9, <1>10, <1>11, <1>12, <1>13
     DEF StoreStep

(* An installation keeps to its files and its stages. *)
LEMMA InstallStepTypes ==
  ASSUME AppTypeOK, NEW p \in Procs, NEW c \in File, InstallStep(p, c)
  PROVE  AppTypeOK'
<1> USE SlotNames, OtherSlot DEF AppTypeOK, Reaches, AppStages
<1>1. CASE verify_application_bundle(p, c)
  BY <1>1 DEF verify_application_bundle
<1>2. CASE OpenTemporary(p, c)
  BY <1>2 DEF OpenTemporary, File
<1>3. CASE WriteTemporary(p, c)
  BY <1>3 DEF WriteTemporary
<1>4. CASE SyncTemporary(p)
  BY <1>4 DEF SyncTemporary
<1>5. CASE CopyFails(p, c)
  BY <1>5 DEF CopyFails, File
<1>6. CASE Rename(p)
  BY <1>6 DEF Rename, File
<1>7. CASE RenameFails(p)
  BY <1>7 DEF RenameFails
<1>8. CASE SyncDirectory(p)
  <2>1. [s \in Slots |-> Settled(s)] \in [Slots -> File]
    BY DEF Settled, File
  <2> QED
    BY <1>8, <2>1 DEF SyncDirectory
<1>9. CASE update_boot_variable(p)
  BY <1>9 DEF update_boot_variable
<1>10. CASE SwitchNotFlushed(p)
  BY <1>10 DEF SwitchNotFlushed
<1> QED
  BY <1>1, <1>2, <1>3, <1>4, <1>5, <1>6, <1>7, <1>8, <1>9, <1>10 DEF InstallStep

(* The end of calls keeps their locals well formed. *)
LEMMA OverTypes ==
  ASSUME TypeInv, NEW P \in SUBSET Procs, NEW answer \in {"none", "failed"},
         Over(P, answer), archive' \in [Entries -> File]
  PROVE  StoreTypeOK' /\ CallTypeOK' /\ ImagesOK' /\ ExtractsPacked'
<1>1. StoreTypeOK /\ CallTypeOK /\ ImagesOK /\ ExtractsPacked
  BY TypeParts
<1>2. CallTypeOK'
  BY <1>1 DEF CallTypeOK, Over, Stages
<1>3. ImagesOK'
  BY <1>1, NoImageOK DEF ImagesOK, Over
<1>4. /\ store' \in [Procs -> StoreStages]
      /\ entries' \in [Procs -> SUBSET Entries]
      /\ root' \in [Procs -> File]
      /\ available' \in [Procs -> SUBSET Payloads]
  BY <1>1 DEF StoreTypeOK, Over, NewStore, StoreStages, File
<1>5. ExtractsPacked'
  BY <1>1 DEF ExtractsPacked, Over, NewStore
<1> QED
  BY <1>2, <1>3, <1>4, <1>5 DEF StoreTypeOK

(* The next stage of a call changes nothing else of it. *)
LEMMA StageTypes ==
  ASSUME TypeInv, NEW p \in Procs, NEW stage \in Stages, GoesTo(p, stage)
  PROVE  StoreTypeOK' /\ CallTypeOK' /\ ImagesOK' /\ ExtractsPacked'
BY TypeParts
   DEF GoesTo, storeVars, StoreTypeOK, CallTypeOK, ImagesOK, ImageOK, ExtractsPacked

(* A transaction keeps the environment well formed. *)
LEMMA FlushTypes ==
  ASSUME TypeInv, NEW p \in Procs
  PROVE  /\ \A u \in UpdateStates : Flush(p, u) =>
               /\ urs' \in UpdateStates /\ application' \in Slots
               /\ staged' \in [Procs -> Slots \cup {"none"}]
               /\ UNCHANGED <<files, disk, unsynced, current>>
         /\ \A k \in BOOLEAN : FlushFails(p, k) => AppTypeOK' /\ EnvTypeOK'
BY TypeParts DEF AppTypeOK, EnvTypeOK, Flush, FlushFails, AlsoStaged, envVars

(* A call keeps the types. *)
LEMMA CallTypes ==
  ASSUME TypeInv, NEW p \in Procs,
         Step(p)
  PROVE  TypeInv'
<1>1. /\ StoreTypeOK /\ AppTypeOK /\ EnvTypeOK /\ CallTypeOK
      /\ ImagesOK /\ ExtractsPacked
  BY TypeParts
<1>2. archive \in [Entries -> File]
  BY <1>1 DEF StoreTypeOK
<1>3. ASSUME UNCHANGED <<appVars, envVars>> PROVE AppTypeOK' /\ EnvTypeOK'
  BY <1>1, <1>3 DEF appVars, envVars, AppTypeOK, EnvTypeOK
<1>4. \A f \in {"update.fw", "update.app"} : Source(p, f) \in File
  BY <1>1, <1>2 DEF Source, Entries, Payloads, ImagesOK, ImageOK, File
<1>5. CASE update_image(p)
  <2>1. \A i \in Images : ImageOK(i)
    BY ImageAssumption DEF ImageAssumption, ImageOK, File
  <2>2. ImagesOK'
    BY <1>1, <1>5, <2>1 DEF update_image, ImagesOK
  <2>3. CallTypeOK'
    BY <1>1, <1>5 DEF update_image, CallTypeOK, Stages
  <2>4. StoreTypeOK' /\ ExtractsPacked'
    <3>1. ExtractsPacked'
      BY <1>1, <1>5 DEF update_image, ImagesOK, ExtractsPacked, NewStore
    <3> QED
      BY <1>1, <1>5, <3>1 DEF update_image, StoreTypeOK, NewStore, StoreStages, File
  <2> QED
    BY <1>3, <1>5, <2>2, <2>3, <2>4, TypePartsAfter DEF update_image
<1>6. CASE update_image_typed(p)
  <2> DEFINE Avail(t) == CASE t = "fw" -> {"update.fw"} [] t = "app" -> {"update.app"}
                           [] OTHER -> {}
  <2>0. \A t : Avail(t) \in SUBSET Payloads
    BY DEF Payloads
  <2>1. PICK t \in Types \ {""}, avail \in SUBSET Payloads, c \in Paths :
          /\ type' = [type EXCEPT ![p] = t]
          /\ NewStore({p}, avail)
          /\ image' = [image EXCEPT ![p] =
                          [header |-> FALSE, packed |-> [f \in avail |-> c]]]
    <3>1. PICK t \in Types \ {""} :
            /\ type' = [type EXCEPT ![p] = t]
            /\ NewStore({p}, Avail(t))
            /\ \E c \in Paths :
                 image' = [image EXCEPT ![p] =
                             [header |-> FALSE, packed |-> [f \in Avail(t) |-> c]]]
      BY <1>6 DEF update_image_typed
    <3> HIDE DEF Avail
    <3> QED
      BY <2>0, <3>1
  <2>2. ImageOK([header |-> FALSE, packed |-> [f \in avail |-> c]])
    BY ImageAssumption DEF ImageAssumption, ImageOK, File, Entries
  <2>3. ImagesOK'
    BY <1>1, <2>1, <2>2 DEF ImagesOK
  <2>4. CallTypeOK'
    BY <1>1, <1>6, <2>1 DEF update_image_typed, CallTypeOK, Stages
  <2>5. ExtractsPacked'
    BY <1>1, <2>1 DEF ImagesOK, ExtractsPacked, NewStore
  <2>6. StoreTypeOK'
    BY <1>1, <1>6, <2>1 DEF update_image_typed, StoreTypeOK, NewStore, StoreStages, File
  <2> QED
    BY <1>3, <1>6, <2>3, <2>4, <2>5, <2>6, TypePartsAfter DEF update_image_typed
<1>7. ASSUME NEW answer \in {"none", "failed"}, Over({p}, answer), UNCHANGED archive,
             AppTypeOK', EnvTypeOK'
      PROVE  TypeInv'
  BY <1>2, <1>7, OverTypes, TypePartsAfter
<1>8. ASSUME NEW stage \in Stages, GoesTo(p, stage), AppTypeOK', EnvTypeOK'
      PROVE  TypeInv'
  BY <1>8, StageTypes, TypePartsAfter
<1>9. {"idle", "dispatch", "begin", "not_begun", "marker", "firmware", "fw_failed",
       "fw_installed", "application", "app_failed"} \subseteq Stages
  BY DEF Stages, InstallStages
<1>10. CASE Store(p)
  <2>1. StoreTypeOK' /\ ExtractsPacked'
    BY <1>10, StoreStepTypes DEF Store, callVars
  <2>2. CallTypeOK' /\ ImagesOK'
    BY <1>1, <1>10 DEF Store, callVars, CallTypeOK, ImagesOK, ImageOK
  <2> QED
    BY <1>3, <1>10, <2>1, <2>2, TypePartsAfter DEF Store
<1>11. CASE StoreEnds(p)
  BY <1>3, <1>7, <1>8, <1>9, <1>11 DEF StoreEnds, Throws
<1>12. CASE Refused(p)
  BY <1>3, <1>7, <1>12 DEF Refused, Throws
<1>13. CASE decorator_update_state(p)
  BY <1>3, <1>8, <1>9, <1>13 DEF decorator_update_state
<1>14. CASE Begin(p)
  <2>1. AppTypeOK' /\ EnvTypeOK'
    BY <1>1, <1>14, FlushTypes, FlushedStates
       DEF Begin, Reaches, AppTypeOK, EnvTypeOK, AppStages
  <2>2. GoesTo(p, "firmware") \/ GoesTo(p, "application")
    BY <1>14 DEF Begin
  <2> QED
    BY <1>8, <1>9, <2>1, <2>2
<1>15. CASE BeginFails(p)
  BY <1>7, <1>8, <1>9, <1>15, FlushTypes DEF BeginFails, Throws
<1>16. CASE FirmwareInstalled(p)
  <2>1. EnvTypeOK' /\ AppTypeOK'
    BY <1>1, <1>16 DEF FirmwareInstalled, EnvTypeOK, AppTypeOK, appVars
  <2>2. \/ GoesTo(p, "fw_installed") \/ GoesTo(p, "marker") \/ GoesTo(p, "fw_failed")
    BY <1>16 DEF FirmwareInstalled
  <2> QED
    BY <1>8, <1>9, <2>1, <2>2
<1>17. CASE FirmwareFails(p)
  <2>1. EnvTypeOK' /\ AppTypeOK'
    BY <1>1, <1>17 DEF FirmwareFails, EnvTypeOK, AppTypeOK, appVars
  <2> QED
    BY <1>8, <1>9, <1>17, <2>1 DEF FirmwareFails
<1>18. CASE FirmwareFailed(p)
  <2>1. AppTypeOK' /\ EnvTypeOK'
    BY <1>1, <1>18, FlushTypes, FlushedStates
       DEF FirmwareFailed, AppTypeOK, EnvTypeOK
  <2>2. (Over({p}, "failed") \/ Over({p}, "none")) /\ UNCHANGED archive
    BY <1>18 DEF FirmwareFailed, Fails, Throws
  <2> QED
    BY <1>7, <2>1, <2>2
<1>19. CASE BeginApplication(p)
  <2>1. AppTypeOK' /\ EnvTypeOK'
    BY <1>1, <1>19, FlushTypes, FlushedStates
       DEF BeginApplication, Reaches, AppTypeOK, EnvTypeOK, AppStages
  <2>2. GoesTo(p, "application") \/ GoesTo(p, "app_failed")
    BY <1>19 DEF BeginApplication
  <2> QED
    BY <1>8, <1>9, <2>1, <2>2
<1>20. CASE Application(p)
  <2>1. AppTypeOK'
    BY <1>1, <1>4, <1>20, InstallStepTypes DEF Application
  <2>2. EnvTypeOK' /\ StoreTypeOK' /\ CallTypeOK' /\ ImagesOK' /\ ExtractsPacked'
    BY <1>1, <1>20
       DEF Application, storeVars, callVars, envVars, EnvTypeOK, StoreTypeOK, CallTypeOK,
           ImagesOK, ImageOK, ExtractsPacked
  <2> QED
    BY <2>1, <2>2, TypePartsAfter
<1>21. CASE ApplicationEnds(p)
  <2>1. AppTypeOK' /\ EnvTypeOK'
    BY <1>1, <1>21 DEF ApplicationEnds, AppTypeOK, AppStages, Slots, EnvTypeOK, envVars
  <2> QED
    BY <1>8, <1>9, <1>21, <2>1 DEF ApplicationEnds
<1>22. CASE ApplicationFailed(p)
  <2>1. AppTypeOK' /\ EnvTypeOK'
    BY <1>1, <1>22, FlushTypes, FlushedStates
       DEF ApplicationFailed, AppTypeOK, EnvTypeOK
  <2> QED
    BY <1>7, <1>22, <2>1 DEF ApplicationFailed, Fails
<1>23. CASE Marker(p)
  <2>1. CASE Fails(p)
    BY <1>3, <1>7, <1>23, <2>1 DEF Marker, Fails
  <2>2. CASE /\ at' = [at EXCEPT ![p] = "idle"] /\ ret' = [ret EXCEPT ![p] = "installed"]
             /\ UNCHANGED <<storeVars, type, image>>
    BY <1>1, <1>3, <1>23, <2>2, TypePartsAfter
       DEF Marker, storeVars, StoreTypeOK, CallTypeOK, ImagesOK, ImageOK, ExtractsPacked,
           Stages
  <2> QED
    BY <1>23, <2>1, <2>2 DEF Marker
<1>24. CASE Decide(p)
  <2>1. AppTypeOK' /\ EnvTypeOK'
    BY <1>1, <1>24 DEF Decide, AppTypeOK, EnvTypeOK, AlsoStaged, UpdateStates
  <2> QED
    BY <1>2, <1>24, <2>1, OverTypes, TypePartsAfter DEF Decide
<1>25. CASE Dies(p)
  <2>1. AppTypeOK' /\ EnvTypeOK'
    BY <1>1, <1>25 DEF Dies, Gone, AppTypeOK, EnvTypeOK, envVars, AppStages, Slots
  <2> QED
    BY <1>7, <1>25, <2>1 DEF Dies
<1> QED
  BY <1>5, <1>6, <1>10, <1>11, <1>12, <1>13, <1>14, <1>15, <1>16, <1>17, <1>18, <1>19,
     <1>20, <1>21, <1>22, <1>23, <1>24, <1>25
     DEF Step, Call

(* A power failure keeps the types. *)
LEMMA PowerTypes ==
  ASSUME TypeInv, PowerFails
  PROVE  TypeInv'
<1>1. AppTypeOK' /\ EnvTypeOK'
  <2>1. disk' \in [Slots -> File]
    BY SlotNames, TypeParts DEF PowerFails, PowerLoss, Settled, AppTypeOK, File
  <2>2. files' \in [Names -> File] /\ unsynced' \subseteq Names
    BY <2>1 DEF PowerFails, PowerLoss, File
  <2> QED
    BY <2>1, <2>2, TypeParts
       DEF PowerFails, Gone, AppTypeOK, EnvTypeOK, envVars, AppStages, Slots
<1>2. EmptyArchive \in [Entries -> File]
  BY DEF EmptyArchive, File
<1> QED
  BY <1>1, <1>2, OverTypes, TypePartsAfter DEF PowerFails

(* The inductive invariant of the types holds always. *)
LEMMA TypeInvariant == Spec => []TypeInv
<1>1. Init => TypeInv
  <2> SUFFICES ASSUME Init PROVE TypeInv
    OBVIOUS
  <2>1. StoreTypeOK /\ ExtractsPacked
    BY DEF Init, StoreInit, StoreTypeOK, ExtractsPacked, EmptyArchive, StoreStages, File
  <2>2. AppTypeOK
    BY BundlesAreFiles, SlotNames DEF Init, AppInit, AppTypeOK, AppStages, Slots, File
  <2>3. EnvTypeOK /\ CallTypeOK
    BY DEF Init, EnvTypeOK, CallTypeOK, UpdateStates, Stages
  <2>4. ImagesOK
    BY NoImageOK DEF Init, ImagesOK
  <2> QED
    BY <2>1, <2>2, <2>3, <2>4, TypeParts
<1>2. TypeInv /\ [Next]_vars => TypeInv'
  <2> SUFFICES ASSUME TypeInv, [Next]_vars PROVE TypeInv'
    OBVIOUS
  <2>1. CASE UNCHANGED vars
    BY <2>1
       DEF vars, storeVars, appVars, callVars, envVars, TypeInv, TypeOK, StoreTypeOK,
           AppTypeOK
  <2>2. CASE PowerFails
    BY <2>2, PowerTypes
  <2> QED
    BY <2>1, <2>2, CallTypes DEF Next, Step
<1> QED
  BY <1>1, <1>2, PTL DEF Spec

(* However many instances work on the files at once, and whatever dies or  *)
(* fails: a call is always at a stage that its handlers account for, and   *)
(* no file outside of the update image is extracted.                       *)
THEOREM TypeCorrect == Spec => []TypeOK
<1>1. TypeInv => TypeOK
  BY DEF TypeInv
<1> QED
  BY <1>1, TypeInvariant, PTL
-----------------------------------------------------------------------------
(* Instances that take turns. *)

(* An instance that is the only one on the board does. *)
LEMMA OneTakesTurns ==
  ASSUME \A p, q \in Procs : p = q
  PROVE  Spec => TakeTurns
<1>1. Next => TurnStep
  BY DEF Next, TurnStep, Alone, Step
<1>2. QED
  BY <1>1, PTL DEF Spec, TakeTurns

(* The types, by variable. *)
LEMMA TypeFacts ==
  ASSUME TypeInv
  PROVE  /\ AppTypeOK
         /\ at \in [Procs -> Stages] /\ type \in [Procs -> Types \cup {""}]
         /\ ret \in [Procs -> {"none", "installed", "failed"}]
         /\ image = [p \in Procs |-> image[p]]
         /\ archive \in [Entries -> File]
         /\ store \in [Procs -> StoreStages]
         /\ entries \in [Procs -> SUBSET Entries]
         /\ root \in [Procs -> File]
         /\ available \in [Procs -> SUBSET Payloads]
BY DEF TypeInv, TypeOK, StoreTypeOK

(* A step of an instance leaves the locals of the others alone; a decision *)
(* takes note of their answers.                                            *)
LEMMA LocalsKept ==
  ASSUME TypeInv, NEW p \in Procs, Step(p), NEW q \in Procs, q # p
  PROVE  /\ app'[q] = app[q]
         /\ \/ /\ at'[q] = at[q] /\ ret'[q] = ret[q] /\ type'[q] = type[q]
               /\ image'[q] = image[q] /\ available'[q] = available[q]
            \/ Decide(p) /\ (at[q] = "idle" => at'[q] = "idle" /\ ret'[q] = "none")
<1> DEFINE Kept == /\ at'[q] = at[q] /\ ret'[q] = ret[q] /\ type'[q] = type[q]
                   /\ image'[q] = image[q] /\ available'[q] = available[q]
<1> USE TypeFacts DEF AppTypeOK
<1>1. ASSUME NEW stage, GoesTo(p, stage) PROVE Kept
  BY <1>1 DEF GoesTo, storeVars
<1>2. ASSUME NEW answer, Over({p}, answer) PROVE Kept
  BY <1>2 DEF Over, NewStore
<1>3. ASSUME NEW stage, Reaches(p, stage) PROVE app'[q] = app[q]
  BY <1>3 DEF Reaches
<1>4. ASSUME NEW avail, NewStore({p}, avail) PROVE available'[q] = available[q]
  BY <1>4 DEF NewStore
<1>5. CASE update_image(p)
  BY <1>4, <1>5 DEF update_image, appVars
<1>6. CASE update_image_typed(p)
  <2>1. PICK avail : NewStore({p}, avail)
    BY <1>6 DEF update_image_typed
  <2>2. image'[q] = image[q]
    BY <1>6 DEF update_image_typed
  <2> QED
    BY <1>4, <1>6, <2>1, <2>2 DEF update_image_typed, appVars
<1>7. CASE Store(p)
  <2>1. available'[q] = available[q]
    BY <1>7
       DEF Store, StoreStep, ExtractUpdateStore, ImageRejected, ExtractEntry, ExtractFails,
           ReadUpdateConfiguration, NoUpdateConfiguration, NodesMissing, CheckEntry, Checks,
           CheckThrows, CheckRejects, Checked, StoreFails
  <2> QED
    BY <1>7, <2>1 DEF Store, appVars, callVars
<1>8. CASE StoreEnds(p) \/ Refused(p) \/ decorator_update_state(p)
  BY <1>1, <1>2, <1>8 DEF StoreEnds, Refused, decorator_update_state, Throws, appVars
<1>9. CASE Begin(p)
  BY <1>1, <1>3, <1>9 DEF Begin
<1>10. CASE BeginFails(p)
  BY <1>1, <1>2, <1>10 DEF BeginFails, FlushFails, Throws
<1>11. CASE FirmwareInstalled(p) \/ FirmwareFails(p)
  BY <1>1, <1>11 DEF FirmwareInstalled, FirmwareFails, appVars
<1>12. CASE FirmwareFailed(p) \/ ApplicationFailed(p)
  BY <1>2, <1>12 DEF FirmwareFailed, ApplicationFailed, FlushFails, Fails, Throws
<1>13. CASE BeginApplication(p)
  BY <1>1, <1>3, <1>13 DEF BeginApplication, FlushFails
<1>14. CASE Application(p)
  <2>1. app'[q] = app[q]
    BY <1>3, <1>14
       DEF Application, InstallStep, verify_application_bundle, OpenTemporary,
           WriteTemporary, SyncTemporary, CopyFails, Rename, RenameFails, SyncDirectory,
           update_boot_variable, SwitchNotFlushed
  <2> QED
    BY <1>14, <2>1 DEF Application, storeVars, callVars
<1>15. CASE ApplicationEnds(p)
  BY <1>1, <1>15 DEF ApplicationEnds
<1>16. CASE Marker(p)
  BY <1>2, <1>16 DEF Marker, Fails, storeVars, appVars
<1>17. CASE Decide(p)
  BY <1>17 DEF Decide, Over
<1>18. CASE Dies(p)
  BY <1>2, <1>18 DEF Dies, Gone
<1> QED
  BY <1>5, <1>6, <1>7, <1>8, <1>9, <1>10, <1>11, <1>12, <1>13, <1>14, <1>15, <1>16, <1>17,
     <1>18
     DEF Step, Call

(* The others stay idle. *)
LEMMA OthersIdle ==
  ASSUME TypeInv, NEW p \in Procs, Alone(p), Step(p), NEW q \in Procs, q # p
  PROVE  at[q] = "idle" /\ at'[q] = "idle" /\ app'[q] = app[q]
BY LocalsKept DEF Alone

(* Before the update state was found idle nothing is changed that another  *)
(* instance has reported as installed.                                     *)
LEMMA EarlyKept ==
  ASSUME NEW p \in Procs, Step(p), ~ Decide(p), ~ Dies(p),
         at[p] \in {"idle", "store", "dispatch"}
  PROVE  UNCHANGED <<files, disk, application, urs, firmware, fallback>>
BY DEF Step, Call, update_image, update_image_typed, Store, StoreEnds, Refused,
       decorator_update_state, Begin, BeginFails, FirmwareInstalled, FirmwareFails,
       FirmwareFailed, BeginApplication, Application, ApplicationEnds, ApplicationFailed,
       Marker, appVars, envVars

-----------------------------------------------------------------------------
(* The slots. *)

(* The file an installation copies. *)
Bundle(p) == Source(p, "update.app")

(* Only a verified bundle is copied, and only a complete and stored copy   *)
(* is renamed.                                                             *)
CopyTells(p) ==
  /\ app[p] \in {"verified", "opened"} => Bundle(p) \in Bundles
  /\ app[p] \in {"written", "synced"} => files["tmp"] \in Bundles
  /\ app[p] = "synced" => "tmp" \notin unsynced
  /\ at[p] # "application" => app[p] = "none"

SlotsStored == unsynced \cap Slots = {}

IInv ==
  /\ TypeInv
  /\ SlotsIntact /\ SlotsStored
  /\ \A p \in Procs : CopyTells(p)

(* An instance that is not in a call copies nothing. *)
LEMMA OthersCopyNothing ==
  ASSUME IInv, NEW p \in Procs, Alone(p), Step(p), NEW q \in Procs, q # p
  PROVE  CopyTells(q)'
BY OthersIdle DEF IInv, CopyTells

(* A step that touches no file keeps the invariant when its instance is    *)
(* not copying after it.                                                   *)
LEMMA FilesKept ==
  ASSUME IInv, NEW p \in Procs, Alone(p), Step(p), UNCHANGED <<files, disk, unsynced>>,
         app'[p] \in {"none", "started"}, at'[p] # "application" => app'[p] = "none"
  PROVE  IInv'
<1>1. TypeInv' /\ SlotsIntact' /\ SlotsStored'
  BY CallTypes DEF IInv, SlotsIntact, SlotsStored
<1>2. CopyTells(p)'
  BY DEF CopyTells
<1>3. QED
  BY <1>1, <1>2, OthersCopyNothing DEF IInv

(* The steps of the installation. *)
LEMMA InstallStepKeeps ==
  ASSUME IInv, NEW p \in Procs, Alone(p), Application(p)
  PROVE  IInv'
<1>0. Step(p) /\ TypeInv' /\ InstallStep(p, Bundle(p))
  BY CallTypes DEF IInv, Step, Call, Application, Bundle
<1>1. /\ AppTypeOK /\ SlotsIntact /\ SlotsStored /\ CopyTells(p)
      /\ at' = at /\ at[p] = "application" /\ Bundle(p)' = Bundle(p)
  BY TypeFacts DEF IInv, Application, callVars, storeVars, Bundle, Source
<1>2. SlotsIntact' /\ SlotsStored' /\ CopyTells(p)'
  <2> USE <1>1, SlotNames, OtherSlot, BundlesAreFiles
      DEF AppTypeOK, SlotsIntact, SlotsStored, CopyTells, Reaches, AppStages
  <2>1. CASE verify_application_bundle(p, Bundle(p))
    BY <2>1 DEF verify_application_bundle
  <2>2. CASE OpenTemporary(p, Bundle(p))
    BY <2>2 DEF OpenTemporary, File
  <2>3. CASE WriteTemporary(p, Bundle(p))
    BY <2>3 DEF WriteTemporary
  <2>4. CASE SyncTemporary(p)
    BY <2>4 DEF SyncTemporary
  <2>5. CASE CopyFails(p, Bundle(p))
    BY <2>5 DEF CopyFails, File
  <2>6. CASE Rename(p)
    <3> DEFINE target == Other(application)
    <3>1. target \in Slots /\ "tmp" \notin unsynced /\ files["tmp"] \in Bundles
      BY <2>6 DEF Rename
    <3>2. unsynced' = unsynced \ {"tmp", target}
      BY <2>6, <3>1 DEF Rename
    <3>3. /\ files' \in [Names -> File]
          /\ \A s \in Slots : files'[s] \in {files[s], files["tmp"]}
      BY <2>6, <3>1 DEF Rename, File
    <3>4. app' \in [Procs -> AppStages] /\ app'[p] = "renamed"
      BY <2>6 DEF Rename
    <3>5. QED
      BY <2>6, <3>1, <3>2, <3>3, <3>4 DEF Rename
  <2>7. CASE RenameFails(p)
    BY <2>7 DEF RenameFails
  <2>8. CASE SyncDirectory(p)
    BY <2>8 DEF SyncDirectory, Settled
  <2>9. CASE update_boot_variable(p)
    BY <2>9 DEF update_boot_variable
  <2>10. CASE SwitchNotFlushed(p)
    BY <2>10 DEF SwitchNotFlushed
  <2>11. QED
    BY <1>0, <2>1, <2>2, <2>3, <2>4, <2>5, <2>6, <2>7, <2>8, <2>9, <2>10
    DEF InstallStep
<1>3. QED
  BY <1>0, <1>2, OthersCopyNothing DEF IInv

(* The steps of a call outside of the installation. *)
LEMMA CallKeeps ==
  ASSUME IInv, NEW p \in Procs, Alone(p), Step(p)
  PROVE  IInv'
<1>1. /\ CopyTells(p) /\ at \in [Procs -> Stages] /\ app \in [Procs -> AppStages]
  BY TypeFacts DEF IInv, AppTypeOK
<1> USE <1>1, FilesKept DEF CopyTells
<1>2. CASE Application(p)
  BY <1>2, InstallStepKeeps
<1>3. CASE update_image(p)
  BY <1>3 DEF update_image, appVars
<1>4. CASE update_image_typed(p)
  BY <1>4 DEF update_image_typed, appVars
<1>5. CASE Decide(p)
  BY <1>5 DEF Decide, Over
<1>6. CASE Dies(p)
  <2>1. app'[p] = "none" /\ UNCHANGED <<files, disk, unsynced>>
    BY <1>6 DEF Dies, Gone
  <2>2. QED
    BY <2>1
<1>7. CASE Store(p)
  BY <1>7 DEF Store, appVars, callVars
<1>8. CASE StoreEnds(p) \/ Refused(p) \/ decorator_update_state(p)
  BY <1>8 DEF StoreEnds, Refused, decorator_update_state, appVars
<1>9. CASE Begin(p)
  BY <1>9 DEF Begin, Flush, GoesTo, Reaches
<1>10. CASE BeginFails(p)
  BY <1>10 DEF BeginFails, FlushFails
<1>11. CASE FirmwareInstalled(p) \/ FirmwareFails(p)
  BY <1>11 DEF FirmwareInstalled, FirmwareFails, appVars
<1>12. CASE FirmwareFailed(p) \/ ApplicationFailed(p)
  BY <1>12 DEF FirmwareFailed, ApplicationFailed, Flush, FlushFails
<1>13. CASE BeginApplication(p)
  BY <1>13 DEF BeginApplication, Flush, FlushFails, GoesTo, Reaches
<1>14. CASE ApplicationEnds(p)
  <2>1. app'[p] = "none" /\ UNCHANGED <<files, disk, unsynced>>
    BY <1>14 DEF ApplicationEnds
  <2>2. QED
    BY <2>1
<1>15. CASE Marker(p)
  BY <1>15 DEF Marker, appVars
<1>16. QED
  BY <1>2, <1>3, <1>4, <1>5, <1>6, <1>7, <1>8, <1>9, <1>10, <1>11, <1>12, <1>13, <1>14,
     <1>15
  DEF Step, Call

(* A power failure leaves each slot in its stored or in its last version,  *)
(* and both are verified.                                                  *)
LEMMA PowerFailureKeeps ==
  ASSUME IInv, PowerFails
  PROVE  IInv'
<1>1. \A s \in Slots : disk'[s] \in Bundles
  BY TypeFacts DEF IInv, AppTypeOK, SlotsIntact, SlotsStored, PowerFails, PowerLoss, Settled
<1>2. \A s \in Slots : files'[s] = disk'[s]
  BY SlotNames DEF PowerFails, PowerLoss
<1>3. SlotsIntact' /\ SlotsStored'
  BY <1>1, <1>2 DEF SlotsIntact, SlotsStored, PowerFails, PowerLoss
<1>4. \A p \in Procs : CopyTells(p)'
  BY DEF CopyTells, PowerFails, Gone
<1>5. QED
  BY <1>3, <1>4, PowerTypes DEF IInv

LEMMA Invariant == Spec /\ TakeTurns => []IInv
<1>1. Init /\ TypeInv => IInv
  <2> SUFFICES ASSUME Init, TypeInv PROVE IInv
    OBVIOUS
  <2>1. SlotsIntact
    BY SlotNames DEF Init, AppInit, SlotsIntact, Slots
  <2>2. SlotsStored /\ \A p \in Procs : CopyTells(p)
    BY DEF Init, AppInit, SlotsStored, CopyTells
  <2>3. QED
    BY <2>1, <2>2 DEF IInv
<1>2. IInv /\ TypeInv' /\ [TurnStep]_vars => IInv'
  <2> SUFFICES ASSUME IInv, TypeInv', [TurnStep]_vars PROVE IInv'
    OBVIOUS
  <2>1. CASE UNCHANGED vars
    BY <2>1
    DEF vars, storeVars, appVars, callVars, IInv, SlotsIntact, SlotsStored, CopyTells,
        Bundle, Source
  <2>2. CASE TurnStep
    BY <2>2, CallKeeps, PowerFailureKeeps DEF TurnStep
  <2>3. QED
    BY <2>1, <2>2
<1>3. QED
  BY <1>1, <1>2, TypeInvariant, PTL DEF Spec, TakeTurns

-----------------------------------------------------------------------------
(* Both slots hold a complete and verified application at every moment and *)
(* after every power failure, whatever the images contain and whichever    *)
(* step fails, the unchecked fsync of the directory and the death of a     *)
(* client included, and whichever instance installs when another has died  *)
(* and left its temporary file.                                            *)
THEOREM SlotsAlwaysIntact == Spec /\ TakeTurns => []SlotsIntact
<1>1. IInv => SlotsIntact
  BY DEF IInv
<1>2. QED
  BY <1>1, Invariant, PTL

-----------------------------------------------------------------------------
(* The environment accounts for every installation. *)

(* What update_reboot_state says of a call, wherever it is. *)
CallAccounted(p) ==
  /\ at[p] # "idle" => ret[p] = "none"
  /\ at[p] = "begin" => available[p] # {}
  /\ at[p] = "firmware" => HasFirmware(p) /\ urs = "INCOMPLETE_FW_UPDATE"
  /\ at[p] = "fw_installed" => available[p] = Payloads /\ ~ Idle
  /\ at[p] \in {"application", "marker"} \/ ret[p] = "installed" =>
       available[p] # {} /\ urs = Incomplete(available[p])
  /\ at[p] \in {"fw_failed", "app_failed"} \/ ret[p] = "failed" => ~ Idle

(* The call has found the update state idle, and so every earlier          *)
(* installation decided: no instance still has an answer to rely on.       *)
PastDispatch(p) == at[p] \notin {"idle", "store", "dispatch"}

NoAnswerWaits(p) == PastDispatch(p) => \A q \in Procs : ret[q] = "none"

OInv ==
  /\ TypeInv
  /\ Idle => firmware = fallback
  /\ \A p \in Procs : CallAccounted(p) /\ NoAnswerWaits(p)

(* A step of an instance takes the answers of the others from them or      *)
(* changes nothing that these answers are about.                           *)
LEMMA OthersAnswered ==
  ASSUME OInv, NEW p \in Procs, Alone(p), Step(p), NEW q \in Procs, q # p
  PROVE  /\ at[q] = "idle" /\ at'[q] = "idle" /\ app'[q] = app[q]
         /\ \/ ret'[q] = "none"
            \/ /\ ret'[q] = ret[q] /\ type'[q] = type[q]
               /\ image'[q] = image[q] /\ available'[q] = available[q]
               /\ UNCHANGED <<files, disk, application, urs, firmware, fallback>>
<1>1. at[q] = "idle" /\ at'[q] = "idle" /\ app'[q] = app[q]
  BY OthersIdle DEF OInv
<1>2. CASE Decide(p)
  BY <1>1, <1>2, TypeFacts DEF OInv, Decide, Over
<1>3. CASE ~ Decide(p)
  <2>1. /\ ret'[q] = ret[q] /\ type'[q] = type[q]
        /\ image'[q] = image[q] /\ available'[q] = available[q]
    BY <1>3, LocalsKept DEF OInv
  <2>2. CASE PastDispatch(p)
    BY <1>1, <2>1, <2>2 DEF OInv, NoAnswerWaits
  <2>3. CASE ~ PastDispatch(p)
    <3>1. UNCHANGED <<files, disk, application, urs, firmware, fallback>>
      <4>1. CASE Dies(p)
        BY <4>1 DEF Dies, Gone, envVars
      <4>2. CASE ~ Dies(p)
        BY <1>3, <2>3, <4>2, EarlyKept DEF PastDispatch
      <4> QED
        BY <4>1, <4>2
    <3> QED
      BY <1>1, <2>1, <3>1
  <2> QED
    BY <2>2, <2>3
<1> QED
  BY <1>2, <1>3

(* The call of the instance whose turn it is decides. *)
LEMMA OutcomeKept ==
  ASSUME OInv, NEW p \in Procs, Alone(p), Step(p),
         (Idle => firmware = fallback)', CallAccounted(p)',
         PastDispatch(p)' => PastDispatch(p) \/ Idle
  PROVE  OInv'
<1>1. TypeInv'
  BY CallTypes DEF OInv
<1>2. ASSUME NEW q \in Procs, q # p PROVE CallAccounted(q)' /\ NoAnswerWaits(q)'
  <2>1. CallAccounted(q) /\ at'[q] = "idle"
    BY <1>2, OthersAnswered DEF OInv
  <2>2. CallAccounted(q)'
    BY <1>2, <2>1, OthersAnswered DEF CallAccounted, Idle
  <2> QED
    BY <2>1, <2>2 DEF NoAnswerWaits, PastDispatch
<1>3. NoAnswerWaits(p)'
  <2> SUFFICES ASSUME PastDispatch(p)', NEW q \in Procs PROVE ret'[q] = "none"
    BY DEF NoAnswerWaits
  <2>1. ret[q] = "none"
    <3>1. CASE PastDispatch(p)
      BY <3>1 DEF OInv, NoAnswerWaits
    <3>2. CASE Idle
      <4>1. CallAccounted(q) /\ ret[q] \in {"none", "installed", "failed"}
        BY TypeFacts DEF OInv
      <4> QED
        BY <3>2, <4>1, IncompleteStates DEF CallAccounted, Idle
    <3> QED
      BY <3>1, <3>2
  <2>2. CASE q = p
    BY <2>2 DEF CallAccounted, PastDispatch
  <2>3. CASE q # p
    BY <2>1, <2>3, OthersAnswered
  <2> QED
    BY <2>2, <2>3
<1> QED
  BY <1>1, <1>2, <1>3 DEF OInv

(* Every step of the store leaves the installation alone. *)
LEMMA StoreKeepsOutcome ==
  ASSUME OInv, NEW p \in Procs, Alone(p), Store(p)
  PROVE  OInv'
<1>1. UNCHANGED <<at, ret, urs, firmware, fallback>> /\ at[p] = "store"
  BY DEF Store, callVars, envVars
<1>2. CallAccounted(p)'
  BY <1>1 DEF OInv, CallAccounted, Idle
<1>3. QED
  BY <1>1, <1>2, OutcomeKept DEF Step, Call, OInv, PastDispatch, Idle

(* A call that ends, and a call that goes to its next stage. *)
LEMMA OverKeepsOutcome ==
  ASSUME OInv, NEW p \in Procs, Alone(p), Step(p), NEW answer \in {"none", "failed"},
         Over({p}, answer), answer = "failed" => ~ Idle', (Idle => firmware = fallback)'
  PROVE  OInv'
<1>1. at'[p] = "idle" /\ ret'[p] = answer
  BY DEF Over
<1>2. QED
  BY <1>1, OutcomeKept DEF CallAccounted, PastDispatch

LEMMA StageKeepsOutcome ==
  ASSUME OInv, NEW p \in Procs, Alone(p), Step(p), NEW stage \in Stages \ {"idle"},
         at[p] # "idle", GoesTo(p, stage), (Idle => firmware = fallback)',
         stage = "dispatch" \/ PastDispatch(p) \/ Idle,
         stage = "begin" => available[p] # {},
         stage = "firmware" => HasFirmware(p) /\ urs' = "INCOMPLETE_FW_UPDATE",
         stage = "fw_installed" => available[p] = Payloads /\ ~ Idle',
         stage \in {"application", "marker"} =>
           available[p] # {} /\ urs' = Incomplete(available[p]),
         stage \in {"fw_failed", "app_failed"} => ~ Idle'
  PROVE  OInv'
<1>1. UNCHANGED <<ret, available>> /\ ret[p] = "none"
  BY DEF GoesTo, storeVars, OInv, CallAccounted
<1>2. at'[p] = stage
  BY TypeFacts DEF GoesTo, OInv
<1>3. CallAccounted(p)'
  BY <1>1, <1>2 DEF CallAccounted, HasFirmware
<1>4. QED
  BY <1>2, <1>3, OutcomeKept DEF PastDispatch

LEMMA CallKeepsOutcome ==
  ASSUME OInv, NEW p \in Procs, Alone(p), Step(p)
  PROVE  OInv'
<1>1. /\ CallAccounted(p) /\ (Idle => firmware = fallback)
      /\ at \in [Procs -> Stages] /\ available[p] \in SUBSET Payloads
      /\ ret \in [Procs -> {"none", "installed", "failed"}]
  BY TypeFacts DEF OInv
<1>2. CASE Store(p)
  BY <1>2, StoreKeepsOutcome
<1>3. CASE update_image(p)
  <2>1. at'[p] = "store" /\ ret'[p] = "none" /\ UNCHANGED envVars
    BY <1>1, <1>3 DEF update_image
  <2>2. QED
    BY <1>1, <2>1, OutcomeKept DEF CallAccounted, PastDispatch, Idle, envVars
<1>4. CASE update_image_typed(p)
  <2>1. at'[p] = "dispatch" /\ ret'[p] = "none" /\ UNCHANGED envVars
    BY <1>1, <1>4 DEF update_image_typed
  <2>2. QED
    BY <1>1, <2>1, OutcomeKept DEF CallAccounted, PastDispatch, Idle, envVars
<1>5. CASE StoreEnds(p)
  BY <1>1, <1>5, OverKeepsOutcome, StageKeepsOutcome
  DEF PastDispatch, StoreEnds, Throws, envVars, Idle, Stages
<1>6. CASE Refused(p)
  BY <1>1, <1>6, OverKeepsOutcome DEF Refused, Throws, envVars, Idle
<1>7. CASE decorator_update_state(p)
  BY <1>1, <1>7, StageKeepsOutcome
  DEF PastDispatch, decorator_update_state, envVars, Idle, Stages
<1>8. CASE Begin(p)
  <2>1. CASE HasFirmware(p)
    BY <1>1, <1>8, <2>1, StageKeepsOutcome
    DEF PastDispatch, Begin, Flush, Idle, Stages, InstallStages
  <2>2. CASE ~ HasFirmware(p)
    <3>1. available[p] = {"update.app"}
      BY <1>1, <1>8, <2>2, AvailableSets DEF Begin, CallAccounted, HasFirmware
    <3>2. urs' = "INCOMPLETE_APP_UPDATE" /\ GoesTo(p, "application") /\ at[p] = "begin"
      BY <1>8, <2>2 DEF Begin, Flush
    <3>3. QED
      BY <3>1, <3>2, IncompleteStates, StageKeepsOutcome
      DEF PastDispatch, Idle, Stages, InstallStages
  <2>3. QED
    BY <2>1, <2>2
<1>9. CASE BeginFails(p)
  <2>1. UNCHANGED <<urs, firmware, fallback>> /\ at[p] = "begin"
    BY <1>9 DEF BeginFails, FlushFails, envVars
  <2>2. GoesTo(p, "not_begun") \/ Over({p}, "none")
    BY <1>9 DEF BeginFails, Throws
  <2>3. QED
    BY <1>1, <2>1, <2>2, OverKeepsOutcome, StageKeepsOutcome DEF PastDispatch, Idle, Stages
<1>10. CASE FirmwareInstalled(p)
  <2>1. /\ HasFirmware(p) /\ urs' = "INCOMPLETE_FW_UPDATE" /\ at[p] = "firmware"
    BY <1>1, <1>10 DEF FirmwareInstalled, CallAccounted
  <2>2. \/ GoesTo(p, "fw_installed") /\ HasApplication(p)
        \/ GoesTo(p, "marker") /\ ~ HasApplication(p)
        \/ GoesTo(p, "fw_failed")
    BY <1>10 DEF FirmwareInstalled
  <2>3. HasApplication(p) => available[p] = Payloads
    BY <1>1, <2>1, AvailableSets DEF HasFirmware, HasApplication
  <2>4. ~ HasApplication(p) => available[p] = {"update.fw"}
    BY <1>1, <2>1, AvailableSets DEF HasFirmware, HasApplication
  <2>5. QED
    BY <2>1, <2>2, <2>3, <2>4, IncompleteStates, StageKeepsOutcome
    DEF PastDispatch, Idle, Stages, InstallStages
<1>11. CASE FirmwareFails(p)
  BY <1>1, <1>11, StageKeepsOutcome
  DEF PastDispatch, FirmwareFails, CallAccounted, Idle, Stages, InstallStages
<1>12. CASE FirmwareFailed(p)
  <2>1. CASE at[p] = "fw_failed"
    <3>1. Over({p}, "failed") /\ urs' \in {urs, "FAILED_FW_UPDATE"} /\ ~ Idle
      BY <1>1, <1>12, <2>1
      DEF FirmwareFailed, Flush, FlushFails, Fails, envVars, CallAccounted
    <3>2. QED
      BY <3>1, OverKeepsOutcome DEF Idle
  <2>2. CASE at[p] = "not_begun"
    <3>1. /\ Over({p}, "none") /\ urs' \in {urs, "FAILED_FW_UPDATE"}
          /\ UNCHANGED <<firmware, fallback>>
      BY <1>12, <2>2 DEF FirmwareFailed, Flush, FlushFails, Throws, envVars
    <3>2. QED
      BY <1>1, <3>1, OverKeepsOutcome DEF Idle
  <2>3. QED
    BY <1>12, <2>1, <2>2 DEF FirmwareFailed
<1>13. CASE BeginApplication(p)
  <2>1. at[p] = "fw_installed" /\ available[p] = Payloads /\ ~ Idle
    BY <1>1, <1>13 DEF BeginApplication, CallAccounted
  <2>2. \/ GoesTo(p, "application") /\ urs' = "INCOMPLETE_APP_FW_UPDATE"
        \/ GoesTo(p, "app_failed") /\ urs' = urs
    BY <1>13 DEF BeginApplication, Flush, FlushFails, envVars
  <2>3. QED
    BY <2>1, <2>2, IncompleteStates, AvailableSets, StageKeepsOutcome
    DEF PastDispatch, Idle, Stages, InstallStages, Payloads
<1>14. CASE Application(p)
  BY <1>1, <1>14, OutcomeKept
  DEF Application, storeVars, callVars, envVars, CallAccounted, PastDispatch, Idle,
      HasFirmware
<1>15. CASE ApplicationEnds(p)
  <2>1. /\ at[p] = "application" /\ urs' = urs
        /\ available[p] # {} /\ urs = Incomplete(available[p]) /\ ~ Idle
    BY <1>1, <1>15, IncompleteStates
    DEF ApplicationEnds, CallAccounted, envVars, Idle
  <2>2. GoesTo(p, "marker") \/ GoesTo(p, "app_failed")
    BY <1>15 DEF ApplicationEnds
  <2>3. QED
    BY <2>1, <2>2, StageKeepsOutcome DEF PastDispatch, Idle, Stages, InstallStages
<1>16. CASE ApplicationFailed(p)
  <2>1. Over({p}, "failed") /\ urs' \in {urs, "FAILED_APP_UPDATE"} /\ ~ Idle
    BY <1>1, <1>16
    DEF ApplicationFailed, Flush, FlushFails, Fails, envVars, CallAccounted
  <2>2. QED
    BY <2>1, OverKeepsOutcome DEF Idle
<1>17. CASE Marker(p)
  <2>1. UNCHANGED <<urs, firmware, fallback>> /\ ~ Idle
    BY <1>1, <1>17, IncompleteStates DEF Marker, envVars, CallAccounted, Idle
  <2>2. CASE Over({p}, "failed")
    BY <2>1, <2>2, OverKeepsOutcome DEF Idle
  <2>3. CASE /\ at' = [at EXCEPT ![p] = "idle"] /\ ret' = [ret EXCEPT ![p] = "installed"]
             /\ UNCHANGED storeVars
    BY <1>1, <1>17, <2>1, <2>3, OutcomeKept
    DEF Marker, storeVars, CallAccounted, PastDispatch, Idle
  <2>4. QED
    BY <1>17, <2>2, <2>3 DEF Marker, Fails
<1>18. CASE Decide(p)
  <2>1. at'[p] = "idle" /\ ret'[p] = "none" /\ (firmware = fallback)'
    BY <1>1, <1>18 DEF Decide, Over
  <2>2. QED
    BY <2>1, OutcomeKept DEF CallAccounted, PastDispatch
<1>19. CASE Dies(p)
  BY <1>1, <1>19, OverKeepsOutcome DEF Dies, Gone, envVars, Idle
<1>20. QED
  BY <1>2, <1>3, <1>4, <1>5, <1>6, <1>7, <1>8, <1>9, <1>10, <1>11, <1>12,
     <1>13, <1>14, <1>15, <1>16, <1>17, <1>18, <1>19
  DEF Step, Call

LEMMA OutcomeInvariant == Spec /\ TakeTurns => []OInv
<1>1. Init /\ TypeInv => OInv
  BY DEF Init, StoreInit, OInv, CallAccounted, NoAnswerWaits, PastDispatch, Idle
<1>2. OInv /\ TypeInv' /\ [TurnStep]_vars => OInv'
  <2> SUFFICES ASSUME OInv, TypeInv', [TurnStep]_vars PROVE OInv'
    OBVIOUS
  <2>1. CASE UNCHANGED vars
    BY <2>1
    DEF vars, storeVars, callVars, envVars, OInv, CallAccounted, NoAnswerWaits,
        PastDispatch, Idle, HasFirmware
  <2>2. CASE PowerFails
    BY <2>2, TypeFacts
    DEF PowerFails, Over, NewStore, Gone, envVars, OInv, CallAccounted, NoAnswerWaits,
        PastDispatch, Idle, HasFirmware
  <2>3. QED
    BY <2>1, <2>2, CallKeepsOutcome DEF TurnStep
<1>3. QED
  BY <1>1, <1>2, TypeInvariant, PTL DEF Spec, TakeTurns

(* The update state is never idle while an update runs and after one that  *)
(* has failed in any way, a call that returned has recorded its own kind   *)
(* of update, and an idle board runs on the confirmed firmware, whichever  *)
(* instances have installed and decided before.                            *)
THEOREM OutcomesRecorded == Spec /\ TakeTurns => []OutcomeRecorded
<1>1. OInv => OutcomeRecorded
  BY IncompleteStates
  DEF OInv, CallAccounted, OutcomeRecorded, InstallStages, Idle
<1>2. QED
  BY <1>1, OutcomeInvariant, PTL

-----------------------------------------------------------------------------
(* An installed application is stored, if the fsync of the directory works. *)

DirectorySynced == "dirsync" \notin InstallFaults

Stored == \A s \in Slots : disk[s] = files[s]

(* From the fsync of the directory on, up to the answer and after it. *)
StoredTells(p) ==
  /\ app[p] \in {"stored", "installed"} => Stored
  /\ (at[p] = "marker" \/ ret[p] = "installed") /\ HasApplication(p) => Stored

StoredAlways == \A p \in Procs : StoredTells(p)

SInv == IInv /\ OInv /\ StoredAlways

(* What the others have installed stays stored. *)
LEMMA OthersStored ==
  ASSUME SInv, NEW p \in Procs, Alone(p), Step(p), NEW q \in Procs, q # p
  PROVE  StoredTells(q)'
<1>1. OInv /\ StoredTells(q) /\ CopyTells(q)
  BY DEF SInv, IInv, StoredAlways
<1>2. at'[q] = "idle" /\ app'[q] = "none"
  BY <1>1, OthersAnswered DEF CopyTells
<1>3. CASE ret'[q] = "none"
  BY <1>2, <1>3 DEF StoredTells
<1>4. CASE ret'[q] = ret[q] /\ available'[q] = available[q] /\ UNCHANGED <<files, disk>>
  BY <1>1, <1>2, <1>4 DEF StoredTells, Stored, HasApplication
<1> QED
  BY <1>1, <1>3, <1>4, OthersAnswered

LEMMA StoredKept ==
  ASSUME SInv, NEW p \in Procs, Alone(p), Step(p), UNCHANGED <<files, disk>>,
         app'[p] \in {"none", "started", app[p]},
         at'[p] = "marker" =>
           /\ at[p] = "marker" \/ ~ HasApplication(p) \/ app[p] = "installed"
           /\ available'[p] = available[p],
         ret'[p] = "installed" =>
           /\ ret[p] = "installed" \/ at[p] = "marker"
           /\ available'[p] = available[p]
  PROVE  StoredAlways'
<1>1. StoredTells(p) /\ Stored' = Stored
  BY DEF SInv, StoredAlways, Stored
<1>2. StoredTells(p)'
  BY <1>1 DEF StoredTells, HasApplication
<1>3. QED
  BY <1>2, OthersStored DEF StoredAlways

LEMMA CallKeepsStored ==
  ASSUME SInv, DirectorySynced, NEW p \in Procs, Alone(p), Step(p)
  PROVE  StoredAlways'
<1>1. /\ CallAccounted(p) /\ CopyTells(p) /\ StoredTells(p)
      /\ AppTypeOK /\ SlotsStored /\ at \in [Procs -> Stages]
      /\ ret \in [Procs -> {"none", "installed", "failed"}]
  BY TypeFacts DEF SInv, StoredAlways, IInv, OInv
<1> USE <1>1 DEF AppTypeOK
<1>2. CASE Application(p)
  <2>1. at'[p] = "application" /\ ret'[p] = "none"
    BY <1>2 DEF Application, callVars, CallAccounted
  <2>2. ASSUME app'[p] \in {"stored", "installed"} PROVE Stored'
    <3>1. CASE SyncDirectory(p)
      BY <3>1
      DEF SyncDirectory, DirectorySynced, SlotsStored, Settled, Stored,
          Slots
    <3>2. CASE update_boot_variable(p)
      BY <3>2 DEF update_boot_variable, StoredTells, Stored
    <3>3. QED
      BY <1>2, <2>2, <3>1, <3>2
      DEF Application, InstallStep, Reaches, verify_application_bundle,
          OpenTemporary, WriteTemporary, SyncTemporary, CopyFails, Rename, RenameFails,
          SwitchNotFlushed
  <2>3. QED
    BY <2>1, <2>2, OthersStored DEF StoredAlways, StoredTells
<1>3. CASE update_image(p)
  BY <1>3, StoredKept DEF update_image, appVars, CallAccounted
<1>4. CASE update_image_typed(p)
  BY <1>4, StoredKept DEF update_image_typed, appVars, CallAccounted
<1>5. CASE Store(p)
  BY <1>5, StoredKept DEF Store, appVars, callVars, CallAccounted
<1>6. CASE StoreEnds(p)
  BY <1>6, StoredKept
  DEF StoreEnds, GoesTo, Throws, Over, appVars, CallAccounted
<1>7. CASE Refused(p)
  BY <1>7, StoredKept DEF Refused, Throws, Over, appVars, CallAccounted
<1>8. CASE decorator_update_state(p)
  BY <1>8, StoredKept
  DEF decorator_update_state, GoesTo, storeVars, appVars, CallAccounted
<1>9. CASE Begin(p)
  BY <1>9, StoredKept
  DEF Begin, Flush, GoesTo, Reaches, storeVars, CallAccounted
<1>10. CASE BeginFails(p)
  BY <1>10, StoredKept
  DEF BeginFails, FlushFails, GoesTo, Throws, Over, storeVars, CallAccounted
<1>11. CASE FirmwareInstalled(p)
  BY <1>11, StoredKept
  DEF FirmwareInstalled, GoesTo, storeVars, appVars, CallAccounted
<1>12. CASE FirmwareFails(p)
  BY <1>12, StoredKept
  DEF FirmwareFails, GoesTo, storeVars, appVars, CallAccounted
<1>13. CASE FirmwareFailed(p)
  BY <1>13, StoredKept
  DEF FirmwareFailed, Flush, FlushFails, Fails, Throws, Over, CallAccounted
<1>14. CASE BeginApplication(p)
  BY <1>14, StoredKept
  DEF BeginApplication, Flush, FlushFails, GoesTo, Reaches, storeVars,
      CallAccounted
<1>15. CASE ApplicationEnds(p)
  BY <1>15, StoredKept DEF ApplicationEnds, GoesTo, storeVars, CallAccounted
<1>16. CASE ApplicationFailed(p)
  BY <1>16, StoredKept
  DEF ApplicationFailed, Flush, FlushFails, Fails, Over, CallAccounted
<1>17. CASE Marker(p)
  BY <1>17, StoredKept
  DEF Marker, Fails, Over, storeVars, appVars, CallAccounted
<1>18. CASE Decide(p)
  BY <1>18, StoredKept DEF Decide, Over, NewStore, CallAccounted
<1>19. CASE Dies(p)
  BY <1>19, StoredKept DEF Dies, Over, Gone, CallAccounted
<1>20. QED
  BY <1>2, <1>3, <1>4, <1>5, <1>6, <1>7, <1>8, <1>9, <1>10, <1>11, <1>12,
     <1>13, <1>14, <1>15, <1>16, <1>17, <1>18, <1>19
  DEF Step, Call

LEMMA StoredInvariant == ASSUME DirectorySynced PROVE Spec /\ TakeTurns => []SInv
<1>1. Init => StoredAlways
  BY DEF Init, AppInit, StoredAlways, StoredTells
<1>2. SInv /\ [TurnStep]_vars => StoredAlways'
  <2> SUFFICES ASSUME SInv, [TurnStep]_vars PROVE StoredAlways'
    OBVIOUS
  <2>1. CASE UNCHANGED vars
    BY <2>1
    DEF vars, storeVars, appVars, callVars, SInv, StoredAlways, StoredTells,
        Stored, HasApplication
  <2>2. CASE PowerFails
    BY <2>2, SlotNames
    DEF PowerFails, PowerLoss, StoredAlways, StoredTells, Stored, Gone
  <2>3. QED
    BY <2>1, <2>2, DirectorySynced, CallKeepsStored DEF TurnStep
<1>3. SInv <=> IInv /\ OInv /\ StoredAlways
  BY DEF SInv
<1>4. QED
  BY <1>1, <1>2, <1>3, Invariant, OutcomeInvariant, PTL DEF Spec, TakeTurns

(* An application that update_image has reported as installed is the one   *)
(* the board has after a power failure, whatever the other instances do    *)
(* until the answer has been decided about.                                *)
THEOREM InstalledApplicationsSurvive ==
  ASSUME DirectorySynced PROVE Spec /\ TakeTurns => []InstalledSurvives
<1>1. SInv => InstalledSurvives
  BY TypeFacts
  DEF SInv, IInv, AppTypeOK, StoredAlways, StoredTells, Stored, InstalledSurvives
<1>2. QED
  BY <1>1, StoredInvariant, PTL

-----------------------------------------------------------------------------
(* What is reported as installed is what the image's manifest declares. *)

(* The call, or the image it brings, says what is to be installed.         *)
Typed(p) == type[p] # ""
Named(p) == Typed(p) \/ "fsupdate.json" \in DOMAIN image[p].packed

(* Exactly what is declared is available, with the contents declared.      *)
Verified(p) ==
  /\ available[p] = DOMAIN Declared(p)
  /\ \A f \in available[p] : Source(p, f) = Declared(p)[f]

(* A store goes by the manifest its own image packs, once it has extracted *)
(* it over the one that was there, and has checked what it offers.         *)
StoreTells(p) ==
  at[p] = "store" =>
    /\ ~ Typed(p)
    /\ store[p] \in {"unused", "extracting"} => available[p] = {}
    /\ store[p] = "extracting" =>
         \A f \in DOMAIN image[p].packed \ entries[p] : archive[f] = image[p].packed[f]
    /\ store[p] \in {"checking", "checked"} =>
         /\ root[p] \in DOMAIN Manifest
         /\ "fsupdate.json" \in DOMAIN image[p].packed =>
              root[p] = image[p].packed["fsupdate.json"]
         /\ available[p] \cup entries[p] = Listed(p)
         /\ \A f \in available[p] : Matches(p, f)
    /\ store[p] = "checked" => entries[p] = {}

(* How far the declared application has come. *)
ApplicationTells(p) ==
  LET bundle == Declared(p)["update.app"] IN
  /\ at[p] = "application" => HasApplication(p)
  /\ app[p] \in {"verified", "opened", "written", "synced", "renamed", "stored"} =>
       application = current[p]
  /\ app[p] \in {"written", "synced"} => files["tmp"] = bundle
  /\ app[p] \in {"renamed", "stored"} => files[Other(application)] = bundle
  /\ app[p] = "installed" => files[application] = bundle
  /\ (at[p] = "marker" \/ ret[p] = "installed") /\ HasApplication(p) =>
       files[application] = bundle

(* What a call has done so far of what is declared. *)
DeliveryTells(p) ==
  /\ at[p] \notin {"idle", "store"} => Verified(p)
  /\ ret[p] = "installed" => available[p] = DOMAIN Declared(p)
  /\ at[p] \in {"fw_installed", "application", "marker"} \/ ret[p] = "installed" =>
       (HasFirmware(p) => firmware = Declared(p)["update.fw"])
  /\ ApplicationTells(p)

CallDelivered(p) == StoreTells(p) /\ (Named(p) => DeliveryTells(p))

Delivered == \A p \in Procs : CallDelivered(p)

DInv == TypeInv /\ SInv /\ Delivered

(* The declaration and the sources of a call depend on its locals and on   *)
(* the archive only.                                                       *)
LEMMA DeclaredKept ==
  ASSUME NEW p \in Procs, type'[p] = type[p], image'[p] = image[p]
  PROVE  /\ Typed(p)' = Typed(p) /\ Named(p)' = Named(p)
         /\ Named(p) => Declared(p)' = Declared(p)
         /\ archive' = archive => \A f : Source(p, f)' = Source(p, f)
BY DEF Typed, Named, Declared, Source

(* A call that is over, or has not begun, declares nothing. *)
LEMMA NothingNamed ==
  ASSUME NEW p \in Procs
  PROVE  type[p] = "" /\ image[p] = NoImage => ~ Named(p)
<1>1. NoImage.packed = [f \in {} |-> "absent"]
  BY DEF NoImage
<1>2. DOMAIN NoImage.packed = {}
  BY <1>1
<1> QED
  BY <1>2 DEF Named, Typed

LEMMA OverDelivers ==
  ASSUME NEW P, NEW p \in Procs, p \in P, NEW answer, Over(P, answer)
  PROVE  CallDelivered(p)'
<1>1. at'[p] = "idle" /\ type'[p] = "" /\ image'[p] = NoImage
  BY DEF Over
<1>2. (type[p] = "" /\ image[p] = NoImage => ~ Named(p))'
  BY NothingNamed, PTL
<1> QED
  BY <1>1, <1>2 DEF CallDelivered, StoreTells

(* While a call is with its store, only the store counts. *)
LEMMA StoreDelivers ==
  ASSUME NEW p \in Procs, at'[p] = "store", ret'[p] = "none", app'[p] = "none",
         StoreTells(p)'
  PROVE  CallDelivered(p)'
BY DEF CallDelivered, DeliveryTells, ApplicationTells

(* The next stage of a call, with what that stage has to account for.      *)
LEMMA StageDelivers ==
  ASSUME DInv, NEW p \in Procs, NEW stage \in Stages \ {"idle", "store"},
         at[p] # "idle", GoesTo(p, stage), app'[p] \in {"none", "started"},
         Named(p) => Verified(p),
         stage = "application" => HasApplication(p),
         Named(p) /\ HasFirmware(p) /\ stage \in {"fw_installed", "application", "marker"} =>
           firmware' = Declared(p)["update.fw"],
         Named(p) /\ HasApplication(p) /\ stage = "marker" =>
           files'[application'] = Declared(p)["update.app"]
  PROVE  CallDelivered(p)'
<1>1. at \in [Procs -> Stages] /\ ret[p] = "none"
  BY TypeFacts DEF DInv, SInv, OInv, CallAccounted
<1>2. /\ at'[p] = stage /\ ret'[p] = "none" /\ available' = available
      /\ UNCHANGED <<type, image, archive>>
  BY <1>1 DEF GoesTo, storeVars
<1>3. StoreTells(p)'
  BY <1>2 DEF StoreTells
<1>4. ASSUME Named(p)' PROVE DeliveryTells(p)'
  <2>1. /\ Named(p) /\ Declared(p)' = Declared(p)
        /\ \A f : Source(p, f)' = Source(p, f)
    BY <1>2, <1>4, DeclaredKept
  <2>2. Verified(p)'
    BY <1>2, <2>1 DEF Verified
  <2>3. /\ HasFirmware(p)' = HasFirmware(p) /\ HasApplication(p)' = HasApplication(p)
    BY <1>2 DEF HasFirmware, HasApplication
  <2>4. ApplicationTells(p)'
    BY <1>2, <2>1, <2>3 DEF ApplicationTells
  <2> QED
    BY <1>2, <2>1, <2>2, <2>3, <2>4 DEF DeliveryTells
<1> QED
  BY <1>3, <1>4 DEF CallDelivered

(* What the invariant says of a call that is past its store. *)
LEMMA PastStore ==
  ASSUME DInv, NEW p \in Procs, at[p] \notin {"idle", "store"}
  PROVE  /\ ret[p] = "none"
         /\ Named(p) => DeliveryTells(p) /\ Verified(p)
         /\ at[p] # "application" => app[p] = "none"
BY DEF DInv, SInv, IInv, CopyTells, OInv, CallAccounted, Delivered,
       CallDelivered, DeliveryTells

(* A store keeps to the manifest of its own image: alone on the archive,   *)
(* what it extracts is still there when it reads and checks it.            *)
LEMMA StoreKeepsDelivered ==
  ASSUME DInv, NEW p \in Procs, Store(p)
  PROVE  CallDelivered(p)'
<1>1. /\ at[p] = "store" /\ ~ Typed(p) /\ StoreTells(p)
      /\ StoreStep(p, image[p].header, image[p].packed)
      /\ UNCHANGED <<at, type, image, ret, app>>
  BY DEF Store, DInv, Delivered, CallDelivered, StoreTells, callVars, appVars
<1>2. ret[p] = "none" /\ app[p] = "none" /\ ~ Typed(p)'
  BY <1>1 DEF DInv, SInv, OInv, CallAccounted, IInv, CopyTells, Typed
<1>3. StoreTypeOK /\ ImageOK(image[p])
  BY TypeParts DEF DInv, ImagesOK
<1> DEFINE packed == image[p].packed
<1>4. packed' = packed /\ DOMAIN packed \subseteq Entries /\ "fsupdate.json" \in Entries
  BY <1>1, <1>3 DEF ImageOK, Entries
<1> DEFINE Extracted == \A f \in DOMAIN packed \ entries[p] : archive[f] = packed[f]
           Read == /\ root[p] \in DOMAIN Manifest
                   /\ "fsupdate.json" \in DOMAIN packed => root[p] = packed["fsupdate.json"]
           Compared == /\ available[p] \cup entries[p] = Listed(p)
                       /\ \A f \in available[p] : Matches(p, f)
<1>5. /\ store[p] \in {"unused", "extracting"} => available[p] = {}
      /\ store[p] = "extracting" => Extracted
      /\ store[p] \in {"checking", "checked"} => Read /\ Compared
      /\ store[p] = "checked" => entries[p] = {}
  BY <1>1 DEF StoreTells
<1>6. ASSUME /\ store'[p] \in {"unused", "extracting"} => available'[p] = {}
             /\ store'[p] = "extracting" => Extracted'
             /\ store'[p] \in {"checking", "checked"} => Read' /\ Compared'
             /\ store'[p] = "checked" => entries'[p] = {}
      PROVE  CallDelivered(p)'
  <2>1. StoreTells(p)'
    BY <1>1, <1>2, <1>4, <1>6 DEF StoreTells
  <2> QED
    BY <1>1, <1>2, <2>1, StoreDelivers
<1>7. ASSUME store'[p] \in {"failed", "crashed"} PROVE CallDelivered(p)'
  BY <1>6, <1>7
<1> USE <1>3 DEF StoreTypeOK
<1>8. CASE ExtractUpdateStore(p, image[p].header, packed)
  BY <1>4, <1>5, <1>6, <1>8 DEF ExtractUpdateStore
<1>9. CASE ExtractEntry(p, packed)
  BY <1>4, <1>5, <1>6, <1>9 DEF ExtractEntry
<1>10. CASE ReadUpdateConfiguration(p)
  <2>1. store'[p] = "checking" /\ UNCHANGED <<archive, available>> /\ available[p] = {}
    BY <1>5, <1>10 DEF ReadUpdateConfiguration
  <2>2. /\ root'[p] = archive["fsupdate.json"] /\ root'[p] \in DOMAIN Manifest
        /\ entries'[p] = DOMAIN Manifest[root'[p]]
    BY <1>10 DEF ReadUpdateConfiguration
  <2>3. "fsupdate.json" \in DOMAIN packed => root'[p] = packed["fsupdate.json"]
    BY <1>5, <1>10, <2>2 DEF ReadUpdateConfiguration
  <2> QED
    BY <1>4, <1>6, <2>1, <2>2, <2>3 DEF Listed
<1>11. CASE CheckEntry(p)
  <2>1. PICK f \in Entries : /\ store[p] = "checking" /\ f \in entries[p]
                             /\ Matches(p, f) /\ Checks(p, f)
    BY <1>11 DEF CheckEntry, ToCheck
  <2>2. /\ UNCHANGED <<archive, store, root>>
        /\ entries'[p] = entries[p] \ {f} /\ available'[p] = available[p] \cup {f}
    BY <2>1 DEF Checks
  <2>3. /\ Listed(p)' = Listed(p) /\ \A g : Matches(p, g)' = Matches(p, g)
    BY <2>2 DEF Listed, Matches
  <2>4. Compared'
    BY <1>5, <2>1, <2>2, <2>3
  <2> QED
    BY <1>4, <1>5, <1>6, <2>1, <2>2, <2>4
<1>12. CASE Checked(p)
  BY <1>4, <1>5, <1>6, <1>12 DEF Checked, Listed, Matches
<1>13. CASE \/ ImageRejected(p, image[p].header, packed) \/ ExtractFails(p)
            \/ NoUpdateConfiguration(p) \/ NodesMissing(p) \/ CheckThrows(p) \/ CheckRejects(p)
  BY <1>7, <1>13
     DEF ImageRejected, ExtractFails, NoUpdateConfiguration, NodesMissing, CheckThrows,
         CheckRejects, StoreFails
<1> QED
  BY <1>1, <1>8, <1>9, <1>10, <1>11, <1>12, <1>13 DEF StoreStep

(* The bundle that is copied is the declared one, and it is copied to the  *)
(* slot that is switched to.                                               *)
LEMMA InstallStepDelivers ==
  ASSUME DInv, NEW p \in Procs, Application(p)
  PROVE  CallDelivered(p)'
<1>1. /\ at[p] = "application" /\ InstallStep(p, Source(p, "update.app"))
      /\ UNCHANGED <<at, type, image, ret, archive, available, firmware>>
  BY DEF Application, storeVars, callVars, envVars
<1>2. StoreTells(p)' /\ ret[p] = "none" /\ AppTypeOK
  BY <1>1, PastStore, TypeFacts DEF StoreTells, DInv
<1>3. ASSUME Named(p) PROVE DeliveryTells(p)'
  <2> DEFINE bundle == Declared(p)["update.app"]
  <2>1. /\ DeliveryTells(p) /\ Verified(p) /\ HasApplication(p)
        /\ Source(p, "update.app") = bundle
    BY <1>1, <1>3, PastStore DEF DeliveryTells, ApplicationTells, Verified, HasApplication
  <2>2. /\ Declared(p)' = Declared(p) /\ \A f : Source(p, f)' = Source(p, f)
    BY <1>1, <1>3, DeclaredKept
  <2>3. /\ Verified(p)' /\ HasFirmware(p)' = HasFirmware(p)
        /\ HasApplication(p)' = HasApplication(p)
    BY <1>1, <2>1, <2>2 DEF Verified, HasFirmware, HasApplication
  <2> DEFINE Tells ==
               /\ app[p] \in {"verified", "opened", "written", "synced", "renamed", "stored"} =>
                    application = current[p]
               /\ app[p] \in {"written", "synced"} => files["tmp"] = bundle
               /\ app[p] \in {"renamed", "stored"} => files[Other(application)] = bundle
               /\ app[p] = "installed" => files[application] = bundle
  <2>4. Tells
    BY <2>1 DEF DeliveryTells, ApplicationTells
  <2>5. Tells'
    <3> HIDE DEF bundle
    <3>1. bundle' = bundle
      BY <2>2 DEF bundle
    <3> USE <1>2, <2>4, <3>1, SlotNames, OtherSlot DEF AppTypeOK, Reaches
    <3>2. CASE verify_application_bundle(p, bundle)
      BY <3>2 DEF verify_application_bundle
    <3>3. CASE OpenTemporary(p, bundle)
      BY <3>3 DEF OpenTemporary
    <3>4. CASE WriteTemporary(p, bundle)
      BY <3>4 DEF WriteTemporary
    <3>5. CASE SyncTemporary(p)
      BY <3>5 DEF SyncTemporary
    <3>6. CASE CopyFails(p, bundle)
      BY <3>6 DEF CopyFails
    <3>7. CASE Rename(p)
      BY <3>7 DEF Rename
    <3>8. CASE RenameFails(p)
      BY <3>8 DEF RenameFails
    <3>9. CASE SyncDirectory(p)
      BY <3>9 DEF SyncDirectory
    <3>10. CASE update_boot_variable(p)
      BY <3>10 DEF update_boot_variable
    <3>11. CASE SwitchNotFlushed(p)
      BY <3>11 DEF SwitchNotFlushed
    <3> QED
      BY <1>1, <2>1, <3>2, <3>3, <3>4, <3>5, <3>6, <3>7, <3>8, <3>9, <3>10, <3>11
         DEF InstallStep
  <2>6. ApplicationTells(p)'
    BY <1>1, <1>2, <2>1, <2>3, <2>5 DEF ApplicationTells
  <2> QED
    BY <1>1, <2>1, <2>2, <2>3, <2>6 DEF DeliveryTells
<1>4. Named(p)' = Named(p)
  BY <1>1, DeclaredKept
<1> QED
  BY <1>2, <1>3, <1>4 DEF CallDelivered

(* The steps of a call. *)
LEMMA CallDelivers ==
  ASSUME DInv, NEW p \in Procs, Step(p)
  PROVE  CallDelivered(p)'
<1>1. /\ at \in [Procs -> Stages] /\ app \in [Procs -> AppStages]
      /\ StoreTypeOK /\ CallTypeOK /\ ImagesOK
  BY TypeParts DEF DInv, AppTypeOK, CallTypeOK
<1>2. at[p] # "application" => app[p] = "none"
  BY DEF DInv, SInv, IInv, CopyTells
<1>3. at[p] \notin {"idle", "store"} =>
        /\ ret[p] = "none" /\ (Named(p) => DeliveryTells(p) /\ Verified(p))
  BY PastStore
<1>4. {"dispatch", "begin", "not_begun", "marker", "firmware", "fw_failed", "fw_installed",
       "application", "app_failed"} \subseteq Stages \ {"idle", "store"}
  BY DEF Stages, InstallStages
<1>5. CASE update_image(p)
  <2>1. /\ at'[p] = "store" /\ ret'[p] = "none" /\ ~ Typed(p)' /\ app'[p] = "none"
        /\ store'[p] = "unused" /\ available'[p] = {}
    BY <1>1, <1>2, <1>5
       DEF update_image, NewStore, appVars, CallTypeOK, StoreTypeOK, Typed
  <2>2. StoreTells(p)'
    BY <2>1 DEF StoreTells
  <2> QED
    BY <2>1, <2>2, StoreDelivers
<1>6. CASE update_image_typed(p)
  <2> DEFINE Avail(t) == CASE t = "fw" -> {"update.fw"} [] t = "app" -> {"update.app"}
                           [] OTHER -> {}
  <2>1. PICK t \in Types \ {""} :
          /\ type' = [type EXCEPT ![p] = t]
          /\ NewStore({p}, Avail(t))
          /\ \E c \in Paths :
               image' = [image EXCEPT ![p] =
                           [header |-> FALSE, packed |-> [f \in Avail(t) |-> c]]]
    BY <1>6 DEF update_image_typed
  <2> HIDE DEF Avail
  <2>2. PICK c \in Paths :
          image' = [image EXCEPT ![p] = [header |-> FALSE, packed |-> [f \in Avail(t) |-> c]]]
    BY <2>1
  <2> DEFINE given == [f \in Avail(t) |-> c]
  <2>3. /\ type'[p] = t /\ t # "" /\ image'[p].packed = given /\ available'[p] = Avail(t)
    BY <1>1, <2>1, <2>2 DEF CallTypeOK, ImagesOK, NewStore
  <2>4. at'[p] = "dispatch" /\ ret'[p] = "none" /\ app'[p] = "none"
    BY <1>1, <1>2, <1>6 DEF update_image_typed, appVars, CallTypeOK
  <2>5. Declared(p)' = given /\ \A f \in Avail(t) : Source(p, f)' = given[f]
    BY <2>3 DEF Declared, Source
  <2>6. Verified(p)'
    BY <2>3, <2>5 DEF Verified
  <2> QED
    BY <2>4, <2>6 DEF CallDelivered, StoreTells, DeliveryTells, ApplicationTells
<1>7. CASE Store(p)
  BY <1>7, StoreKeepsDelivered
<1>8. CASE StoreEnds(p)
  <2>1. CASE store[p] = "checked" /\ GoesTo(p, "dispatch")
    <3>1. at[p] = "store" /\ StoreTells(p)
      BY <1>8 DEF StoreEnds, DInv, Delivered, CallDelivered
    <3>2. Named(p) => Verified(p)
      BY <2>1, <3>1
         DEF StoreTells, Typed, Named, Verified, Declared, Source, Listed, Matches
    <3>3. app'[p] = "none"
      BY <1>2, <1>8, <3>1 DEF StoreEnds, appVars
    <3> QED
      BY <1>4, <2>1, <3>1, <3>2, <3>3, StageDelivers
  <2>2. CASE Throws(p)
    BY <2>2, OverDelivers DEF Throws
  <2> QED
    BY <1>8, <2>1, <2>2 DEF StoreEnds
<1>9. CASE Refused(p)
  BY <1>9, OverDelivers DEF Refused, Throws
<1>10. CASE decorator_update_state(p)
  BY <1>2, <1>3, <1>4, <1>10, StageDelivers DEF decorator_update_state, appVars
<1>11. CASE Begin(p)
  <2>1. at[p] = "begin" /\ available[p] # {} /\ available[p] \in SUBSET Payloads
    BY <1>1, <1>11 DEF Begin, DInv, SInv, OInv, CallAccounted, StoreTypeOK
  <2>2. CASE HasFirmware(p)
    BY <1>1, <1>2, <1>3, <1>4, <1>11, <2>1, <2>2, StageDelivers DEF Begin
  <2>3. CASE ~ HasFirmware(p)
    <3>1. HasApplication(p)
      BY <2>1, <2>3, AvailableSets DEF HasFirmware, HasApplication
    <3>2. GoesTo(p, "application") /\ app'[p] = "started"
      BY <1>1, <1>11, <2>3 DEF Begin, Reaches
    <3> QED
      BY <1>3, <1>4, <2>1, <2>3, <3>1, <3>2, StageDelivers
  <2> QED
    BY <2>2, <2>3
<1>12. CASE BeginFails(p)
  <2>1. at[p] = "begin" /\ app' = app
    BY <1>12 DEF BeginFails, FlushFails
  <2>2. GoesTo(p, "not_begun") \/ Over({p}, "none")
    BY <1>12 DEF BeginFails, Throws
  <2> QED
    BY <1>2, <1>3, <1>4, <2>1, <2>2, OverDelivers, StageDelivers
<1>13. CASE FirmwareInstalled(p)
  <2>1. /\ at[p] = "firmware" /\ app' = app /\ firmware' = Source(p, "update.fw")
        /\ HasFirmware(p)
    BY <1>13 DEF FirmwareInstalled, appVars, DInv, SInv, OInv, CallAccounted
  <2>2. Named(p) => firmware' = Declared(p)["update.fw"]
    BY <1>3, <2>1 DEF Verified, HasFirmware
  <2>3. \/ GoesTo(p, "fw_installed")
        \/ GoesTo(p, "marker") /\ ~ HasApplication(p)
        \/ GoesTo(p, "fw_failed")
    BY <1>13 DEF FirmwareInstalled
  <2> QED
    BY <1>2, <1>3, <1>4, <2>1, <2>2, <2>3, StageDelivers
<1>14. CASE FirmwareFails(p)
  BY <1>2, <1>3, <1>4, <1>14, StageDelivers DEF FirmwareFails, appVars
<1>15. CASE FirmwareFailed(p)
  BY <1>15, OverDelivers DEF FirmwareFailed, Fails, Throws
<1>16. CASE BeginApplication(p)
  <2>1. /\ at[p] = "fw_installed" /\ HasApplication(p) /\ firmware' = firmware
    BY <1>16
       DEF BeginApplication, FlushFails, envVars, DInv, SInv, OInv, CallAccounted,
           HasApplication, Payloads
  <2>2. \/ GoesTo(p, "application") /\ app'[p] = "started"
        \/ GoesTo(p, "app_failed") /\ app'[p] = "none"
    BY <1>1, <1>2, <1>16, <2>1 DEF BeginApplication, FlushFails, Reaches
  <2>3. Named(p) /\ HasFirmware(p) => firmware = Declared(p)["update.fw"]
    BY <1>3, <2>1 DEF DeliveryTells
  <2> QED
    BY <1>3, <1>4, <2>1, <2>2, <2>3, StageDelivers
<1>17. CASE Application(p)
  BY <1>17, InstallStepDelivers
<1>18. CASE ApplicationEnds(p)
  <2>1. /\ at[p] = "application" /\ app'[p] = "none"
        /\ UNCHANGED <<files, application, firmware>>
    BY <1>1, <1>18 DEF ApplicationEnds, envVars
  <2>2. (app[p] = "installed" /\ GoesTo(p, "marker")) \/ GoesTo(p, "app_failed")
    BY <1>18 DEF ApplicationEnds
  <2>3. Named(p) =>
          /\ HasFirmware(p) => firmware = Declared(p)["update.fw"]
          /\ app[p] = "installed" => files[application] = Declared(p)["update.app"]
    BY <1>3, <2>1 DEF DeliveryTells, ApplicationTells
  <2> QED
    BY <1>3, <1>4, <2>1, <2>2, <2>3, StageDelivers
<1>19. CASE ApplicationFailed(p)
  BY <1>19, OverDelivers DEF ApplicationFailed, Fails
<1>20. CASE Marker(p)
  <2>1. CASE Fails(p)
    BY <2>1, OverDelivers DEF Fails
  <2>2. CASE /\ at' = [at EXCEPT ![p] = "idle"] /\ ret' = [ret EXCEPT ![p] = "installed"]
             /\ UNCHANGED <<storeVars, type, image>>
    <3>1. /\ at[p] = "marker" /\ at'[p] = "idle" /\ app'[p] = "none"
          /\ UNCHANGED <<files, application, firmware, type, image, available>>
      BY <1>1, <1>2, <1>20, <2>2 DEF Marker, storeVars, appVars, envVars
    <3>2. ASSUME Named(p) PROVE DeliveryTells(p)'
      <4>1. DeliveryTells(p) /\ Verified(p) /\ Declared(p)' = Declared(p)
        BY <1>3, <3>1, <3>2, DeclaredKept
      <4> QED
        BY <3>1, <4>1
           DEF DeliveryTells, ApplicationTells, Verified, HasFirmware, HasApplication
    <3> QED
      BY <3>1, <3>2, DeclaredKept DEF CallDelivered, StoreTells
  <2> QED
    BY <1>20, <2>1, <2>2 DEF Marker
<1>21. CASE Decide(p)
  BY <1>21, OverDelivers DEF Decide
<1>22. CASE Dies(p)
  BY <1>22, OverDelivers DEF Dies
<1> QED
  BY <1>5, <1>6, <1>7, <1>8, <1>9, <1>10, <1>11, <1>12, <1>13, <1>14, <1>15, <1>16, <1>17,
     <1>18, <1>19, <1>20, <1>21, <1>22
     DEF Step, Call

(* A power failure ends the call that runs; what a call has answered before *)
(* it is stored.                                                           *)
LEMMA PowerFailureDelivers ==
  ASSUME DInv, PowerFails, NEW p \in Procs
  PROVE  CallDelivered(p)'
<1>1. AppTypeOK /\ SlotsStored /\ StoredTells(p) /\ CallDelivered(p)
  BY TypeFacts DEF DInv, SInv, IInv, StoredAlways, Delivered
<1>2. CASE at[p] # "idle"
  BY <1>2, OverDelivers DEF PowerFails
<1>3. CASE at[p] = "idle"
  <2>1. /\ at'[p] = "idle" /\ ret'[p] = ret[p] /\ type'[p] = type[p]
        /\ image'[p] = image[p] /\ available'[p] = available[p]
        /\ app'[p] = "none" /\ UNCHANGED <<application, firmware>>
    BY <1>3 DEF PowerFails, Over, NewStore, Gone, envVars
  <2>2. ret[p] = "installed" /\ HasApplication(p) =>
          files'[application] = files[application]
    BY <1>1, SlotNames
       DEF StoredTells, Stored, SlotsStored, PowerFails, PowerLoss, Settled, AppTypeOK
  <2>3. ASSUME Named(p)' PROVE DeliveryTells(p)'
    <3>1. Named(p) /\ Declared(p)' = Declared(p) /\ DeliveryTells(p)
      BY <1>1, <2>1, <2>3 DEF Typed, Named, Declared, CallDelivered
    <3> QED
      BY <2>1, <2>2, <3>1
         DEF DeliveryTells, ApplicationTells, HasFirmware, HasApplication
  <2> QED
    BY <2>1, <2>3 DEF CallDelivered, StoreTells
<1> QED
  BY <1>2, <1>3

(* What another instance has reported is as it was declared, or the client *)
(* has decided about it.                                                   *)
LEMMA OthersDelivered ==
  ASSUME DInv, NEW p \in Procs, Alone(p), Step(p), NEW q \in Procs, q # p
  PROVE  CallDelivered(q)'
<1>1. OInv /\ CallDelivered(q) /\ CopyTells(q)
  BY DEF DInv, SInv, IInv, Delivered
<1>2. at'[q] = "idle" /\ app'[q] = "none" /\ StoreTells(q)'
  BY <1>1, OthersAnswered DEF CopyTells, StoreTells
<1>3. CASE ret'[q] = "none"
  BY <1>2, <1>3 DEF CallDelivered, DeliveryTells, ApplicationTells
<1>4. CASE /\ ret'[q] = ret[q] /\ type'[q] = type[q] /\ image'[q] = image[q]
           /\ available'[q] = available[q] /\ UNCHANGED <<files, application, firmware>>
  <2>1. ASSUME Named(q) PROVE DeliveryTells(q)'
    <3>1. DeliveryTells(q) /\ Declared(q)' = Declared(q)
      BY <1>1, <1>4, <2>1, DeclaredKept DEF CallDelivered
    <3> QED
      BY <1>2, <1>4, <3>1
         DEF DeliveryTells, ApplicationTells, HasFirmware, HasApplication
  <2> QED
    BY <1>2, <1>4, <2>1, DeclaredKept DEF CallDelivered
<1> QED
  BY <1>1, <1>3, <1>4, OthersAnswered

LEMMA DeliveredInvariant == ASSUME DirectorySynced PROVE Spec /\ TakeTurns => []DInv
<1>1. Init => Delivered
  BY NothingNamed DEF Init, Delivered, CallDelivered, StoreTells
<1>2. DInv /\ [TurnStep]_vars => Delivered'
  <2> SUFFICES ASSUME DInv, [TurnStep]_vars PROVE Delivered'
    OBVIOUS
  <2>1. CASE UNCHANGED vars
    <3> SUFFICES ASSUME NEW p \in Procs PROVE CallDelivered(p)'
      BY DEF Delivered
    <3>1. UNCHANGED <<storeVars, appVars, callVars, firmware>>
      BY <2>1 DEF vars, envVars
    <3>2. /\ Typed(p)' = Typed(p) /\ Named(p)' = Named(p)
          /\ Named(p) => Declared(p)' = Declared(p)
          /\ \A f : Source(p, f)' = Source(p, f)
      BY <3>1, DeclaredKept DEF storeVars, callVars
    <3>3. StoreTells(p) /\ (Named(p) => DeliveryTells(p))
      BY DEF DInv, Delivered, CallDelivered
    <3> QED
      BY <3>1, <3>2, <3>3
         DEF storeVars, appVars, callVars, CallDelivered, StoreTells, DeliveryTells,
             ApplicationTells, Verified, Listed, Matches, HasFirmware, HasApplication
  <2>2. CASE PowerFails
    BY <2>2, PowerFailureDelivers DEF Delivered
  <2>3. ASSUME NEW p \in Procs, Alone(p), Step(p) PROVE Delivered'
    BY <2>3, CallDelivers, OthersDelivered DEF Delivered
  <2> QED
    BY <2>1, <2>2, <2>3 DEF TurnStep
<1>3. DInv <=> TypeInv /\ SInv /\ Delivered
  BY DEF DInv
<1> QED
  BY <1>1, <1>2, <1>3, TypeInvariant, StoredInvariant, PTL DEF Spec, TakeTurns

(* What update_image reports as installed is what the manifest of the      *)
(* image declares, or the payload the caller has given, whatever earlier   *)
(* calls, failures and power losses have left in the archive directory,    *)
(* calls of other instances included.                                      *)
THEOREM InstalledIsDeclared ==
  ASSUME DirectorySynced PROVE Spec /\ TakeTurns => []InstalledAsDeclared
<1>1. ASSUME DInv, NEW p \in Procs, ret[p] = "installed"
      PROVE  /\ available[p] = DOMAIN Declared(p)
             /\ HasFirmware(p) => firmware = Declared(p)["update.fw"]
             /\ HasApplication(p) => files[application] = Declared(p)["update.app"]
  <2>1. CASE Named(p)
    BY <1>1, <2>1 DEF DInv, Delivered, CallDelivered, DeliveryTells, ApplicationTells
  <2>2. CASE ~ Named(p)
    BY <1>1, <2>2 DEF Typed, Named, Declared, HasFirmware, HasApplication
  <2> QED
    BY <2>1, <2>2
<1>2. DInv => InstalledAsDeclared
  BY <1>1 DEF InstalledAsDeclared
<1> QED
  BY <1>2, DeliveredInvariant, PTL
=============================================================================
