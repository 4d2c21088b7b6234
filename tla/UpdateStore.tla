----------------------------- MODULE UpdateStore -----------------------------
(***************************************************************************)
(* UpdateStore (UpdateStore.cpp): extraction of an update image into the   *)
(* archive directory, the manifest fsupdate.json, the checksums of the     *)
(* payloads it lists and what is left in the directory when one of them is *)
(* wrong.  Every instance has a store of its own, the directory is shared. *)
(***************************************************************************)
EXTENDS UpdateFiles

CONSTANTS
  Manifest,      \* what a parsable fsupdate.json lists: files and their sums
  StoreFaults    \* what goes wrong: "extract", "remove"

Payloads == {"update.fw", "update.app"}
Entries == Payloads \cup {"fsupdate.json", "other"}

ASSUME StoreAssumption ==
  /\ DOMAIN Manifest \subseteq Contents
  /\ \A j \in DOMAIN Manifest :
       /\ DOMAIN Manifest[j] \subseteq Entries
       /\ \A f \in DOMAIN Manifest[j] : Manifest[j][f] \in Contents
  /\ StoreFaults \subseteq {"extract", "remove"}

VARIABLES
  archive,      \* the archive directory
  store,        \* how far the store of each instance has come
  entries,      \* entries it has still to extract or to check
  root,         \* the manifest it has parsed
  available     \* IsFirmwareAvailable, IsApplicationAvailable

storeVars == <<archive, store, entries, root, available>>

StoreStages ==
  {"unused", "extracting", "checking", "checked", "failed", "crashed"}

StoreTypeOK ==
  /\ archive \in [Entries -> File]
  /\ store \in [Procs -> StoreStages]
  /\ entries \in [Procs -> SUBSET Entries]
  /\ root \in [Procs -> File]
  /\ available \in [Procs -> SUBSET Payloads]

EmptyArchive == [f \in Entries |-> "absent"]

StoreInit ==
  /\ archive = EmptyArchive
  /\ store = [p \in Procs |-> "unused"]
  /\ entries = [p \in Procs |-> {}]
  /\ root = [p \in Procs |-> "absent"]
  /\ available = [p \in Procs |-> {}]

(* A store is an object on the stack of update_image.  avail is what       *)
(* IsFirmwareAvailable and IsApplicationAvailable say from now on.         *)
NewStore(P, avail) ==
  /\ store' = [p \in Procs |-> IF p \in P THEN "unused" ELSE store[p]]
  /\ entries' = [p \in Procs |-> IF p \in P THEN {} ELSE entries[p]]
  /\ root' = [p \in Procs |-> IF p \in P THEN "absent" ELSE root[p]]
  /\ available' = [p \in Procs |-> IF p \in P THEN avail ELSE available[p]]

StoreFails(p) ==
  /\ store' = [store EXCEPT ![p] = "failed"]
  /\ UNCHANGED <<entries, root, available>>

-----------------------------------------------------------------------------
(* ExtractUpdateStore, for an image whose header is valid and whose        *)
(* archive packs the given files.                                          *)

ExtractUpdateStore(p, header, packed) ==
  /\ store[p] = "unused"
  /\ header /\ DOMAIN packed # {}
  /\ store' = [store EXCEPT ![p] = "extracting"]
  /\ entries' = [entries EXCEPT ![p] = DOMAIN packed]
  /\ UNCHANGED <<archive, root, available>>

(* Too short, of the wrong type or size, or without files.                 *)
ImageRejected(p, header, packed) ==
  /\ store[p] = "unused"
  /\ ~ header \/ DOMAIN packed = {}
  /\ StoreFails(p) /\ UNCHANGED archive

ExtractEntry(p, packed) ==
  /\ store[p] = "extracting"
  /\ \E f \in entries[p] :
       /\ archive' = [archive EXCEPT ![f] = packed[f]]
       /\ entries' = [entries EXCEPT ![p] = @ \ {f}]
  /\ UNCHANGED <<store, root, available>>

(* Before the entry is opened, or in the middle of it.                     *)
ExtractFails(p) ==
  /\ store[p] = "extracting" /\ "extract" \in StoreFaults
  /\ \E f \in entries[p] :
       archive' \in {archive, [archive EXCEPT ![f] = "partial"]}
  /\ StoreFails(p)

-----------------------------------------------------------------------------
(* ReadUpdateConfiguration reads the manifest that lies in the directory,  *)
(* whichever image it came from.                                           *)

ReadUpdateConfiguration(p) ==
  /\ store[p] = "extracting" /\ entries[p] = {}
  /\ archive["fsupdate.json"] \in DOMAIN Manifest
  /\ root' = [root EXCEPT ![p] = archive["fsupdate.json"]]
  /\ store' = [store EXCEPT ![p] = "checking"]
  /\ entries' = [entries EXCEPT ![p] = DOMAIN Manifest[archive["fsupdate.json"]]]
  /\ UNCHANGED <<archive, available>>

NoUpdateConfiguration(p) ==
  /\ store[p] = "extracting" /\ entries[p] = {}
  /\ archive["fsupdate.json"] \notin DOMAIN Manifest
  /\ StoreFails(p) /\ UNCHANGED archive

-----------------------------------------------------------------------------
(* CheckUpdateSha256Sum *)

Listed(p) == DOMAIN Manifest[root[p]]
Matches(p, f) == archive[f] = Manifest[root[p]][f]

(* A manifest without the nodes it needs is logged through a logger that   *)
(* nobody has set.                                                         *)
NodesMissing(p) ==
  /\ store[p] = "checking" /\ Listed(p) = {}
  /\ store' = [store EXCEPT ![p] = "crashed"]
  /\ UNCHANGED <<archive, entries, root, available>>

ToCheck(p) == IF store[p] = "checking" THEN entries[p] ELSE {}

Checks(p, f) ==
  /\ entries' = [entries EXCEPT ![p] = @ \ {f}]
  /\ available' = [available EXCEPT ![p] = @ \cup {f}]
  /\ UNCHANGED <<archive, store, root>>

(* Mutant: a file is available as soon as it is there. *)
CheckPresenceOnly(p) ==
  \E f \in ToCheck(p) \cap Payloads : archive[f] # "absent" /\ Checks(p, f)

CheckEntry(p) ==
  \E f \in ToCheck(p) \cap Payloads : Matches(p, f) /\ Checks(p, f)

(* The sum of a file that cannot be opened throws: the directory stays.    *)
CheckThrows(p) ==
  /\ \E f \in ToCheck(p) : archive[f] = "absent"
  /\ StoreFails(p) /\ UNCHANGED archive

(* A wrong sum or name: update_image removes the directory, and throws     *)
(* whether or not it can.                                                  *)
CheckRejects(p) ==
  /\ \E f \in ToCheck(p) :
       /\ archive[f] # "absent"
       /\ ~ Matches(p, f) \/ f \notin Payloads
  /\ archive' \in {EmptyArchive}
                    \cup (IF "remove" \in StoreFaults THEN {archive} ELSE {})
  /\ StoreFails(p)

Checked(p) ==
  /\ store[p] = "checking" /\ entries[p] = {} /\ Listed(p) # {}
  /\ store' = [store EXCEPT ![p] = "checked"]
  /\ UNCHANGED <<archive, entries, root, available>>

StoreStep(p, header, packed) ==
  \/ ExtractUpdateStore(p, header, packed)
  \/ ImageRejected(p, header, packed)
  \/ ExtractEntry(p, packed)
  \/ ExtractFails(p)
  \/ ReadUpdateConfiguration(p)
  \/ NoUpdateConfiguration(p)
  \/ NodesMissing(p)
  \/ CheckEntry(p)
  \/ CheckThrows(p)
  \/ CheckRejects(p)
  \/ Checked(p)
=============================================================================
