# Verification of fs-updater-lib

fs-updater-lib updates an embedded board that has two firmware slots and two
application slots. It drives RAUC, writes application images itself, and keeps
everything it has to remember across a reboot in the U-Boot environment. The
boot loader reads the same environment and chooses the slot to boot. Whether a
device survives a bad update depends on a handful of variables that the library,
RAUC, the boot loader and the client of the library change in turns. That
protocol is the centre of this project.

Paths below are relative to the repository's root; `handleUpdate.cpp` and so on
are under `src/handle_update/`.

## 1. Inventory

| Component | State it keeps | Operations | Modules |
|---|---|---|---|
| `fs::FSUpdate` (`fsupdate.cpp`) | none of its own; everything is in the environment | `update_firmware`, `update_application`, `update_firmware_and_application`, `update_image`, `commit_update`, `rollback_firmware`, `rollback_application`, `set_update_state_bad`, `update_reboot_state`, `is_reboot_complete` and other reads | `FSUpdate`, `UpdateImage`, `UpdateLifecycle` |
| `updater::Bootstate` (`handleUpdate.cpp`) | none | questions (`pending*`, `failed*`, `firmware_update_reboot_*`), confirmations (`confirm*`), rollbacks | `Bootstate` |
| U-Boot environment (`allowed_uboot_variable_states.h`, `updateDefinitions.*`) | `update`, `update_reboot_state`, `BOOT_ORDER`, `BOOT_ORDER_OLD`, `BOOT_A_LEFT`, `BOOT_B_LEFT`, `application`, `rauc_cmd` | validation and conversion | `UpdateEnv` |
| `UBoot::UBoot` (`uboot_interface/`) | staged variables, libubootenv's copy, the count of open transactions | open, close, read, stage, flush | `UBootEnv` |
| Firmware installer (`updateFirmware.cpp`, `rauc_handler.cpp`) | slot images, through RAUC | `install`, `rollback` | `FirmwareInstaller`, `FSUpdate` |
| Application installer (`updateApplication.cpp`) | `app_a.squashfs`, `app_b.squashfs`, a temporary file | `install`, `rollback` | `ApplicationInstaller`, `FSUpdate` |
| `applicationImage` | a file, the size in its header | `copyImage`; readers of header, content, timestamp, signature and certificates | `ApplicationImage`, `ApplicationInstaller` |
| `UpdateStore`, `LibArchiveHandle` | the archive directory, the parsed manifest, which payloads are available | extract, parse, check checksums | `UpdateStore` |
| `logger::LoggerHandler` | a queue, a task thread | `setLogEntry`, the task, the destructor, `initLogger` | `Logger`, `LogChannel` |
| `subprocess::Popen` | a child process, a pipe | fork, read, wait | `Subprocess` |
| Boot loader, RAUC, overlay mount (not in the repository) | boot counters, order, slot contents, mounted image | boot attempt, activation, mount | `FSUpdate`, external |

**Interaction.** A client calls `FSUpdate`. Each call opens an `EnvTransaction`,
asks `Bootstate` where the update stands, lets it stage variables and flushes
them. `update_*` calls use several transactions with the installation in
between. RAUC writes `BOOT_ORDER` and a boot counter itself. The boot loader
decrements the counters and picks the slot. After the boot `Bootstate`
reconstructs from `BOOT_ORDER`, `BOOT_ORDER_OLD`, the counters, the booted slot
and the mounted application what happened, and `commit_update` acts on it. Every
component writes to a `LoggerHandler`, which has a thread of its own.

**What is hard here.**

* The state of an update is spread over seven variables, four of which other
  programs also write. Only some combinations are recognised, and a combination
  that is not makes every further `commit_update` throw.
* An installation takes minutes between two transactions; it can fail, its pipe
  can break after the slot was activated, the flush can fail and power can fail.
* The library tells "rebooted successfully", "fell back" and "not yet rebooted"
  apart by comparing a copy of the boot order and by counters being 0 or 3.
* Calls arrive in an order that the documentation describes and nothing enforces.
* Several processes use the environment at once.
* The logger is torn down while threads have just logged.
* RAUC and `sync` run in a grandchild, behind a pipe that can fill and break,
  and their outcome reaches the library as the exit status of a child.
* An application slot is replaced file by file: copied, stored, renamed, stored
  again and then named in the environment. Power can fail between any two of
  these, and a file system may keep a rename back or lose data not yet stored.
* The archive directory keeps what earlier images have left in it.
* Verification and copy of an application compute every offset of the file from
  a size in its header, each in its own loop and in arithmetic that wraps.

**What makes each component correct.**

* Life cycle: an update ends in exactly one of "confirmed" and "taken back", the
  board always has a slot that boots, firmware and application of a combined
  update move together, failures are never forgotten. In one formula: it
  implements `UpdateLifecycle`.
* Bootstate: every confirmation leaves a state in which nothing is pending.
* `update_image`: whatever fails, each application slot holds a complete,
  verified application; what is reported as installed is what the image
  declares; and the environment never calls an interrupted update finished.
* Application image: what is copied is what the signature covers, to the last
  byte, whatever size the header declares.
* Processes: a command counts as successful only if it succeeded, none outlives
  the call that started it, and no call waits for ever.
* Environment access: transactions do not lose each other's changes, and what a
  call that failed in one has staged is not stored later.
* Logger: each entry is delivered once and in order, and nothing is lost or
  hangs at destruction.

`PROJECT.json` lists the hazards at the lines where they bite, with the
properties that cover them.

## 2. Modules and their correspondence to the code

### `UpdateEnv`, the environment

A value of the environment is a record. `BOOT_ORDER` and `BOOT_ORDER_OLD` are
two-slot permutations, so their first slot stands for them. The four characters
of `update` are two functions, `fw` and `app`, from the slots to 0..3 (bit 0
"uncommitted", bit 1 "bad"). `update_reboot_state` is the name of its flag.
`validate_update_bits` is the check every read of `update` makes.

### `Bootstate`, questions and handlers

One operator per method of `updater::Bootstate`, over three variables: `env`,
`booted` (`rauc_cmd`) and `mounted` (the image behind the loop device). The
methods only stage variables, hence a handler is an operator that returns the
environment it leaves behind; exceptions they throw are separate guards
(`FirmwareConfirmable`).

### `FSUpdate`, the life cycle

One action per call, several where the call spans several transactions:

    idle -> rauc -> writing -> activated -> app -> idle
                \-> fw_failed -> idle    \-> app_failed, app_unflushed -> idle
         (a combined update whose first transaction fails: idle -> fw_failed)

`stage` says how far the installation in progress has come and `job` which call
it belongs to. `image` records what each firmware slot holds: "ran" has booted,
"new" is complete and will boot, "broken" is complete and will not, "partial" is
what RAUC has written so far. `phase` is the client's place in the documented order
of calls, `last` the last call that returned. `staged` names the failure handler
whose variables could not be flushed and are still in the `UBoot` object.

* `update_firmware`, `update_application` and `update_firmware_and_application`
  are the first transaction; `decorator_update_state` is their refusal.
* `RaucWrite`, `RaucActivate` are RAUC. The error paths follow in the order in
  which the code runs them: `installBundleFails` takes `BOOT_ORDER` back, or
  `TakeBackFails` because that flush fails (`rauc_handler.cpp:112`); `SyncFails`;
  the handler's `FirmwareInstallFailed`, or `FirmwareFailureUnrecorded` because its
  flush fails (`fsupdate.cpp:133`, `205`); `ApplicationInstallFails`,
  `ApplicationNotMarked`; the handler's `ApplicationInstallFailed`, or
  `ApplicationFailureUnrecorded` (`fsupdate.cpp:166`, `236`).
* `commit_update` evaluates the chain of questions in `CommitOutcome` in the
  order of the code, together with the answer and the environment.
* `rollback_firmware` and `rollback_application` are disjunctions of their
  branches, the refusals included.
* `Reboot`, `PowerFails`, `BootAttempt` and `ResetCounters` are the board. The
  slot selector decrements the counter of the first slot of `BOOT_ORDER` with
  attempts left and boots it; with both counters at zero it restores them.

An `EnvTransaction` is one atomic step: it holds libubootenv's inter-process
lock (`UBootEnv` shows what that gives), and `docs/contributing.md` and
`docs/reference/uboot-variables.md` describe a flush as atomic on the redundant
copies. A flush that fails inside one transaction of a call changes nothing, and
the end of the transaction drops what was staged (`Closed`); it is an action of its
own only where the code goes on after it. Three handlers flush outside a
transaction (`fsupdate.cpp:133`, `166`, `205`). What they could not flush stays with
the object and goes out with its next flush (`Flushed`), or with the object when
the client drops it.

Three constants make the module one model of many situations:

* `Calls`, the calls the client makes;
* `Faults`, what goes wrong around the library: an installer that reports an
  error ("install"), the pipe to RAUC that breaks after activation ("pipe"),
  "sync", an image that does not boot ("image"), a boot loader that writes
  `update_reboot_state` ("fallback_flag"; `docs/state-machine.md` lists state 1, which
  no code of the library writes), "power", and a flush that fails: in an
  installation ("flush"), where `BOOT_ORDER` is taken back ("take_back"), where a
  handler records the failure ("record");
* `Habits`, liberties the client takes with the documented order: committing
  or rolling back before the reboot, rolling back the other component, not
  announcing a rollback's reboot, committing once instead of until it answers
  "nothing to do", not committing at all.

With `Habits = {}` the client updates, reboots, commits until the answer is
FALSE, and announces a rollback through `update_reboot_state` before it reboots.

### `UpdateLifecycle` and `FSUpdateLifecycle`, what a client may rely on

`UpdateLifecycle` is the abstract specification: one *trusted* pair of a firmware
and an application, at most one other pair on trial (*target*), the pair that is
*running*. A boot runs the target, or the target with the trusted firmware; only a
commit on a board that runs the trial makes it trusted; only a commit after a boot
that did not reach it, or a rollback, takes it back.

`FSUpdateLifecycle` is the refinement mapping. No variable holds the trusted pair:
it is `BOOT_ORDER_OLD` and `application`, except that `application` already names
the trial after an application update or switch; the firmware on trial is the
first of `BOOT_ORDER`, except after a rollback that is only carried out by an
exhausted boot counter. An installation in progress shows nothing.

### `UBootEnv`, environment access

One action per method of `UBoot::UBoot` for each process: `openEnv`,
`closeEnv`, `getVariable`, staging, `freeVariables`, `flushEnvironment`,
a flush that fails half-way (`FlushFails`) and the death of a process. Transactions
nest. The value of a variable is the set of processes whose changes it contains,
so that a lost update is a set that shrinks. `seen` is the vector in which a caller
keeps `update`. The callers behave as `fsupdate.cpp` does: `update` is changed and
flushed in transactions only, and most calls read it in the transaction that writes
it. `update_firmware_and_application` reads it in its first transaction
(`fsupdate.cpp:187`) and writes that vector, changed further, in a second and a third
one (`215`, `235`), with the lock free in between: at the end of a transaction a call
ends (`CallEnds`) or keeps its vector (`VectorKept`), and `carried` are the callers
that did. `update_reboot_state` is also overwritten outside of a transaction.

### `Logger` and `LogChannel`

`Logger` splits `setLogEntry`, `task_handler_sink` and `~LoggerHandler` at the
operations on the mutex and the condition variable. A notification reaches the
task only while it waits, and a wait may end spuriously. Threads may log an
empty pointer. `LogChannel` is the promise: accepted entries are delivered in
order and once, and the channel closes only when it is empty.
`ImplementsChannel` is the refinement; the pending entries are the queue and
the entry in the task's hands, without empty pointers. The handler can be
destroyed only once every reference is gone (`Release`); while the handler is in
the map of `initLogger` that happens at the end of the program.

### `Subprocess` and `FirmwareInstaller`, the processes of an installation

`Subprocess` is the constructor of `Popen` with three processes: the parent, the
forked child that calls `system()`, and the command. `parent` follows the
constructor from `pipe` to `waitpid`, `child` follows the branch of the child to
its exit code, `readers` and `writers` say who holds which end of the pipe open.
A read meets the end of the file only when no writer is left; a command that
writes when nobody reads breaks its pipe. `ResultOf` is the chain of
`WEXITSTATUS` comparisons, a child killed by a signal (whose `WEXITSTATUS` is 0)
included. Exit code 1 cannot occur, because the parent has already thrown, nor
can 4, because `system()` returns a wait status and never 127.

`FirmwareInstaller` is `firmwareUpdate::install` on top of it: `rauc install`,
its catch block that restores `BOOT_ORDER` (`TakeBack`), then `sync`. RAUC writes
the slot, activates it and may fail before, between and after. `FSUpdate` takes
all of this in three steps and lets the library go on only when RAUC has ended;
`BlocksUntilExecuted` and `FailureTakenBack` are what justifies that.

### `UpdateFiles`, `UpdateStore`, `ApplicationInstaller`, `UpdateImage`

`update_image` for several instances on one board. A file is one of a few
contents, "partial" or "absent"; two contents are two files with different
SHA-256 sums.

* `UpdateStore` has one action per step of the store: an entry is extracted, the
  manifest is read, an entry is checked, and each way to fail. The archive
  directory is shared and keeps its files between calls; it is removed only when
  `CheckUpdateSha256Sum` answers false (`CheckRejects`).
* `ApplicationInstaller` has one action per step of `install`: verify, open and
  write the temporary file, `fsync`, rename, `fsync` of the directory, switch
  `application`. `files` is what the running system reads and `disk` what is
  stored. When power fails every slot comes back in either version, and data
  that was not stored is cut short. An `application` that was staged and not
  flushed stays with the instance and goes with its next flush (`AlsoStaged`).
* `UpdateImage` composes them: the choice among the three updates, the
  transactions before each installer, the handlers, the marker file, crashes and
  power failures. Of the environment it keeps `update_reboot_state`,
  `application` and which firmware the two boot orders name; what a commit may do
  and when is the subject of `FSUpdate`, so `Decide` is any of its outcomes.

### `ApplicationImage`, the offsets of a file

The readers of `applicationImage` and their use in `verify_application_bundle`
and `copyImage`, as functions of a file's length, of the size its header declares
and of the offsets at which certificates begin. `Plus` wraps like the `uint64_t` of
the code; the loops over `FILE_CHUNK_BUFFER` are recursive functions with the
conditions of the code (`copyImage` adds before it compares, the verification
subtracts). `Genuine` is the format without wrapping and without buffers, and
`AcceptedIsCopied` says that verification accepts exactly the genuine files and
that the copy is what the signature covers. `MCUpdateImage` gives every content of
the composition a layout: its `Bundles` are what `Accepted` accepts (an `ASSUME`
TLC evaluates), and an application whose size field was changed is not among them.

### `FSUpdateProperties`, `MCFSUpdate`, `MCUpdateImage`

The life cycle's properties and the sets TLC runs it and `UpdateImage` with.
Definitions commented "Mutant" are variants with a plausible bug; no behaviour uses
them.

### `*Proofs`

`FSUpdateProofs` (types and boot orders), `FSUpdateSlotProofs` (the entries of
`update`) and `FSUpdateLifecycleProofs` (the documented client and the refinement)
belong to `FSUpdate`; the others prove about the module whose name they carry.
`ApplicationImageProofs` also extends `UpdateImageProofs` and `MCUpdateImage`, because
`InstalledAsSigned` relates the installer's files to their offsets.

## 3. Runs

| Run | Question | Answer |
|---|---|---|
| `documented_updates` | Is the documented protocol enough when any installation or image may fail? | Yes: `IdleClean`, `IdleBoots`, `FallbackRuns`, `FailedInstallKeepsSystem`, `CommitNeverThrows`, `UpdateSettles`; firmware and application of a combined update move together (`CombinedMovesTogether`); the calls implement `UpdateLifecycle` (`ImplementsLifecycle`) |
| `documented_rollbacks` | The same with firmware and application rollbacks, separate updates | Yes: a rollback reaches the slot it promises, `UpdateSettles`, `ImplementsLifecycle` |
| `careless` | What survives power failures, broken pipes, failing flushes, those of the failure handlers included, and a client that keeps to nothing? | `TypeOK`, `OrdersAgree`, `InstallationAccounted` |
| `hostile` | What survives failing `sync`, failing flushes in an installation and where `BOOT_ORDER` is taken back, a boot loader that writes the state and rollbacks of the wrong component? | `CommitConfirmsRunning`, `BadStaysBad`. The second needs handlers that can record a failure |
| `uboot_env` | Do processes lose each other's changes, does a failed call leak? | A combined update overwrites what others stored during its installation. Nothing else does (`NoUpdateLost`, `ReadsAreCurrent`), and nothing leaks, with nested, failing and dying transactions |
| `logger` | Is an entry lost, reordered or delivered twice; does the destructor hang? | No |
| `firmware_install` | Is the outcome of RAUC and `sync` told truthfully through child and pipe, and does `install` return? | Yes, unless a signal kills the child or interrupts its `waitpid` |
| `update_image` | What do application slots and environment hold when any step of `update_image` fails, the process crashes or power fails? | `SlotsIntact`, `InstalledAsSigned`, `InstalledAsDeclared`, `InstalledSurvives`, `OutcomeRecorded` |
| `power_loss` | Power fails during the installation | `commit_update` throws from then on |
| `early_rollback` | A rollback before the reboot | The bit of the wrong slot is reset; the new slot stays uncommitted while idle |
| `two_updaters` | Two instances start an update | Both find the state idle and both install |
| `lost_result` | A signal kills the child that runs a command | The command counts as successful, whatever became of it |

The last four are disagreements between the code and its documentation, quoted
under `findings`.

**Bounds.** The life cycle needs none: there are two slots, thirteen states,
counters from 0 to 3 and one call at a time, so that TLC explores every
behaviour of any length for the given `Calls`, `Faults` and `Habits`. These sets
are chosen per run: a fault is left out where a property does not hold under it
(section 5), never to keep the run small.
`Subprocess`: a pipe of one block and commands of up to three, so that the pipe
fills, empties and fills again; one installation. `update_image`: one instance
and any number of calls one after the other, with two applications and one
firmware, so that an image can carry what another manifest lists; the images are
those of `MCUpdateImage!SomeImages` (complete, payload and manifest exchanged,
without a manifest, with one that lists nothing or itself, not an image). The
death of the client at any point ("death") multiplies the states by four and is
covered by the proofs; in the run the process dies through the null logger of
`NodesMissing`. "dirsync" is left out because `InstalledSurvives` does not hold
with it. `two_updaters` needs two instances and no fault.
`AcceptedIsCopied` ranges over every file of up to nine bytes (header of two,
timestamp of one, buffers of two) with every declared size below 24 and up to two
certificate markers anywhere: sizes of zero, of one and of several buffers with
and without a rest, sizes beyond the end of the file, and sizes with which each of
the sums wraps. Offsets of a file that exists are below half of the range
(`FormatAssumption`), as they are for files of less than 2^63 bytes.
`UBootEnv`: two processes, because every property compares one process with what
the others stored; nesting depth 2, because only the outermost transaction
differs from the others. `Logger`: two threads with two entries each, the least
that allows reordering between and within threads while the queue holds more
than one entry. Both modules keep their bounds as constants (`MaxDepth`,
`Quota`), and `Threads` and `Procs` are small sets of model values.

`logger` sets `CHECK_DEADLOCK FALSE`: after the destructor has returned nothing
is left to do. `FirmwareInstaller` stutters only when `install` has ended
(`Ended`), so that a process waiting for ever is a deadlock. In all other runs a deadlock is an error.

**Fairness.** `FSUpdate!FairSpec`: an installation runs to its end (WF), the boot
loader keeps trying (WF on a boot attempt and on the counter reset), a client
that has to announce a rollback or to reboot does so (WF), and it calls
`commit_update` if this stays possible time and again (SF, because a reboot
interrupts it). No fairness is assumed of updates, rollbacks or faults.
`Logger!Spec`: threads, the task and the destructor are scheduled (WF); the
destructor eventually gets a mutex that is free again and again (SF on `Stop`),
which a task woken spuriously over and over could otherwise keep from it.
Nothing forces a thread to log or to release the handler.
`FirmwareInstaller!Spec`: the parent, the child and the command are processes the
kernel schedules (WF on each), and RAUC does not run for ever. No fairness is
assumed of faults, and none of `UpdateImage`, whose properties are safety.

## 4. Proofs

Every safety property the passing runs check, and the abstract life cycle, is also
a theorem, for every value of the constants the theorem names. All of them follow
the same argument: an inductive invariant, one lemma per action or per group of
actions, and the property as a consequence. What is assumed is a named definition
that appears in the theorem; section 5 says what happens without it.

### The life cycle

`FSUpdateProofs` holds for every `Calls`, `Faults` and `Habits`.

* `TypeCorrect`: `Spec => []TypeOK`. `TypeOK` is inductive. Lemmas state that
  each helper and handler of `Bootstate` returns an environment; one step per
  action uses them.
* `OrdersAgreement`: under `OrdersAssumption` the orders differ only while the
  update state accounts for it. `OrdersAgree` is not inductive: whether RAUC may
  switch the order depends on what the installation recorded before it started
  (`WorkRecorded`), and a failure that was not recorded at its time may be recorded
  later, with another flush, on whatever it left behind (`LateRecord`). The
  inductive invariant is `IInv == TypeOK /\ OrdersInv` with `OrdersInv ==
  OrdersAgree /\ WorkRecorded /\ LateRecord`. `CommitOrders` shows that a commit
  either makes the two copies equal or leaves them and the state alone,
  `FlushedOrders` what a late record may do to them; the rest is one step per action.

  `OrdersAssumption` excludes four things, each of which violates `OrdersAgree` in
  TLC: a `sync` that fails after RAUC succeeded, a take-back of `BOOT_ORDER` that
  fails after the pipe to a successful RAUC broke, a boot loader that writes
  `update_reboot_state`, a rollback of the component that is not being updated.
  Power failures, failed installations, failed flushes of an installation and of the
  handlers of a failed one, broken pipes and every other habit are included.
* `CutShortUntrusted`: a firmware slot that was not written to its end is never
  recorded as committed, with every fault and habit. `CutInv` adds that the booted
  slot has run, that RAUC writes a slot that is marked, and that an application
  follows a firmware that is complete, since the handler of a combined update
  declares the other slot committed (`fsupdate.cpp:227`).
* `InstallationsAccounted`: both together, that is `WorkRecorded` and
  `PartialUntrusted`, under `OrdersAssumption`.

`FSUpdateSlotProofs` looks at each entry of `update`, far outside the documented
order of calls.

* `BadSlotsStayBad`: an action property, implied by an invariant that says enough
  of the first of two states. `SlotInv` is `TypeOK` with: no entry is uncommitted
  and bad at once; a running installation has marked what it writes; of a pending
  update the slot named first is the uncommitted one; once the board has booted
  into it a counter shows that. A power failure leaves an update recorded that was
  never installed, and the third of these is lost. `PowerMarked` takes its place:
  the first slot is uncommitted once the orders differ, no application is bad while
  an update of it is pending, and the one that is named never is. It needs `IInv`, so
  `BadSlotsAssumption` asks for `OrdersAssumption` and no `set_update_state_bad` where
  power fails. Elsewhere it excludes the rollback before the reboot and a handler that
  cannot record a failure ("record"); a take-back that fails is included. Section 5
  says what each exclusion is for.
* `CommitsConfirmRunning`: `CommitAssumption` excludes only a combined update
  committed before its reboot, every fault and every other habit is allowed, failing
  flushes of every handler included. The invariant `MountInv` says that after the
  reboot the application of a pending combined update is mounted, or, after a failure
  that was not recorded, that it is the other one that is marked; the question
  `application_reboot` covers the rest.

`FSUpdateLifecycleProofs` is about clients that keep to the documented order while
any installation, pipe or image may fail (`DocumentedClient`; the faults and habits
it excludes are those of section 5, and combined updates and firmware rollbacks
are kept apart as in the runs).

* The inductive invariant `PInv == TypeOK /\ Tells /\ staged = "nothing"` says what
  `update_reboot_state` tells of everything else: what the slots hold
  (`FirmwareTells`, `ApplicationTells`), where the client is (`PhaseTells`), what
  was booted and what the next boot takes (`BootTells`), how many boot attempts are
  left (`CountersTell`), what is mounted (`MountTells`), and how far an installation
  has come. It is needed as a whole: that a commit finds a state it knows depends
  on the counters, those on the boots since, and those on what the slots hold.
* From it follow `DocumentedIdleClean`, `DocumentedIdleBoots`,
  `DocumentedFallbackRuns`, `DocumentedFailedInstallKeepsSystem`,
  `DocumentedCommitNeverThrows`, and the action properties
  `DocumentedRollbackReturns`, `DocumentedSwitchReachesRunnable` and
  `DocumentedCombinedMovesTogether`. `SeparateRebootReportedTruthfully` needs
  separate updates, as the property does not hold for combined ones (section 5).
* `LifecycleImplemented`: `Spec => ImplementsLifecycle`. `Systems` computes the
  trusted and the target pair from the invariant; after that each action is a step
  of the life cycle (`CommitDecides`, `RollbacksWithdraw`, `SwitchesInstall`,
  `InstallationSucceeds`, `BootLoaderBoots`) or invisible (`HiddenSteps`).

### Environment access

`UBootEnvProofs` holds for any set of processes and any nesting depth.

* `TypeCorrect`: `Spec => []TypeOK`.
* `UpdatesKept`, `TransactionsIsolated`, `StagedUpdatesDropped`: no flush loses a
  change and what was read is still current, except in a later transaction of a
  combined update (`carried`); nothing staged of `update` outlives its transaction.
  Without the exception the first two are false of the code (section 5). The
  inductive invariant adds to `TypeOK` that exactly the holder of the lock has the
  environment open (`Exclusive`) and that copy, read value and staged value contain
  everything that is stored (`Covered`), the last two but for the callers in
  `carried`. The lock is used for one thing: while a process is inside, `flash`
  changes only by its own flush.

### The processes of an installation

`FirmwareInstallerProofs` holds for every pipe, every amount of output and every
set of faults with `ChildReaped`: no signal kills the child and none interrupts
the `waitpid`.

* `TypeCorrect`, `SuccessIsTrue`, `PopenBlocks`, `PopenCleansUp`: a success is a
  success, no command outlives its `Popen`, no end of a pipe and no dead child stay
  behind.
* `InstallIsTrue`, `FailureStaysTakenBack`: `install` returns only with the slot
  written, activated and stored, and a failed one leaves `BOOT_ORDER` as it was.

  None of these is inductive: that the command is over follows from the end of the
  pipe or the child's status, three processes away. The inductive invariant is
  `TypeOK` with who holds which end open (`PipeEnds`), what the child's status tells
  of the command (`ChildTells`), what the parent's answer tells of the child
  (`ParentTells`), and what the library's step tells of RAUC (`StepTells`).

### `update_image`

`UpdateImageProofs` holds for all images, manifests, bundles and faults, a process
that dies at any point included, and for any number of instances. `TypeCorrect` assumes
nothing of their order. The others assume `TakeTurns`: an instance takes a step,
a decision of its client included, only while no other one is in a call. That
`two_updaters` shows the library does not see to; an instance that is the only one
on the board does it by itself (`OneTakesTurns`). Calls of different instances may
follow each other in any order, after a death in the middle of one too, and the
answers of all of them stay with their clients. What makes that safe is that a call
goes beyond its dispatch only from an idle state, and so when no answer of any
instance is left undecided (`NoAnswerWaits`, part of the invariant); before that it
touches nothing an answer is about (`EarlyKept`). Only the run with one instance is
small enough for TLC with every fault.

* `SlotsAlwaysIntact`: both application slots hold a complete verified application
  at every moment and after every power failure. Strengthened by: no slot holds data
  that is not stored (`SlotsStored`), and an installer past the copy has the whole
  bundle in the temporary file (`CopyTells`).
* `OutcomesRecorded`: an update that runs or failed keeps the state from being
  idle, a successful one is named. Strengthened by what each point of a call has
  already written (`CallAccounted`).
* `InstalledApplicationsSurvive`: what was reported as installed is there after a
  power failure (`StoredTells`). It assumes `DirectorySynced`, because the code does
  not look at the result of that `fsync`.
* `InstalledIsDeclared`: what was reported as installed is all of what the image
  declares, under the same assumptions. The archive directory keeps files of earlier
  images, so the invariant follows a call from the archive on: what its store has
  extracted, read and checked so far (`StoreTells`), and how much of what is
  declared the installers have done with it (`DeliveryTells`).

`ApplicationImageProofs` holds for every `Modulus`, `HEADER_SIZE`, timestamp size,
buffer size and file length with `FormatAssumption` (twice a file and twice a buffer
fit into an offset).

* `ImagesAreCopied`: `AcceptedIsCopied`. The loops of `read_img_content_only` and
  `copyImage` are recursive functions of a cursor. Each is shown to equal a
  definition without recursion: that one solves the loop's equation
  (`ContentIsRead`, `ContentIsCopied`), and two solutions agree, because an offset at
  which they differ would have a larger one at which they differ (`AgreeUpwards`,
  from the least element of a set of numbers). The rest is that no sum wraps
  where the file goes on.
* `SlotsAsSigned`: `InstalledAsSigned`, from that, `SlotsAlwaysIntact` and the
  layouts of `MCUpdateImage` (`LayoutFits`: files of nine bytes are allowed).

### The logger

`LoggerProofs` holds for any threads and any `Quota`.

* `TypeCorrect`: the sink never gets an empty pointer, and between two steps only
  the task holds the mutex.
* `ChannelImplemented`: the initial state of the handler is one of `LogChannel`, and
  each step one of its steps or a stutter. The invariant `LInv` adds to the types
  that the handler is stopped only when nobody refers to it, that `run_task` says
  so, and that the task ends with an empty queue; the destructor closes the
  channel, so this is what makes `Close` legal. `Delivered`, the queue without its empty
  pointers, is recursive: lemmas say what it is of an empty queue, of a queue with
  one more pointer at the back (`DeliveredAppend`) or in front
  (`DeliveredFront`); they use induction as above, with a set for the property
  (`SetInduction`).

**Only model-checked**, on the instances of section 3: liveness, which is out of
the prover's reach, that is `UpdateSettles`, `InstallReturns`, `DestructorReturns`
and the fairness part of `ImplementsChannel` (an accepted entry is delivered at
last); and the runs that expect a violation.

## 5. What the properties depend on

Adding faults and habits to the runs one at a time shows where each property ends:

* `IdleBoots`, `FallbackRuns`: a failing `sync` violates them, because the
  failure is recorded while `BOOT_ORDER` keeps naming the new slot. So do failing
  flushes, power failures during an update, `set_update_state_bad` on a pending
  slot, early commits, early rollbacks, unannounced rollbacks, cross rollbacks.
* `CommitNeverThrows`: a failure that cannot be recorded ("record") does on a running
  board what a power failure does in `power_loss`: the installation stays recorded
  as pending, and the commit throws.
* `CommitConfirmsRunning`: fails only for a combined update committed before the
  reboot.
* `BadStaysBad`: a rollback before the reboot violates it. So does a power failure
  after an installation into the other slot was recorded and before anything was
  installed, because the commit after it takes what runs for the update. That needs
  a running slot that is bad (`set_update_state_bad`), or orders that differ already:
  a failed `sync`, a boot loader that writes `update_reboot_state`, or a failed flush
  together with a rollback of the other component. A failure that its handler cannot
  record violates it in the same way, without power failing. Firmware: `sync` fails, a
  commit declares the new slot B bad, the board boots B, and there an installation, its
  take-back and its handler's flush fail; the commit takes B for the update and turns
  bad into committed. Application: the one in use is declared bad, the application of
  a combined update fails and so does the handler's flush, the firmware falls back,
  and the commit declares the bad application committed.
* `OrdersAgree`: the four exclusions above. After a take-back that failed,
  `FAILED_FW_UPDATE` is recorded while `BOOT_ORDER` names the new slot, as after a
  failed `sync`.
* `NoUpdateLost`, `ReadsAreCurrent`: not for the later transactions of a combined
  update.
* `InstalledAsDeclared` compares with the image's own manifest; of an image without
  one it says nothing. `FailureTakenBack` says nothing of a take-back or a `sync` that
  failed, which `FirmwareInstaller` ends in states of their own (`take_back_failed`,
  `sync_failed`).
* `RebootReportedTruthfully`: fails for combined updates, whose second
  transaction changes the state the question depends on.
* Combined updates together with `rollback_firmware`: `CombinedMovesTogether`
  still holds, while `ImplementsLifecycle`, `IdleClean`, `IdleBoots`,
  `FallbackRuns`, `FailedInstallKeepsSystem`, `CommitNeverThrows`,
  `RebootReportedTruthfully`, `UpdateSettles`, `RollbackReturns` and
  `SwitchReachesRunnable` do not. The two documented runs therefore keep combined
  updates and rollbacks apart.
* A child killed by a signal violates `SuccessMeansSucceeded` and
  `DoneMeansInstalled`; together with a broken pipe also `BlocksUntilExecuted` and
  `FailureTakenBack`. A broken pipe and an interrupted `waitpid` violate
  `FailureTakenBack`: RAUC is still running when `BOOT_ORDER` is taken back.
* A failing `fsync` of the directory violates `InstalledSurvives`, two instances
  violate `OneInstallation`.

Further differences between code and documentation, seen while modelling and
without a run of their own:

* `docs/rauc-contract.md` says of a commit without an update that it "returns
  false immediately and never touches the counters"; the code restores a counter
  that is below 3 and answers true (`fsupdate.cpp:447-464`).
* `src/uboot_interface/UBoot.h:158` has `EnvTransaction` "wrap read-modify-write
  sequences for atomicity". The combined update reads `update` in one transaction and
  writes it in two later ones (`fsupdate.cpp:187`, `215`, `235`): a change that another
  process flushed during the installation is overwritten.
* What a failed handler leaves staged is not dropped: the next flush of the same
  object stores the failure, on a board that is idle as well.
* `rollback_application` in state 4 stages a rollback and never flushes it
  (`fsupdate.cpp:662`).
* A flush that fails after the application was installed leaves `application`
  staged; the handler's flush stores it with the failure.
* Committing an application update leaves the boot counters as they are.
* After the confirmation of a combined update that fell back, the mounted
  application is still the new one until the next boot.
* `update_application` before that boot writes the mounted slot, and
  `is_reboot_complete` then answers true at once.
* `docs/state-machine.md:133` recovers from a failed firmware installation with
  `rollback_firmware`; the call throws, because the other slot is still uncommitted
  (`fsupdate.cpp:599`). "New install never happened" is not so after a failed
  `sync`: the slot is installed and first in `BOOT_ORDER`.
* `docs/getting-started.md:94` and `docs/state-machine.md:111` have the client
  roll back, reboot and commit. The commit throws (`fsupdate.cpp:477`) unless
  `update_reboot_state` was advanced in between, which only its raw setter does.
* When the application of a combined update fails, the slot with the new firmware,
  which never booted, is marked `'0'` (`fsupdate.cpp:227`), in
  `docs/reference/uboot-variables.md:39` "Committed (good, verified)".
* `docs/architecture.md:403` has `SubprocessError` converted before it surfaces;
  nothing converts it.
* `update_image` checks the checksums of what it has already extracted; the flow in
  `docs/architecture.md:285-297` sets `update_reboot_state` after the installation,
  the code before and after. There and in `docs/reference/api.md:53-54` the type
  filters the manifest; in the code a type makes the path itself the payload, and
  there is neither archive nor manifest.
* `docs/reference/bundle-format.md:80`: entries missing in the archive are "silently
  omitted". The code throws for a payload the manifest lists, unless an earlier image
  has left a file of that name; an image without a manifest uses the one left behind.
* `docs/reference/bundle-format.md:118-128` puts the certificates of an application
  before timestamp and signature; the code reads them behind both
  (`applicationImage.cpp:175-206`).
* A marker file that cannot be created makes `update_image` throw although
  everything is installed and recorded as such (`fsupdate.cpp:319`).
* A `LoggerSinkStdout` made for WARNING drops warnings (`LoggerSinkStdout.cpp:24`).

## 6. Abstractions

* Cryptography: certificates, chains, validity times, CRC and version of an
  application are one Boolean (`sound`), and a signature is valid for the bytes it
  was made for. SHA-256 sums identify contents. Parsing and formatting of
  environment variables is the representation of `UpdateEnv`.
* The entries of an archive and of a manifest are handled in any order. Creating
  the archive directory does not fail. A failed `fork` is modelled, and the `waitpid`
  after it, on process -1, finds no child.
* RAUC's activation is one step that names the target in `BOOT_ORDER` and fills its
  counter. `BOOT_ORDER_OLD` is left alone by it. A slot that is being written does
  not boot.
* An image either always boots or never does. A mount of the application always
  succeeds; `docs/state-machine.md` describes a mount failure whose handling is
  not in the repository.
* In `FSUpdate` there is one process; `UpdateImage` has several, and `UBootEnv` what
  their transactions do to each other.
* In `UpdateImage` a commit or rollback between two updates is any of its outcomes
  (`Decide`).
* States 10 to 12 are written only by the raw setter, as in the code.
* Reads without effect (`get_update_reboot_state`, versions, log output) are left
  out; `is_reboot_complete` is `firmware_reboot` and `application_reboot`.
* The path of `EINVAL` in `set_update_state_bad` changes nothing and is left out.

**Not modelled.** RAUC's queries and mark commands, which change nothing the
library goes on with (only getters query, and no caller marks); the map of handlers
in `initLogger` and the filtering and formatting of the sinks; `read_img`, which
nothing calls; string helpers, exception classes and the example program, which
keep no state; key handling and X.509 path validation, which belong to the
cryptographic library.

## 7. Plan

Done: the life cycle (`UpdateEnv`, `Bootstate`, `FSUpdate`) with its abstract
specification and first proofs; environment access with proofs; the logger with its
abstract channel; the processes of a firmware installation with proofs;
`update_image` for several instances, down to the files of an application, with
proofs; the offsets of an application image.

Every safety property of the passing runs and the safety part of both abstract
specifications is proved. Left, in this order:

1. `RebootReportedTruthfully` for combined updates, restricted to the reboots for
   which the code promises it.
2. `initLogger`'s map of handlers.
