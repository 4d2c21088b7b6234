----------------------- MODULE FirmwareInstallerProofs -----------------------
(***************************************************************************)
(* What the firmware installation guarantees for every pipe, every output  *)
(* and every fault but the two that separate the library from its child:   *)
(* a child killed by a signal, whose status reads as success, and a wait   *)
(* that is interrupted (README, section 5).                                *)
(***************************************************************************)
EXTENDS FirmwareInstaller, TLAPS

(* The two faults that separate the library from its child do not occur. *)
ChildReaped == "child_killed" \notin SystemFaults /\ "wait" \notin SystemFaults

-----------------------------------------------------------------------------
(* The inductive invariant. *)

(* Who has which end of the pipe open. *)
PipeEnds ==
  /\ "command" \in writers <=> command = "running"
  /\ "child" \in writers <=> child \in {"forked", "ready", "system"}
  /\ "parent" \in writers <=> parent = "forked"
  /\ "parent" \in readers <=> parent \in {"forked", "reading"}

(* The child outlives its command, and its status tells how that ended. *)
ChildTells ==
  /\ command = "running" => child = "system"
  /\ child \in {"none", "forked", "ready", "exit2", "exit3"} => command = "none"
  /\ child = "exit0" => command = "ok"
  /\ child # "signalled"

(* The parent outlives the child, and its answer tells how that ended. *)
ParentTells ==
  /\ parent = "start" => child = "none"
  /\ parent # "returned" => result = "none" /\ child # "reaped"
  /\ parent = "returned" => result # "none" /\ child \in {"none", "reaped"}
  /\ result = "successful" => command = "ok"

(* Where the library is, and what rauc has done. *)
StepTells ==
  /\ step \notin {"installBundle", "sync"} => parent = "returned"
  /\ order = "new" => written
  /\ step = "installBundle" /\ command = "ok" => order = "new"
  /\ step \in {"sync", "done", "sync_failed"} => order = "new"
  /\ step = "install_failed" => order = "old"
  /\ step = "done" => result = "successful"

IInv == TypeOK /\ PipeEnds /\ ChildTells /\ ParentTells /\ StepTells

-----------------------------------------------------------------------------
(* The processes: each step keeps the invariant.                           *)
LEMMA ProcessKeeps ==
  ASSUME IInv, ChildReaped, SubprocessAssumption,
         Process(ParentStep \/ ChildStep \/ SystemFault \/ CommandWrites \/ CommandBreaksPipe)
  PROVE  IInv'
<1> USE DEF IInv, TypeOK, PopenTypeOK, Statuses, Results, PipeEnds, ChildTells,
            ParentTells, StepTells, SubprocessAssumption, ChildReaped, Process
<1>1. CASE Process(PipeFails)
  BY <1>1 DEF Ends, PipeFails
<1>2. CASE Process(Fork)
  BY <1>2 DEF Fork
<1>3. CASE Process(ForkFails)
  BY <1>3 DEF ForkFails
<1>4. CASE Process(CloseWriteEnd)
  BY <1>4 DEF CloseWriteEnd
<1>5. CASE Process(Read)
  BY <1>5 DEF Read
<1>6. CASE Process(ReadEnd)
  BY <1>6 DEF ReadEnd
<1>7. CASE Process(ReadFails)
  BY <1>7 DEF ReadFails
<1>8. CASE Process(Wait)
  BY <1>8 DEF Ends, ResultOf, Statuses, Wait
<1>9. CASE Process(NoChildToWait)
  BY <1>9 DEF WaitFails, Ends, NoChildToWait
<1>10. CASE Process(ChildReady)
  BY <1>10 DEF ChildReady
<1>11. CASE Process(ChildFails)
  BY <1>11 DEF ChildGone, ChildFails
<1>12. CASE Process(ChildRuns)
  BY <1>12 DEF ChildRuns
<1>13. CASE Process(ChildExits)
  BY <1>13 DEF ChildGone, ChildExits
<1>14. CASE Process(CommandWrites)
  BY <1>14 DEF CommandWrites
<1>15. CASE Process(CommandBreaksPipe)
  <2>1. CASE CommandEnds("killed")
    BY <1>15, <2>1 DEF CommandEnds
  <2>2. CASE left > 0 /\ left' = left - 1
             /\ UNCHANGED <<parent, child, command, pipe, readers, writers, result>>
    BY <1>15, <2>2
  <2>3. QED
    BY <1>15, <2>1, <2>2 DEF CommandBreaksPipe
<1>16. CASE Process(CommandKilled)
  BY <1>16 DEF CommandEnds, CommandKilled
<1>17. QED
  BY <1>1, <1>2, <1>3, <1>4, <1>5, <1>6, <1>7, <1>8, <1>9, <1>10, <1>11, <1>12, <1>13, <1>14, <1>15, <1>16
  DEF ParentStep, ChildStep, SystemFault, WaitInterrupted, ChildKilled

(* The library and rauc: each step keeps the invariant.                    *)
LEMMA InstallerKeeps ==
  ASSUME IInv, ChildReaped, SubprocessAssumption,
         \/ CommandEndsWell \/ CommandFails \/ RaucWrites \/ RaucActivates
         \/ BundleInstalled \/ installBundleThrows \/ TakeBack \/ TakeBackFails \/ Synced
  PROVE  IInv'
<1> USE DEF IInv, TypeOK, PopenTypeOK, Statuses, Results, PipeEnds, ChildTells,
            ParentTells, StepTells, SubprocessAssumption, popen
<1>1. CASE CommandEndsWell
  BY <1>1 DEF CommandSucceeds, CommandEnds, Rauc, CommandEndsWell
<1>2. CASE CommandFails
  BY <1>2 DEF CommandEnds, CommandFails
<1>3. CASE RaucWrites
  BY <1>3 DEF Rauc, RaucWrites
<1>4. CASE RaucActivates
  BY <1>4 DEF Rauc, RaucActivates
<1>5. CASE BundleInstalled
  BY <1>5 DEF BundleInstalled
<1>6. CASE installBundleThrows
  BY <1>6 DEF installBundleThrows
<1>7. CASE TakeBack
  BY <1>7 DEF TakeBack
<1>8. CASE TakeBackFails
  BY <1>8 DEF TakeBackFails
<1>9. CASE Synced
  BY <1>9 DEF Synced
<1>10. QED
  BY <1>1, <1>2, <1>3, <1>4, <1>5, <1>6, <1>7, <1>8, <1>9

(* The invariant holds always. *)
LEMMA Invariant == ASSUME ChildReaped PROVE Spec => []IInv
<1>1. Init => IInv
  <2> SUFFICES ASSUME Init PROVE IInv
    OBVIOUS
  <2>1. TypeOK
    <3>1. 0 \in 0 .. MaxOutput /\ 0 \in 0 .. PipeSize
      BY SubprocessAssumption DEF SubprocessAssumption
    <3>2. QED
      BY <3>1 DEF Init, PopenInit, TypeOK, PopenTypeOK, Results
  <2>2. PipeEnds /\ ChildTells /\ ParentTells /\ StepTells
    BY DEF Init, PopenInit, PipeEnds, ChildTells, ParentTells, StepTells
  <2>3. QED
    BY <2>1, <2>2 DEF IInv
<1>2. IInv /\ [Next]_vars => IInv'
  <2> SUFFICES ASSUME IInv, [Next]_vars PROVE IInv'
    OBVIOUS
  <2>1. CASE UNCHANGED vars
    BY <2>1 DEF vars, popen, IInv, TypeOK, PopenTypeOK, PipeEnds, ChildTells,
       ParentTells, StepTells
  <2>2. CASE Next
    BY <2>1, <2>2, ChildReaped, SubprocessAssumption, ProcessKeeps, InstallerKeeps
    DEF Next, Library, Command, Process, Ended
  <2>3. QED
    BY <2>1, <2>2
<1>3. QED
  BY <1>1, <1>2, PTL DEF Spec

-----------------------------------------------------------------------------
(* The processes and the installation stay in known states, and the pipe   *)
(* within its size.                                                        *)
THEOREM TypeCorrect == ASSUME ChildReaped PROVE Spec => []TypeOK
<1>1. IInv => TypeOK
  BY DEF IInv
<1>2. QED
  BY <1>1, Invariant, PTL

(* Popen reports success only for a command that has succeeded.            *)
THEOREM SuccessIsTrue == ASSUME ChildReaped PROVE Spec => []SuccessMeansSucceeded
<1>1. IInv => SuccessMeansSucceeded
  BY DEF IInv, ParentTells, SuccessMeansSucceeded
<1>2. QED
  BY <1>1, Invariant, PTL

(* No command outlives the Popen that started it, on any path out of the   *)
(* constructor: the command needs its child, and the child is reaped.      *)
THEOREM PopenBlocks == ASSUME ChildReaped PROVE Spec => []BlocksUntilExecuted
<1>1. IInv => BlocksUntilExecuted
  BY DEF IInv, ChildTells, ParentTells, BlocksUntilExecuted
<1>2. QED
  BY <1>1, Invariant, PTL

(* Popen closes its pipe and reaps its child on every path.                *)
THEOREM PopenCleansUp == ASSUME ChildReaped PROVE Spec => []NothingLeftBehind
<1>1. IInv => NothingLeftBehind
  BY DEF IInv, PipeEnds, ParentTells, NothingLeftBehind
<1>2. QED
  BY <1>1, Invariant, PTL

(* install returns only with the slot written, activated and synced.       *)
THEOREM InstallIsTrue == ASSUME ChildReaped PROVE Spec => []DoneMeansInstalled
<1>1. IInv => DoneMeansInstalled
  BY DEF IInv, ParentTells, StepTells, DoneMeansInstalled
<1>2. QED
  BY <1>1, Invariant, PTL

(* What a failed installation has taken back stays taken back, whatever    *)
(* rauc was doing when its pipe broke.                                     *)
THEOREM FailureStaysTakenBack == ASSUME ChildReaped PROVE Spec => []FailureTakenBack
<1>1. IInv => FailureTakenBack
  BY DEF IInv, StepTells, FailureTakenBack
<1>2. QED
  BY <1>1, Invariant, PTL
=============================================================================
