----------------------------- MODULE Subprocess -----------------------------
(***************************************************************************)
(* subprocess::Popen (subprocess.cpp): a command is run by a forked child  *)
(* through system(), its standard output is read through a pipe, and the   *)
(* constructor blocks until the child is reaped.                           *)
(*                                                                         *)
(* The pipe counts the blocks in it.  Its ends are open as long as one of  *)
(* their holders is: reading meets the end of the file when nobody can     *)
(* write any more, and a command that writes when nobody reads is killed.  *)
(***************************************************************************)
EXTENDS Naturals

CONSTANTS
  PipeSize,       \* blocks the pipe holds
  MaxOutput,      \* blocks a command writes at most
  SystemFaults    \* what the operating system does to the processes

AllSystemFaults ==
  { "pipe", "fork", "dup2", "shell",   \* the call fails
    "read", "wait",     \* interrupted by a signal in the client
    "command_killed",   \* the command dies of a signal
    "child_killed" }    \* the forked child dies of a signal

ASSUME SubprocessAssumption ==
  /\ PipeSize \in Nat \ {0}
  /\ MaxOutput \in Nat
  /\ SystemFaults \subseteq AllSystemFaults

VARIABLES
  parent,     \* where the constructor is
  child,      \* where the forked child is, or the status it left
  command,    \* the command, once system() has started it
  left,       \* blocks the command still writes
  pipe,       \* blocks in the pipe
  readers,    \* who has the reading end open
  writers,    \* who has the writing end open
  result      \* how the constructor ended, or "none"

popen == <<parent, child, command, left, pipe, readers, writers, result>>

(* Exit codes of the child (4 needs system() to return 127, which it never *)
(* does: the shell's 127 arrives as 127 * 256), and a death by a signal.   *)
Statuses == {"exit0", "exit2", "exit3", "exit5", "signalled"}

Results == {"none", "successful", "unsuccessful", "CreatePipe", "ReadPipe",
            "WaitForWait", "ChildProcess"}

PopenTypeOK ==
  /\ parent \in {"start", "forked", "reading", "read_failed", "waiting", "returned"}
  /\ child \in {"none", "forked", "ready", "system", "reaped"} \cup Statuses
  /\ command \in {"none", "running", "ok", "failed", "killed"}
  /\ left \in 0 .. MaxOutput
  /\ pipe \in 0 .. PipeSize
  /\ readers \subseteq {"parent", "child"}
  /\ writers \subseteq {"parent", "child", "command"}
  /\ result \in Results

PopenInit ==
  /\ parent = "start" /\ child = "none" /\ command = "none" /\ left = 0
  /\ pipe = 0 /\ readers = {} /\ writers = {}
  /\ result = "none"

-----------------------------------------------------------------------------
(* The constructor. *)

Ends(r) == parent' = "returned" /\ result' = r

PipeFails ==
  /\ parent = "start" /\ "pipe" \in SystemFaults
  /\ Ends("CreatePipe")
  /\ UNCHANGED <<child, command, left, pipe, readers, writers>>

Fork ==
  /\ parent = "start"
  /\ parent' = "forked" /\ child' = "forked"
  /\ readers' = {"parent", "child"} /\ writers' = {"parent", "child"}
  /\ UNCHANGED <<command, left, pipe, result>>

(* The result of fork is not checked: -1 takes the parent's branch.        *)
ForkFails ==
  /\ parent = "start" /\ "fork" \in SystemFaults
  /\ parent' = "forked"
  /\ readers' = {"parent"} /\ writers' = {"parent"}
  /\ UNCHANGED <<child, command, left, pipe, result>>

(* Mutant: the parent keeps its own writing end. *)
KeepWriteEnd ==
  /\ parent = "forked"
  /\ parent' = "reading"
  /\ UNCHANGED <<child, command, left, pipe, readers, writers, result>>

CloseWriteEnd ==
  /\ parent = "forked"
  /\ parent' = "reading" /\ writers' = writers \ {"parent"}
  /\ UNCHANGED <<child, command, left, pipe, readers, result>>

(* Mutant: a block is counted that was not there. *)
ReadUnguarded ==
  /\ parent = "reading" /\ writers # {}
  /\ pipe' = pipe - 1
  /\ UNCHANGED <<parent, child, command, left, readers, writers, result>>

Read ==
  /\ parent = "reading" /\ pipe > 0
  /\ pipe' = pipe - 1
  /\ UNCHANGED <<parent, child, command, left, readers, writers, result>>

ReadEnd ==
  /\ parent = "reading" /\ pipe = 0 /\ writers = {}
  /\ parent' = "waiting" /\ readers' = readers \ {"parent"}
  /\ UNCHANGED <<child, command, left, pipe, writers, result>>

(* Mutant: the child is waited for with the pipe still open. *)
ReadFailsKeepsPipe ==
  /\ parent = "reading" /\ "read" \in SystemFaults
  /\ parent' = "read_failed"
  /\ UNCHANGED <<child, command, left, pipe, readers, writers, result>>

ReadFails ==
  /\ parent = "reading" /\ "read" \in SystemFaults
  /\ parent' = "read_failed" /\ readers' = readers \ {"parent"}
  /\ UNCHANGED <<child, command, left, pipe, writers, result>>

(* Mutant: an unknown exit code is no failure. *)
LenientResultOf(status) ==
  IF status \in {"exit2", "exit3"} THEN "ChildProcess" ELSE "successful"

(* What the status of a reaped child is taken for.  WEXITSTATUS of a child *)
(* that a signal killed is 0.                                              *)
ResultOf(status) ==
  CASE status \in {"exit0", "signalled"} -> "successful"
    [] status = "exit5" -> "unsuccessful"
    [] OTHER -> "ChildProcess"

(* Mutant: the exception of a failed read leaves without the child.        *)
RethrowWithoutWait ==
  /\ parent \in {"waiting", "read_failed"}
  /\ child \in Statuses \/ parent = "read_failed"
  /\ Ends(IF parent = "read_failed" THEN "ReadPipe" ELSE ResultOf(child))
  /\ child' = IF parent = "read_failed" THEN child ELSE "reaped"
  /\ UNCHANGED <<command, left, pipe, readers, writers>>

Wait ==
  /\ parent \in {"waiting", "read_failed"}
  /\ child \in Statuses
  /\ Ends(IF parent = "read_failed" THEN "ReadPipe" ELSE ResultOf(child))
  /\ child' = "reaped"
  /\ UNCHANGED <<command, left, pipe, readers, writers>>

WaitFails ==
  /\ parent \in {"waiting", "read_failed"}
  /\ Ends("WaitForWait")
  /\ UNCHANGED <<child, command, left, pipe, readers, writers>>

NoChildToWait == child = "none" /\ WaitFails
WaitInterrupted == "wait" \in SystemFaults /\ WaitFails

-----------------------------------------------------------------------------
(* The child. *)

ChildGone == readers' = readers \ {"child"} /\ writers' = writers \ {"child"}

ChildReady ==
  /\ child = "forked"
  /\ child' = "ready" /\ readers' = readers \ {"child"}
  /\ UNCHANGED <<parent, command, left, pipe, writers, result>>

ChildFails ==
  /\ child = "ready"
  /\ \/ "dup2" \in SystemFaults /\ child' = "exit2"
     \/ "shell" \in SystemFaults /\ child' \in {"exit3", "exit5"}
  /\ ChildGone
  /\ UNCHANGED <<parent, command, left, pipe, result>>

ChildRuns ==
  /\ child = "ready"
  /\ child' = "system"
  /\ command' = "running" /\ left' \in 0 .. MaxOutput
  /\ writers' = writers \cup {"command"}
  /\ UNCHANGED <<parent, pipe, readers, result>>

ChildExits ==
  /\ child = "system" /\ command # "running"
  /\ child' = IF command = "ok" THEN "exit0" ELSE "exit5"
  /\ ChildGone
  /\ UNCHANGED <<parent, command, left, pipe, result>>

ChildKilled ==
  /\ child \in {"forked", "ready", "system"} /\ "child_killed" \in SystemFaults
  /\ child' = "signalled"
  /\ ChildGone
  /\ UNCHANGED <<parent, command, left, pipe, result>>

-----------------------------------------------------------------------------
(* The command. *)

CommandEnds(how) ==
  /\ command = "running"
  /\ command' = how
  /\ writers' = writers \ {"command"}
  /\ UNCHANGED <<parent, child, left, pipe, readers, result>>

CommandWrites ==
  /\ command = "running" /\ left > 0 /\ readers # {} /\ pipe < PipeSize
  /\ left' = left - 1 /\ pipe' = pipe + 1
  /\ UNCHANGED <<parent, child, command, readers, writers, result>>

CommandSucceeds == left = 0 /\ CommandEnds("ok")

(* Nobody reads: SIGPIPE, or a failed write if the client ignores it.      *)
CommandBreaksPipe ==
  /\ command = "running" /\ left > 0 /\ readers = {}
  /\ \/ CommandEnds("killed")
     \/ /\ left' = left - 1
        /\ UNCHANGED <<parent, child, command, pipe, readers, writers, result>>

CommandKilled == "command_killed" \in SystemFaults /\ CommandEnds("killed")

-----------------------------------------------------------------------------
ParentStep ==
  \/ Fork \/ CloseWriteEnd
  \/ Read \/ ReadEnd
  \/ Wait \/ NoChildToWait

ChildStep == ChildReady \/ ChildRuns \/ ChildExits

SystemFault ==
  \/ PipeFails \/ ForkFails \/ ReadFails \/ WaitInterrupted
  \/ ChildFails \/ ChildKilled
  \/ CommandKilled

-----------------------------------------------------------------------------
(* Popen reports success only for a command that has succeeded.            *)
SuccessMeansSucceeded == result = "successful" => command = "ok"

(* Popen blocks until the command is executed, also when it throws: the    *)
(* caller's handler may rely on what the command has done.                 *)
BlocksUntilExecuted ==
  parent = "returned" /\ result # "WaitForWait" => command # "running"

(* Popen leaves no end of the pipe open and no dead child behind, by       *)
(* whichever path it leaves.                                               *)
NothingLeftBehind ==
  parent = "returned" =>
    /\ "parent" \notin readers \cup writers
    /\ result # "WaitForWait" => child \in {"none", "reaped"}
=============================================================================
