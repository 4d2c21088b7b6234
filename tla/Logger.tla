------------------------------- MODULE Logger -------------------------------
(***************************************************************************)
(* logger::LoggerHandler (LoggerHandler.cpp): threads push entries into a  *)
(* deque, a task thread hands them to the sink, and the destructor, run by *)
(* whoever drops the last reference, stops the task and joins it.          *)
(*                                                                         *)
(* One step is a statement between two operations on the mutex or on the   *)
(* condition variable.  A notification reaches the task only while it      *)
(* waits; the wait may also end spuriously.                                *)
(***************************************************************************)
EXTENDS Naturals, Sequences, SequencesExt

CONSTANTS
  Threads,   \* the threads that log
  Quota      \* entries each of them writes

ASSUME LoggerAssumption == Quota \in Nat

VARIABLES
  queue_lock,     \* who holds the mutex, or "nobody"
  log_msg_fifo,
  run_task,
  task,           \* where task_handler_sink is
  entry,          \* the entry it holds
  pc,             \* where each thread is: "idle", "pushed", "released"
  written,        \* entries each thread has pushed
  destructor,     \* where the destructor is
  sink            \* what the sink was given

vars == <<queue_lock, log_msg_fifo, run_task, task, entry, pc, written,
          destructor, sink>>

(* An entry is named by its writer and its number; a thread may also pass  *)
(* an empty shared_ptr, which the task drops.                              *)
NoEntry == <<"none", 0>>
Entries == Threads \X (1 .. Quota)

(* The sink is given entries only, never an empty pointer, and the     *)
(* mutex is held only by the task between two steps.                       *)
TypeOK ==
  /\ queue_lock \in {"nobody", "task"}
  /\ log_msg_fifo \in Seq(Entries \cup {NoEntry})
  /\ run_task \in BOOLEAN
  /\ task \in {"loop", "wanted", "unwanted", "waiting", "deliver", "ended"}
  /\ entry \in Entries \cup {NoEntry}
  /\ pc \in [Threads -> {"idle", "pushed", "released"}]
  /\ written \in [Threads -> 0 .. Quota]
  /\ destructor \in {"alive", "stopped", "joining", "destroyed"}
  /\ sink \in Seq(Entries)

Init ==
  /\ queue_lock = "nobody" /\ log_msg_fifo = <<>> /\ run_task = TRUE
  /\ task = "loop" /\ entry = NoEntry
  /\ pc = [t \in Threads |-> "idle"]
  /\ written = [t \in Threads |-> 0]
  /\ destructor = "alive" /\ sink = <<>>

(* The effect of a notification on the task. *)
Notify == task' = IF task = "waiting" THEN "loop" ELSE task

-----------------------------------------------------------------------------
(* setLogEntry: push under the lock, notify after it. *)

Push(t) ==
  /\ pc[t] = "idle" /\ written[t] < Quota
  /\ queue_lock = "nobody"
  /\ written' = [written EXCEPT ![t] = @ + 1]
  /\ \E e \in {<<t, written'[t]>>, NoEntry} :
       log_msg_fifo' = Append(log_msg_fifo, e)
  /\ pc' = [pc EXCEPT ![t] = "pushed"]
  /\ UNCHANGED <<queue_lock, run_task, task, entry, destructor, sink>>

NotifyOne(t) ==
  /\ pc[t] = "pushed"
  /\ pc' = [pc EXCEPT ![t] = "idle"]
  /\ Notify
  /\ UNCHANGED <<queue_lock, log_msg_fifo, run_task, entry, written,
                 destructor, sink>>

(* The thread drops its reference to the handler. *)
Release(t) ==
  /\ pc[t] = "idle"
  /\ pc' = [pc EXCEPT ![t] = "released"]
  /\ UNCHANGED <<queue_lock, log_msg_fifo, run_task, task, entry, written,
                 destructor, sink>>

-----------------------------------------------------------------------------
(* task_handler_sink *)

Wanted == log_msg_fifo # <<>> \/ ~ run_task

(* Take the lock, first or again after a wakeup, and check the predicate.  *)
TaskLock ==
  /\ task = "loop" /\ queue_lock = "nobody"
  /\ queue_lock' = "task"
  /\ task' = IF Wanted THEN "wanted" ELSE "unwanted"
  /\ UNCHANGED <<log_msg_fifo, run_task, entry, pc, written, destructor, sink>>

(* wait: the lock is given up and the task waits, in one step.             *)
TaskWait ==
  /\ task = "unwanted"
  /\ queue_lock' = "nobody" /\ task' = "waiting"
  /\ UNCHANGED <<log_msg_fifo, run_task, entry, pc, written, destructor, sink>>

SpuriousWakeup ==
  /\ task = "waiting"
  /\ task' = "loop"
  /\ UNCHANGED <<queue_lock, log_msg_fifo, run_task, entry, pc, written,
                 destructor, sink>>

(* Mutant: the newest entry is taken. *)
TaskTakeNewest ==
  /\ task = "wanted" /\ log_msg_fifo # <<>>
  /\ entry' = Last(log_msg_fifo)
  /\ log_msg_fifo' = Front(log_msg_fifo)
  /\ queue_lock' = "nobody" /\ task' = "deliver"
  /\ UNCHANGED <<run_task, pc, written, destructor, sink>>

TaskTake ==
  /\ task = "wanted" /\ log_msg_fifo # <<>>
  /\ entry' = Head(log_msg_fifo)
  /\ log_msg_fifo' = Tail(log_msg_fifo)
  /\ queue_lock' = "nobody" /\ task' = "deliver"
  /\ UNCHANGED <<run_task, pc, written, destructor, sink>>

(* Mutant: an empty pointer is handed to the sink like an entry. *)
TaskDeliverAnything ==
  /\ task = "deliver"
  /\ sink' = Append(sink, entry)
  /\ entry' = NoEntry /\ task' = "loop"
  /\ UNCHANGED <<queue_lock, log_msg_fifo, run_task, pc, written, destructor>>

(* Outside the lock; an empty pointer is dropped. *)
TaskDeliver ==
  /\ task = "deliver"
  /\ sink' = IF entry = NoEntry THEN sink ELSE Append(sink, entry)
  /\ entry' = NoEntry /\ task' = "loop"
  /\ UNCHANGED <<queue_lock, log_msg_fifo, run_task, pc, written, destructor>>

TaskEnd ==
  /\ task = "wanted" /\ log_msg_fifo = <<>> /\ ~ run_task
  /\ queue_lock' = "nobody" /\ task' = "ended"
  /\ UNCHANGED <<log_msg_fifo, run_task, entry, pc, written, destructor, sink>>

-----------------------------------------------------------------------------
(* ~LoggerHandler, once the last reference is gone. *)

(* Mutant: run_task is cleared without the lock, it is an atomic after all. *)
StopUnlocked ==
  /\ destructor = "alive"
  /\ \A t \in Threads : pc[t] = "released"
  /\ run_task' = FALSE /\ destructor' = "stopped"
  /\ UNCHANGED <<queue_lock, log_msg_fifo, task, entry, pc, written, sink>>

Stop ==
  /\ destructor = "alive"
  /\ \A t \in Threads : pc[t] = "released"
  /\ queue_lock = "nobody"
  /\ run_task' = FALSE /\ destructor' = "stopped"
  /\ UNCHANGED <<queue_lock, log_msg_fifo, task, entry, pc, written, sink>>

NotifyAll ==
  /\ destructor = "stopped"
  /\ destructor' = "joining"
  /\ Notify
  /\ UNCHANGED <<queue_lock, log_msg_fifo, run_task, entry, pc, written, sink>>

Join ==
  /\ destructor = "joining" /\ task = "ended"
  /\ destructor' = "destroyed"
  /\ UNCHANGED <<queue_lock, log_msg_fifo, run_task, task, entry, pc, written, sink>>

-----------------------------------------------------------------------------
ThreadStep(t) == Push(t) \/ NotifyOne(t) \/ Release(t)

TaskStep == TaskLock \/ TaskWait \/ TaskTake \/ TaskDeliver \/ TaskEnd

Destroy == Stop \/ NotifyAll \/ Join

Next ==
  \/ \E t \in Threads : ThreadStep(t)
  \/ TaskStep
  \/ SpuriousWakeup
  \/ Destroy

(* Threads are scheduled; nothing forces a thread to log or to let go.     *)
(* The destructor competes with a task that may keep waking up spuriously  *)
(* for the mutex, so that it needs a mutex that is free again and again to *)
(* be granted to it.                                                       *)
Spec ==
  /\ Init /\ [][Next]_vars
  /\ \A t \in Threads : WF_vars(NotifyOne(t))
  /\ WF_vars(TaskStep)
  /\ WF_vars(Destroy) /\ SF_vars(Stop)

-----------------------------------------------------------------------------
(* What the sink will see of a queue: its entries, without the empty       *)
(* pointers.  SelectSeq says the same, but no prover knows it.             *)
Delivered(queue) ==
  LET Kept[i \in 0 .. Len(queue)] ==
        IF i = 0 THEN <<>>
        ELSE IF queue[i] = NoEntry THEN Kept[i - 1] ELSE Append(Kept[i - 1], queue[i])
  IN Kept[Len(queue)]

(* The entries on their way, in the order they will be delivered. *)
Pending ==
  Delivered(IF task = "deliver" THEN <<entry>> \o log_msg_fifo ELSE log_msg_fifo)

Channel == INSTANCE LogChannel WITH
  pending <- Pending, received <- sink, open <- destructor # "destroyed"

(* The handler delivers what was logged in order and once, eventually, and *)
(* the destructor returns only after everything was delivered.             *)
ImplementsChannel == Channel!Spec

(* The destructor of a handler nobody refers to any more returns: joining  *)
(* the task never hangs, however the notifications fall.                   *)
DestructorReturns ==
  (\A t \in Threads : pc[t] = "released") ~> destructor = "destroyed"
=============================================================================
