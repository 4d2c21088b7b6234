------------------------------ MODULE UBootEnv ------------------------------
(***************************************************************************)
(* UBoot::UBoot (UBoot.cpp): variables are staged in an object and flushed *)
(* together.  openEnv takes libubootenv's inter-process lock and loads the *)
(* environment; until closeEnv the object reads and writes that copy.      *)
(* Outside, getVariable and flushEnvironment open and close by themselves. *)
(*                                                                         *)
(* Several processes have an object each.  They use it the way fsupdate    *)
(* does: "update" is changed and flushed in an EnvTransaction only, and    *)
(* "update_reboot_state" may also be overwritten outside of one.  Most     *)
(* calls read "update" in the transaction that writes it.  The combined    *)
(* update reads it once (fsupdate.cpp:187) and writes that vector, changed *)
(* further, in two later transactions, with the lock free in between.      *)
(***************************************************************************)
EXTENDS Naturals

CONSTANTS
  Procs,
  MaxDepth   \* bound of nested EnvTransactions

ASSUME UBootEnvAssumption ==
  /\ MaxDepth \in Nat \ {0}
  /\ {"nobody", "unread"} \cap Procs = {}

Vars == {"update", "update_reboot_state"}

(* The value of a variable is the set of processes whose changes it has.   *)
Values == SUBSET Procs

VARIABLES
  flash,           \* the stored environment
  lock,            \* who holds libubootenv's lock, or "nobody"
  env_open_count,
  ctx,             \* libubootenv's copy in each process
  variables,       \* staged: a value for some of the variables
  seen,            \* each caller's vector "update": as read, then as changed
  carried          \* the callers that kept it from an earlier transaction

vars == <<flash, lock, env_open_count, ctx, variables, seen, carried>>

Nothing == [v \in {} |-> {}]
Unread == {"unread"}

Init ==
  /\ flash = [v \in Vars |-> {}]
  /\ lock = "nobody"
  /\ env_open_count = [p \in Procs |-> 0]
  /\ ctx = [p \in Procs |-> flash]
  /\ variables = [p \in Procs |-> Nothing]
  /\ seen = [p \in Procs |-> Unread]
  /\ carried = {}

Owns(p) == env_open_count[p] > 0

(* libubootenv opens the environment: the lock is taken, the copy loaded.  *)
MayOpen(p) == lock = "nobody"

Overlay(e, s) == [v \in Vars |-> IF v \in DOMAIN s THEN s[v] ELSE e[v]]

-----------------------------------------------------------------------------
(* Mutant: the environment is opened without keeping it. *)
OpenWithoutLock(p) ==
  /\ env_open_count[p] < MaxDepth
  /\ env_open_count' = [env_open_count EXCEPT ![p] = @ + 1]
  /\ IF Owns(p) THEN UNCHANGED <<lock, ctx>>
     ELSE lock = "nobody" /\ lock' = lock /\ ctx' = [ctx EXCEPT ![p] = flash]
  /\ UNCHANGED <<flash, variables, seen, carried>>

openEnv(p) ==
  /\ env_open_count[p] < MaxDepth
  /\ env_open_count' = [env_open_count EXCEPT ![p] = @ + 1]
  /\ IF Owns(p) THEN UNCHANGED <<lock, ctx>>
     ELSE MayOpen(p) /\ lock' = p /\ ctx' = [ctx EXCEPT ![p] = flash]
  /\ UNCHANGED <<flash, variables, seen, carried>>

(* With its outermost transaction the call of the caller may end, ...      *)
CallEnds(p) ==
  /\ seen' = [seen EXCEPT ![p] = Unread]
  /\ carried' = carried \ {p}

(* ... or it is the combined update, which keeps its vector for the next.  *)
VectorKept(p) ==
  /\ seen[p] # Unread
  /\ carried' = carried \cup {p}
  /\ UNCHANGED seen

(* Mutant: what was staged outlives the transaction. *)
CloseKeepsVariables(p) ==
  /\ Owns(p)
  /\ env_open_count' = [env_open_count EXCEPT ![p] = @ - 1]
  /\ lock' = IF env_open_count[p] = 1 THEN "nobody" ELSE lock
  /\ IF env_open_count[p] = 1 THEN CallEnds(p) \/ VectorKept(p)
     ELSE UNCHANGED <<seen, carried>>
  /\ UNCHANGED <<flash, ctx, variables>>

(* Mutant: closing an environment that is not open counts down as well. *)
CloseUnderflows(p) ==
  /\ env_open_count' = [env_open_count EXCEPT ![p] = @ - 1]
  /\ IF env_open_count[p] = 1
     THEN /\ lock' = "nobody"
          /\ variables' = [variables EXCEPT ![p] = Nothing]
          /\ CallEnds(p) \/ VectorKept(p)
     ELSE UNCHANGED <<lock, variables, seen, carried>>
  /\ UNCHANGED <<flash, ctx>>

(* The caller's transaction ends, also by an exception; what was staged in *)
(* it is dropped.  Without one the call does nothing.                      *)
closeEnv(p) ==
  /\ Owns(p)
  /\ env_open_count' = [env_open_count EXCEPT ![p] = @ - 1]
  /\ IF env_open_count[p] = 1
     THEN /\ lock' = "nobody"
          /\ variables' = [variables EXCEPT ![p] = Nothing]
          /\ CallEnds(p) \/ VectorKept(p)
     ELSE UNCHANGED <<lock, variables, seen, carried>>
  /\ UNCHANGED <<flash, ctx>>

(* Between two of its transactions the combined update fails for good.     *)
CallFails(p) ==
  /\ p \in carried /\ ~ Owns(p)
  /\ CallEnds(p)
  /\ UNCHANGED <<flash, lock, env_open_count, ctx, variables>>

(* What is read in a transaction decides what is written later; the        *)
(* combined update does not read again what it has kept.                   *)
getVariable(p) ==
  /\ Owns(p) /\ p \notin carried
  /\ seen' = [seen EXCEPT ![p] = ctx[p]["update"]]
  /\ UNCHANGED <<flash, lock, env_open_count, ctx, variables, carried>>

Stage(p, v, x) ==
  variables' = [variables EXCEPT ![p] = [w \in DOMAIN @ \cup {v} |->
                                           IF w = v THEN x ELSE @[w]]]

(* The caller changes its vector in place and stages it, whether it was    *)
(* read in this transaction or in an earlier one.                          *)
addUpdate(p) ==
  /\ Owns(p) /\ seen[p] # Unread
  /\ seen' = [seen EXCEPT ![p] = @ \cup {p}]
  /\ Stage(p, "update", seen[p] \cup {p})
  /\ UNCHANGED <<flash, lock, env_open_count, ctx, carried>>

addRebootState(p) ==
  /\ Stage(p, "update_reboot_state", {p})
  /\ UNCHANGED <<flash, lock, env_open_count, ctx, seen, carried>>

freeVariables(p) ==
  /\ variables' = [variables EXCEPT ![p] = Nothing]
  /\ UNCHANGED <<flash, lock, env_open_count, ctx, seen, carried>>

-----------------------------------------------------------------------------
(* flushEnvironment: every staged variable is set in the copy and the copy *)
(* is stored; a flush outside a transaction loads the copy first.          *)

Loaded(p) == IF Owns(p) THEN ctx[p] ELSE flash

(* Mutant: a flush without a transaction uses the copy of the last one. *)
FlushStaleCopy(p) ==
  /\ Owns(p) \/ MayOpen(p)
  /\ flash' = Overlay(ctx[p], variables[p])
  /\ ctx' = [ctx EXCEPT ![p] = flash']
  /\ variables' = [variables EXCEPT ![p] = Nothing]
  /\ UNCHANGED <<lock, env_open_count, seen, carried>>

flushEnvironment(p) ==
  /\ Owns(p) \/ MayOpen(p)
  /\ flash' = Overlay(Loaded(p), variables[p])
  /\ ctx' = [ctx EXCEPT ![p] = flash']
  /\ variables' = [variables EXCEPT ![p] = Nothing]
  /\ UNCHANGED <<lock, env_open_count, seen, carried>>

(* Setting one of the variables or storing the copy fails: the copy keeps  *)
(* what was set, the object what was staged.                               *)
FlushFails(p) ==
  /\ Owns(p) \/ MayOpen(p)
  /\ \E set \in SUBSET DOMAIN variables[p] :
       ctx' = [ctx EXCEPT ![p] =
                 Overlay(Loaded(p), [v \in set |-> variables[p][v]])]
  /\ UNCHANGED <<flash, lock, env_open_count, variables, seen, carried>>

(* The process dies: the kernel drops its lock.                            *)
Dies(p) ==
  /\ lock' = IF lock = p THEN "nobody" ELSE lock
  /\ env_open_count' = [env_open_count EXCEPT ![p] = 0]
  /\ variables' = [variables EXCEPT ![p] = Nothing]
  /\ CallEnds(p)
  /\ UNCHANGED <<flash, ctx>>

Next ==
  \E p \in Procs :
    \/ openEnv(p)
    \/ closeEnv(p)
    \/ CallFails(p)
    \/ getVariable(p)
    \/ addUpdate(p)
    \/ addRebootState(p)
    \/ freeVariables(p)
    \/ flushEnvironment(p)
    \/ FlushFails(p)
    \/ Dies(p)

Spec == Init /\ [][Next]_vars

-----------------------------------------------------------------------------
(* Every variable has a value, the copies are complete, and the count of   *)
(* open transactions never leaves its range.                               *)
TypeOK ==
  /\ flash \in [Vars -> Values]
  /\ lock \in Procs \cup {"nobody"}
  /\ env_open_count \in [Procs -> 0 .. MaxDepth]
  /\ ctx \in [Procs -> [Vars -> Values]]
  /\ variables \in [Procs -> UNION {[S -> Values] : S \in SUBSET Vars}]
  /\ seen \in [Procs -> Values \cup {Unread}]
  /\ carried \in SUBSET Procs

(* Whatever the processes do in between, nested or failing, a flush leaves *)
(* in "update" every change that was there, with one exception: the second *)
(* or third transaction of a combined update, which writes the vector of   *)
(* its first one (fsupdate.cpp:187, 215, 235).  Without the exception the  *)
(* formula is false of the code.                                           *)
NoUpdateLost ==
  [][flash["update"] \subseteq flash'["update"] \/ lock \in carried]_vars

(* A caller in the transaction in which it has read "update" decides on    *)
(* the value that is stored at that moment or on one it has itself tried   *)
(* to store, never on one that another process has replaced.  It is not so *)
(* in the later transactions of a combined update.                         *)
ReadsAreCurrent ==
  \A p \in Procs \ carried :
    seen[p] # Unread => flash["update"] \subseteq seen[p] \cup {p}

(* What a failed call has staged of "update" is gone when its transaction  *)
(* ends, so that no later flush of the process stores it.                  *)
StagedUpdateDropped ==
  \A p \in Procs : ~ Owns(p) => "update" \notin DOMAIN variables[p]
=============================================================================
