--------------------------- MODULE UpdateLifecycle ---------------------------
(***************************************************************************)
(* What an A/B update promises to the client of the library, without any   *)
(* variable of the boot loader: the board trusts one pair of a firmware    *)
(* and an application, at most one other pair is on trial, and only        *)
(* commit_update on a board that runs the pair on trial makes it the       *)
(* trusted one.                                                            *)
(***************************************************************************)
EXTENDS UpdateEnv

Updates == { "update_firmware", "update_application",
             "update_firmware_and_application" }
Rollbacks == {"rollback_firmware", "rollback_application"}

Systems == [fw : Slots, app : Slots]
Down == [fw |-> "none", app |-> "none"]

VARIABLES
  trusted,   \* the pair the board returns to
  target,    \* the pair the next boot tries first
  running,   \* the pair that runs, or Down
  call       \* the last public call that returned

lifecycleVars == <<trusted, target, running, call>>

Init ==
  /\ trusted \in Systems
  /\ target = trusted /\ running = trusted
  /\ call = "commit_update"

OnTrial == target # trusted

(* An update was installed, or a rollback switches to the other slot. *)
Install ==
  /\ ~ OnTrial /\ running.fw = trusted.fw
  /\ target' \in Systems \ {trusted}
  /\ call' \in Updates \cup Rollbacks
  /\ UNCHANGED <<trusted, running>>

Stop == running # Down /\ running' = Down /\ UNCHANGED <<trusted, target, call>>

(* The boot loader falls back from a firmware that does not start. *)
Boot ==
  /\ running = Down
  /\ running' \in {target, [target EXCEPT !.fw = trusted.fw]}
  /\ UNCHANGED <<trusted, target, call>>

Confirm ==
  /\ OnTrial /\ running = target
  /\ trusted' = target
  /\ call' = "commit_update"
  /\ UNCHANGED <<target, running>>

TakeBack ==
  /\ OnTrial /\ running.fw = trusted.fw /\ running # target
  /\ target' = trusted
  /\ call' = "commit_update"
  /\ UNCHANGED <<trusted, running>>

Withdraw ==
  /\ OnTrial /\ running # Down
  /\ target' = trusted
  /\ call' \in Rollbacks
  /\ UNCHANGED <<trusted, running>>

(* A call that was refused, failed or had nothing to decide. *)
Answer == running # Down /\ UNCHANGED <<trusted, target, running>>

Next ==
  \/ Install \/ Confirm \/ TakeBack \/ Withdraw \/ Answer
  \/ Stop \/ Boot

Spec == Init /\ [][Next]_lifecycleVars
=============================================================================
