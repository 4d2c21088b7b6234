---------------------------- MODULE LogChannel ----------------------------
(***************************************************************************)
(* What a logger promises: entries reach the sink in the order in which    *)
(* they were accepted, each of them once, and the channel is closed only   *)
(* when it is empty.                                                       *)
(***************************************************************************)
EXTENDS Sequences

CONSTANT Entries

VARIABLES
  pending,    \* accepted entries that the sink has not seen
  received,   \* what the sink has seen
  open

vars == <<pending, received, open>>

Init == pending = <<>> /\ received = <<>> /\ open = TRUE

Accept(e) ==
  /\ open = TRUE
  /\ pending' = Append(pending, e)
  /\ UNCHANGED <<received, open>>

Deliver ==
  /\ pending # <<>>
  /\ received' = Append(received, Head(pending))
  /\ pending' = Tail(pending)
  /\ UNCHANGED open

Close ==
  /\ open = TRUE /\ pending = <<>>
  /\ open' = FALSE
  /\ UNCHANGED <<pending, received>>

Next == (\E e \in Entries : Accept(e)) \/ Deliver \/ Close

Spec == Init /\ [][Next]_vars /\ WF_vars(Deliver)
=============================================================================
