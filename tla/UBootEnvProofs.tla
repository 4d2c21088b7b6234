--------------------------- MODULE UBootEnvProofs ---------------------------
(***************************************************************************)
(* Proofs about the environment object, for any number of processes and    *)
(* any depth of nested transactions.                                       *)
(***************************************************************************)
EXTENDS UBootEnv, TLAPS

(* What is staged is a value for some of the variables. *)
Staged == UNION {[S -> Values] : S \in SUBSET Vars}

(* A partial assignment with values is what can be staged. *)
LEMMA StagedIntro ==
  ASSUME NEW S \in SUBSET Vars, NEW f \in [S -> Values]
  PROVE  f \in Staged
BY DEF Staged

(* And the other way round. *)
LEMMA StagedElim ==
  ASSUME NEW f \in Staged
  PROVE  DOMAIN f \in SUBSET Vars /\ f \in [DOMAIN f -> Values]
BY DEF Staged

(* Setting staged variables in an environment gives an environment.        *)
LEMMA OverlayType ==
  ASSUME NEW e \in [Vars -> Values], NEW f \in Staged
  PROVE  Overlay(e, f) \in [Vars -> Values]
BY StagedElim DEF Overlay

(* So does setting some of them. *)
LEMMA PartType ==
  ASSUME NEW f \in Staged, NEW set \in SUBSET DOMAIN f
  PROVE  [v \in set |-> f[v]] \in Staged
<1>1. set \in SUBSET Vars /\ [v \in set |-> f[v]] \in [set -> Values]
  BY StagedElim
<1> QED
  BY <1>1, StagedIntro

(* Adding a variable to what is staged. *)
LEMMA StageType ==
  ASSUME NEW f \in Staged, NEW v \in Vars, NEW x \in Values
  PROVE  [w \in DOMAIN f \cup {v} |-> IF w = v THEN x ELSE f[w]] \in Staged
<1>1. /\ DOMAIN f \cup {v} \in SUBSET Vars
      /\ [w \in DOMAIN f \cup {v} |-> IF w = v THEN x ELSE f[w]]
           \in [DOMAIN f \cup {v} -> Values]
  BY StagedElim
<1> QED
  BY <1>1, StagedIntro

(* Nothing staged is staged correctly. *)
LEMMA NothingType == Nothing \in Staged /\ DOMAIN Nothing = {}
<1>1. Nothing \in [{} -> Values] /\ {} \in SUBSET Vars /\ DOMAIN Nothing = {}
  BY DEF Nothing
<1> QED
  BY <1>1, StagedIntro

(* A stored or copied environment can be told from one that was not read.  *)
LEMMA UnreadIsNoValue == \A x \in Values : x # Unread
BY UBootEnvAssumption DEF Values, Unread

-----------------------------------------------------------------------------
(* Every step keeps the types. *)
LEMMA NextType ==
  ASSUME TypeOK, [Next]_vars
  PROVE  TypeOK'
<1> USE DEF TypeOK
<1>1. variables \in [Procs -> Staged]
  BY DEF Staged
<1>2. ASSUME variables' \in [Procs -> Staged]
      PROVE  variables' \in [Procs -> UNION {[S -> Values] : S \in SUBSET Vars}]
  BY <1>2 DEF Staged
<1>3. MaxDepth \in Nat \ {0}
  BY UBootEnvAssumption
<1>4. CASE UNCHANGED vars
  BY <1>4 DEF vars
<1>5. ASSUME NEW p \in Procs, openEnv(p) PROVE TypeOK'
  BY <1>3, <1>5 DEF openEnv, Owns, MayOpen
<1>6. ASSUME NEW p \in Procs, closeEnv(p) PROVE TypeOK'
  <2>1. variables' \in [Procs -> Staged]
    BY <1>1, <1>6, NothingType DEF closeEnv
  <2>2. env_open_count' \in [Procs -> 0 .. MaxDepth]
    BY <1>3, <1>6 DEF closeEnv, Owns
  <2> QED
    BY <1>2, <1>6, <2>1, <2>2 DEF closeEnv, CallEnds, VectorKept
<1>7. ASSUME NEW p \in Procs, getVariable(p) PROVE TypeOK'
  BY <1>7 DEF getVariable, Vars
<1>8. ASSUME NEW p \in Procs, addUpdate(p) PROVE TypeOK'
  <2>1. seen[p] \cup {p} \in Values
    BY <1>8 DEF addUpdate, Values
  <2>2. Stage(p, "update", seen[p] \cup {p})
    BY <1>8 DEF addUpdate
  <2>3. variables' \in [Procs -> Staged]
    BY <1>1, <2>1, <2>2, StageType DEF Stage, Vars
  <2> QED
    BY <1>2, <1>8, <2>1, <2>3 DEF addUpdate
<1>9. ASSUME NEW p \in Procs, addRebootState(p) PROVE TypeOK'
  <2>1. {p} \in Values
    BY DEF Values
  <2>2. variables' \in [Procs -> Staged]
    BY <1>1, <1>9, <2>1, StageType DEF addRebootState, Stage, Vars
  <2> QED
    BY <1>2, <1>9, <2>2 DEF addRebootState
<1>10. ASSUME NEW p \in Procs, freeVariables(p) PROVE TypeOK'
  <2>1. variables' \in [Procs -> Staged]
    BY <1>1, <1>10, NothingType DEF freeVariables
  <2> QED
    BY <1>2, <1>10, <2>1 DEF freeVariables
<1>11. ASSUME NEW p \in Procs PROVE Loaded(p) \in [Vars -> Values]
  BY DEF Loaded
<1>12. ASSUME NEW p \in Procs, flushEnvironment(p) PROVE TypeOK'
  <2>1. flash' \in [Vars -> Values]
    BY <1>1, <1>11, <1>12, OverlayType DEF flushEnvironment
  <2>2. variables' \in [Procs -> Staged]
    BY <1>1, <1>12, NothingType DEF flushEnvironment
  <2> QED
    BY <1>2, <1>12, <2>1, <2>2 DEF flushEnvironment
<1>13. ASSUME NEW p \in Procs, FlushFails(p) PROVE TypeOK'
  <2>1. ctx' \in [Procs -> [Vars -> Values]]
    <3>1. PICK set \in SUBSET DOMAIN variables[p] :
            ctx' = [ctx EXCEPT ![p] =
                      Overlay(Loaded(p), [v \in set |-> variables[p][v]])]
      BY <1>13 DEF FlushFails
    <3>2. [v \in set |-> variables[p][v]] \in Staged
      BY <1>1, PartType
    <3> QED
      BY <1>11, <3>1, <3>2, OverlayType
  <2> QED
    BY <1>13, <2>1 DEF FlushFails
<1>14. ASSUME NEW p \in Procs, Dies(p) PROVE TypeOK'
  <2>1. variables' \in [Procs -> Staged]
    BY <1>1, <1>14, NothingType DEF Dies
  <2>2. env_open_count' \in [Procs -> 0 .. MaxDepth]
    BY <1>3, <1>14 DEF Dies
  <2> QED
    BY <1>2, <1>14, <2>1, <2>2 DEF Dies, CallEnds
<1>15. ASSUME NEW p \in Procs, CallFails(p) PROVE TypeOK'
  BY <1>15 DEF CallFails, CallEnds
<1> QED
  BY <1>4, <1>5, <1>6, <1>7, <1>8, <1>9, <1>10, <1>12, <1>13, <1>14, <1>15 DEF Next

(* The initial state has the types. *)
LEMMA InitialType == Init => TypeOK
<1>1. Nothing \in UNION {[S -> Values] : S \in SUBSET Vars}
  BY NothingType DEF Staged
<1> QED
  BY <1>1, UBootEnvAssumption DEF Init, TypeOK, Values

(* Every process has a well-formed copy and counts its transactions within *)
(* the bound, whatever fails.                                              *)
THEOREM TypeCorrect == Spec => []TypeOK
<1>1. Init => TypeOK
  BY InitialType
<1>2. TypeOK /\ [Next]_vars => TypeOK'
  BY NextType
<1> QED
  BY <1>1, <1>2, PTL DEF Spec

-----------------------------------------------------------------------------
(* Which updates of "update" can be lost. *)

(* Only the holder of the lock has the environment open. *)
Exclusive == \A p \in Procs : Owns(p) <=> lock = p

(* What p adds to the stored value is at most its own change. *)
Within(p, x) == x \subseteq flash["update"] \cup {p}

(* Of a caller that has not kept its vector from an earlier transaction,   *)
(* the copy, what was read and what is staged contain every change that is *)
(* stored, and otherwise only changes of their own process; it has read    *)
(* "update" only while it owns the environment, so that nobody else can    *)
(* store one in the meantime.  "update" is staged by the owner only.       *)
Covered ==
  \A p \in Procs :
    /\ (Owns(p) /\ p \notin carried =>
          /\ flash["update"] \subseteq ctx[p]["update"]
          /\ Within(p, ctx[p]["update"]))
    /\ (seen[p] # Unread /\ p \notin carried =>
          /\ Owns(p) /\ flash["update"] \subseteq seen[p] \cup {p}
          /\ Within(p, seen[p]))
    /\ ("update" \in DOMAIN variables[p] =>
          /\ Owns(p)
          /\ (p \notin carried => /\ flash["update"] \subseteq variables[p]["update"]
                                  /\ Within(p, variables[p]["update"])))

IInv == TypeOK /\ Exclusive /\ Covered

(* What the property says of a step. *)
Kept == flash["update"] \subseteq flash'["update"] \/ lock \in carried

(* What such a caller p sets in its copy, in full or in part, contains     *)
(* what is stored and adds at most its own change.                         *)
LEMMA FlushCovers ==
  ASSUME IInv, NEW p \in Procs, p \notin carried,
         NEW f, DOMAIN f \subseteq DOMAIN variables[p],
         \A v \in DOMAIN f : f[v] = variables[p][v]
  PROVE  /\ flash["update"] \subseteq Overlay(Loaded(p), f)["update"]
         /\ Within(p, Overlay(Loaded(p), f)["update"])
<1>1. flash["update"] \subseteq Loaded(p)["update"] /\ Within(p, Loaded(p)["update"])
  BY DEF IInv, Covered, Loaded, Within
<1>2. CASE "update" \in DOMAIN f
  <2>1. Overlay(Loaded(p), f)["update"] = variables[p]["update"]
    BY <1>2 DEF Overlay, Vars
  <2> QED
    BY <1>2, <2>1 DEF IInv, Covered
<1>3. CASE "update" \notin DOMAIN f
  <2>1. Overlay(Loaded(p), f)["update"] = Loaded(p)["update"]
    BY <1>3 DEF Overlay, Vars
  <2> QED
    BY <1>1, <2>1
<1> QED
  BY <1>2, <1>3

(* Every step keeps the invariant, and loses no update that the property   *)
(* promises to keep.                                                       *)
LEMMA NextCovered ==
  ASSUME IInv, [Next]_vars
  PROVE  IInv' /\ Kept
<1> USE DEF IInv
<1>1. TypeOK'
  BY NextType
<1>2. \A p \in Procs : p # "nobody"
  BY UBootEnvAssumption
<1>3. MaxDepth \in Nat
  BY UBootEnvAssumption
<1>4. CASE UNCHANGED vars
  BY <1>1, <1>4 DEF vars, Exclusive, Covered, Owns, Within, Kept
<1>5. ASSUME NEW p \in Procs, openEnv(p)
      PROVE  Exclusive' /\ Covered' /\ Kept
  <2>1. Exclusive'
    BY <1>2, <1>3, <1>5 DEF openEnv, Exclusive, Owns, MayOpen, TypeOK
  <2>2. Covered'
    BY <1>3, <1>5 DEF openEnv, Covered, Owns, Within, MayOpen, TypeOK
  <2> QED
    BY <1>5, <2>1, <2>2 DEF openEnv, Kept
<1>6. ASSUME NEW p \in Procs, closeEnv(p)
      PROVE  Exclusive' /\ Covered' /\ Kept
  <2>1. Exclusive'
    BY <1>2, <1>3, <1>6 DEF closeEnv, Exclusive, Owns, TypeOK
  <2>2. Covered'
    <3>1. CASE env_open_count[p] # 1
      BY <1>3, <1>6, <3>1 DEF closeEnv, Covered, Owns, Within, TypeOK
    <3>2. CASE env_open_count[p] = 1
      <4>1. /\ variables'[p] = Nothing /\ flash' = flash /\ ctx' = ctx
            /\ ~ Owns(p)'
            /\ \A q \in Procs \ {p} :
                 /\ Owns(q)' = Owns(q) /\ seen'[q] = seen[q]
                 /\ variables'[q] = variables[q]
                 /\ q \in carried' <=> q \in carried
            /\ seen'[p] = Unread \/ p \in carried'
        BY <1>3, <1>6, <3>2 DEF closeEnv, CallEnds, VectorKept, Owns, TypeOK
      <4> QED
        BY <4>1, NothingType DEF Covered, Within
    <3> QED
      BY <3>1, <3>2
  <2> QED
    BY <1>6, <2>1, <2>2 DEF closeEnv, Kept
<1>7. ASSUME NEW p \in Procs, getVariable(p)
      PROVE  Exclusive' /\ Covered' /\ Kept
  BY <1>7 DEF getVariable, Exclusive, Covered, Owns, Within, TypeOK, Kept
<1>8. ASSUME NEW p \in Procs, addUpdate(p)
      PROVE  Exclusive' /\ Covered' /\ Kept
  BY <1>8 DEF addUpdate, Stage, Exclusive, Covered, Owns, Within, TypeOK, Kept
<1>9. ASSUME NEW p \in Procs, addRebootState(p)
      PROVE  Exclusive' /\ Covered' /\ Kept
  BY <1>9 DEF addRebootState, Stage, Exclusive, Covered, Owns, Within, TypeOK, Kept
<1>10. ASSUME NEW p \in Procs, freeVariables(p)
       PROVE  Exclusive' /\ Covered' /\ Kept
  BY <1>10, NothingType
     DEF freeVariables, Exclusive, Covered, Owns, Within, TypeOK, Kept
<1>11. ASSUME NEW p \in Procs, Owns(p) \/ MayOpen(p), NEW q \in Procs \ {p}
       PROVE  /\ ~ Owns(q) /\ (seen[q] = Unread \/ q \in carried)
              /\ "update" \notin DOMAIN variables[q]
  BY <1>2, <1>11 DEF MayOpen, Exclusive, Covered
<1>12. ASSUME NEW p \in Procs, flushEnvironment(p)
       PROVE  Exclusive' /\ Covered' /\ Kept
  <2>1. ASSUME p \notin carried
        PROVE  /\ flash["update"] \subseteq flash'["update"]
               /\ Within(p, flash'["update"])
    BY <1>12, <2>1, FlushCovers DEF flushEnvironment
  <2>4. Kept
    <3>1. CASE p \notin carried
      BY <2>1, <3>1 DEF Kept
    <3>2. CASE p \in carried /\ Owns(p)
      BY <3>2 DEF Exclusive, Kept
    <3>3. CASE ~ Owns(p)
      <4>1. "update" \notin DOMAIN variables[p] /\ Loaded(p) = flash
        BY <3>3 DEF Covered, Loaded
      <4> QED
        BY <1>12, <4>1 DEF flushEnvironment, Overlay, Vars, Kept
    <3> QED
      BY <3>1, <3>2, <3>3
  <2>2. Exclusive'
    BY <1>12 DEF flushEnvironment, Exclusive, Owns
  <2>3. ASSUME NEW q \in Procs
        PROVE  /\ (Owns(q)' /\ q \notin carried' =>
                     /\ flash'["update"] \subseteq ctx'[q]["update"]
                     /\ Within(q, ctx[q]["update"])')
               /\ (seen'[q] # Unread /\ q \notin carried' =>
                     /\ Owns(q)' /\ flash'["update"] \subseteq seen'[q] \cup {q}
                     /\ Within(q, seen[q])')
               /\ "update" \notin DOMAIN variables'[q]
    <3>1. CASE q = p
      <4>1. /\ ctx'[p] = flash' /\ seen'[p] = seen[p]
            /\ Owns(p)' = Owns(p) /\ variables'[p] = Nothing
            /\ carried' = carried
        BY <1>12 DEF flushEnvironment, Owns, TypeOK
      <4>2. seen[p] # Unread /\ p \notin carried =>
              /\ Owns(p) /\ flash["update"] \subseteq seen[p] \cup {p}
              /\ Within(p, seen[p])
        BY DEF Covered
      <4> QED
        BY <2>1, <3>1, <4>1, <4>2, NothingType DEF Within
    <3>2. CASE q # p
      <4>1. /\ ~ Owns(q) /\ (seen[q] = Unread \/ q \in carried)
            /\ "update" \notin DOMAIN variables[q]
        BY <1>11, <1>12, <3>2 DEF flushEnvironment
      <4>2. /\ Owns(q)' = Owns(q) /\ seen'[q] = seen[q]
            /\ variables'[q] = variables[q] /\ carried' = carried
        BY <1>12, <3>2 DEF flushEnvironment, Owns, TypeOK
      <4> QED
        BY <4>1, <4>2
    <3> QED
      BY <3>1, <3>2
  <2> QED
    BY <2>2, <2>3, <2>4 DEF Covered
<1>13. ASSUME NEW p \in Procs, FlushFails(p)
       PROVE  Exclusive' /\ Covered' /\ Kept
  <2>1. PICK set \in SUBSET DOMAIN variables[p] :
          ctx' = [ctx EXCEPT ![p] =
                    Overlay(Loaded(p), [v \in set |-> variables[p][v]])]
    BY <1>13 DEF FlushFails
  <2>2. ASSUME p \notin carried
        PROVE  /\ flash["update"] \subseteq ctx'[p]["update"]
               /\ Within(p, ctx'[p]["update"])
    BY <2>1, <2>2, FlushCovers DEF TypeOK
  <2>3. /\ UNCHANGED <<flash, lock, env_open_count, variables, seen, carried>>
        /\ \A q \in Procs \ {p} : ctx'[q] = ctx[q]
    BY <1>13, <2>1 DEF FlushFails, TypeOK
  <2>4. Exclusive'
    BY <2>3 DEF Exclusive, Owns
  <2>5. Covered'
    BY <2>2, <2>3 DEF Covered, Owns, Within
  <2> QED
    BY <2>3, <2>4, <2>5 DEF Kept
<1>14. ASSUME NEW p \in Procs, Dies(p)
       PROVE  Exclusive' /\ Covered' /\ Kept
  <2>1. Exclusive'
    BY <1>2, <1>14 DEF Dies, Exclusive, Owns, TypeOK
  <2>2. Covered'
    BY <1>14, NothingType DEF Dies, CallEnds, Covered, Owns, Within, TypeOK
  <2> QED
    BY <1>14, <2>1, <2>2 DEF Dies, Kept
<1>15. ASSUME NEW p \in Procs, CallFails(p)
       PROVE  Exclusive' /\ Covered' /\ Kept
  <2>1. Exclusive'
    BY <1>15 DEF CallFails, Exclusive, Owns
  <2>2. ASSUME NEW q \in Procs
        PROVE  /\ seen'[q] # Unread /\ q \notin carried' =>
                     q \notin carried /\ seen'[q] = seen[q]
               /\ Owns(q)' /\ q \notin carried' => q \notin carried
    BY <1>15 DEF CallFails, CallEnds, Owns, TypeOK
  <2>3. Covered'
    BY <1>15, <2>2 DEF CallFails, Covered, Owns, Within
  <2> QED
    BY <1>15, <2>1, <2>3 DEF CallFails, Kept
<1> QED
  BY <1>1, <1>4, <1>5, <1>6, <1>7, <1>8, <1>9, <1>10, <1>12, <1>13, <1>14, <1>15 DEF Next

(* The invariant holds from the start. *)
LEMMA InitialCovered == Init => IInv
<1>1. Init => TypeOK
  BY InitialType
<1>2. Init => Exclusive /\ Covered
  BY UBootEnvAssumption, NothingType DEF Init, Exclusive, Covered, Owns
<1> QED
  BY <1>1, <1>2 DEF IInv

(* Any number of processes may change "update" in transactions of any      *)
(* depth, fail, give up or die: a flush loses a change that another        *)
(* process has stored only when a combined update writes the vector of an  *)
(* earlier transaction in a later one.                                     *)
THEOREM UpdatesKept == Spec => NoUpdateLost
<1>1. IInv /\ [Next]_vars => IInv' /\ [Kept]_vars
  BY NextCovered
<1> QED
  BY <1>1, InitialCovered, PTL DEF Spec, NoUpdateLost, Kept

(* IInv holds always. *)
LEMMA Invariant == Spec => []IInv
<1>1. IInv /\ [Next]_vars => IInv'
  BY NextCovered
<1> QED
  BY <1>1, InitialCovered, PTL DEF Spec

(* Of a caller without a vector from an earlier transaction, what was read *)
(* is still what is stored, but for the process's own change: nobody else  *)
(* replaces it before the transaction ends.                                *)
THEOREM TransactionsIsolated == Spec => []ReadsAreCurrent
<1>1. IInv => ReadsAreCurrent
  BY DEF IInv, Covered, ReadsAreCurrent
<1> QED
  BY <1>1, Invariant, PTL

(* What a failed call has staged of "update" never outlives its            *)
(* transaction, on whatever path the transaction ends.                     *)
THEOREM StagedUpdatesDropped == Spec => []StagedUpdateDropped
<1>1. IInv => StagedUpdateDropped
  BY DEF IInv, Covered, StagedUpdateDropped
<1> QED
  BY <1>1, Invariant, PTL
=============================================================================
