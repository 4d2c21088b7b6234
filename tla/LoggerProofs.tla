---------------------------- MODULE LoggerProofs ----------------------------
(***************************************************************************)
(* LoggerHandler implements LogChannel, for every number of threads and of *)
(* entries: what is logged reaches the sink in order and once, and the     *)
(* destructor returns only when everything has.  That it gets there at all *)
(* is checked on the instance of logger.cfg.                               *)
(***************************************************************************)
EXTENDS Logger, SequenceTheorems, WellFoundedInduction, TLAPS

(* Induction, with a set for the property. *)
LEMMA SetInduction ==
  ASSUME NEW T, 0 \in T, \A n \in Nat : n \in T => n + 1 \in T
  PROVE  \A n \in Nat : n \in T
<1> DEFINE R == {ss \in Nat \X Nat : ss[1] < ss[2]}
           Rest == {n \in Nat : n \notin T}
<1>1. IsWellFoundedOn(R, Nat)
  BY NatLessThanWellFounded DEF OpToRel
<1>2. \A n, m \in Nat : m < n => <<m, n>> \in R
  OBVIOUS
<1> HIDE DEF R
<1> SUFFICES ASSUME Rest # {} PROVE FALSE
  OBVIOUS
<1>3. PICK n \in Rest : \A m \in Rest : ~ (<<m, n>> \in R)
  <2> HIDE DEF Rest
  <2>1. Rest \subseteq Nat
    BY DEF Rest
  <2> QED
    BY <1>1, <2>1, WFMin
<1>4. n \in Nat /\ n \notin T /\ n # 0
  OBVIOUS
<1>5. n - 1 \in Nat /\ n - 1 < n /\ (n - 1) + 1 = n
  BY <1>4
<1>6. n - 1 \in Rest
  BY <1>4, <1>5
<1>7. <<n - 1, n>> \in R
  BY <1>2, <1>4, <1>5
<1> QED
  BY <1>3, <1>6, <1>7

-----------------------------------------------------------------------------
(* The recursion of Delivered. *)
Body(q, g, i) == IF i = 0 THEN <<>>
                 ELSE IF q[i] = NoEntry THEN g[i - 1] ELSE Append(g[i - 1], q[i])

Keeps(q, n, g) == g = [i \in 0 .. n |-> Body(q, g, i)]

(* It has a solution up to every length. *)
LEMMA KeepsExists ==
  ASSUME NEW q
  PROVE  \A n \in Nat : \E g : Keeps(q, n, g)
<1> DEFINE T == {n \in Nat : \E g : Keeps(q, n, g)}
<1>1. 0 \in T
  <2> DEFINE g == [i \in 0 .. 0 |-> <<>>]
  <2>1. \A i \in 0 .. 0 : Body(q, g, i) = <<>>
    BY DEF Body
  <2>2. Keeps(q, 0, g)
    BY <2>1 DEF Keeps
  <2> QED
    BY <2>2
<1>2. ASSUME NEW n \in Nat, n \in T PROVE n + 1 \in T
  <2>1. PICK g : Keeps(q, n, g)
    BY <1>2
  <2> DEFINE h == [i \in 0 .. n + 1 |-> IF i = n + 1 THEN Body(q, g, i) ELSE g[i]]
  <2>2. \A i \in 0 .. n : g[i] = Body(q, g, i)
    <3> HIDE DEF h
    <3> QED
      BY <2>1 DEF Keeps
  <2>3. ASSUME NEW i \in 0 .. n + 1 PROVE h[i] = Body(q, h, i)
    <3>1. i # 0 => i - 1 \in 0 .. n /\ h[i - 1] = g[i - 1]
      OBVIOUS
    <3>2. Body(q, h, i) = Body(q, g, i)
      <4> HIDE DEF h
      <4> QED
        BY <3>1 DEF Body
    <3>3. h[i] = Body(q, g, i)
      BY <2>2
    <3> HIDE DEF h
    <3> QED
      BY <3>2, <3>3
  <2>4. h = [i \in 0 .. n + 1 |-> h[i]]
    OBVIOUS
  <2> HIDE DEF h
  <2>5. Keeps(q, n + 1, h)
    BY <2>3, <2>4 DEF Keeps
  <2> QED
    BY <2>5
<1> HIDE DEF T
<1>3. \A n \in Nat : n \in T
  BY <1>1, <1>2, SetInduction
<1> QED
  BY <1>3 DEF T

(* Two queues that begin alike keep alike. *)
LEMMA KeepsUnique ==
  ASSUME NEW q, NEW r, NEW m \in Nat, NEW n \in Nat, NEW g, NEW h,
         Keeps(q, m, g), Keeps(r, n, h), n <= m, \A i \in 1 .. n : q[i] = r[i]
  PROVE  \A i \in 0 .. n : g[i] = h[i]
<1> DEFINE T == {i \in Nat : i <= n => g[i] = h[i]}
<1> HIDE DEF T
<1>1. \A i \in 0 .. m : g[i] = Body(q, g, i)
  BY DEF Keeps
<1>2. \A i \in 0 .. n : h[i] = Body(r, h, i)
  BY DEF Keeps
<1>3. \A i \in 0 .. n : i \in 0 .. m
  OBVIOUS
<1>4. \A i \in 0 .. n : g[i] = Body(q, g, i) /\ h[i] = Body(r, h, i)
  BY <1>1, <1>2, <1>3
<1> USE DEF T
<1>5. 0 \in T
  BY <1>4 DEF Body
<1>6. ASSUME NEW i \in Nat, i \in T PROVE i + 1 \in T
  <2> SUFFICES ASSUME i + 1 <= n PROVE g[i + 1] = h[i + 1]
    OBVIOUS
  <2>1. i + 1 \in 1 .. n /\ g[i] = h[i] /\ (i + 1) - 1 = i /\ i + 1 # 0
    BY <1>6
  <2>2. /\ g[i + 1] = Body(q, g, i + 1) /\ h[i + 1] = Body(r, h, i + 1)
        /\ q[i + 1] = r[i + 1]
    BY <1>4, <2>1
  <2> QED
    BY <2>1, <2>2 DEF Body
<1> HIDE DEF T
<1>7. \A i \in Nat : i \in T
  BY <1>5, <1>6, SetInduction
<1> QED
  BY <1>7 DEF T

(* What Delivered is, for any solution. *)
LEMMA DeliveredIs ==
  ASSUME NEW q, Len(q) \in Nat, NEW g, Keeps(q, Len(q), g)
  PROVE  Delivered(q) = g[Len(q)]
<1> DEFINE kept == CHOOSE f : Keeps(q, Len(q), f)
<1>1. Keeps(q, Len(q), kept)
  OBVIOUS
<1>2. Delivered(q) = kept[Len(q)]
  BY DEF Delivered, Keeps, Body
<1> HIDE DEF kept
<1>3. \A i \in 0 .. Len(q) : kept[i] = g[i]
  BY <1>1, KeepsUnique
<1> QED
  BY <1>2, <1>3

-----------------------------------------------------------------------------
(* An empty pointer is no entry, and every pointer is one or the other. *)
Pointers == Entries \cup {NoEntry}

LEMMA NoEntryIsNone == NoEntry \notin Entries
<1> SUFFICES ASSUME NoEntry \in Entries PROVE FALSE
  OBVIOUS
<1>1. 0 \in 1 .. Quota
  BY DEF NoEntry, Entries
<1> QED
  BY <1>1, LoggerAssumption

(* Every queue has a solution, and Delivered is its last value. *)
LEMMA DeliveredHas ==
  ASSUME NEW q \in Seq(Pointers)
  PROVE  \E g : Keeps(q, Len(q), g) /\ Delivered(q) = g[Len(q)]
<1>1. Len(q) \in Nat
  OBVIOUS
<1>2. PICK g : Keeps(q, Len(q), g)
  BY <1>1, KeepsExists
<1> QED
  BY <1>1, <1>2, DeliveredIs

(* A step of the recursion, at any place of the queue. *)
LEMMA KeepsStep ==
  ASSUME NEW q, NEW n \in Nat, NEW g, Keeps(q, n, g)
  PROVE  /\ g[0] = <<>>
         /\ \A i \in Nat : i < n =>
              g[i + 1] = IF q[i + 1] = NoEntry THEN g[i] ELSE Append(g[i], q[i + 1])
<1>1. \A i \in 0 .. n : g[i] = Body(q, g, i)
  BY DEF Keeps
<1>2. g[0] = Body(q, g, 0)
  BY <1>1
<1>3. ASSUME NEW i \in Nat, i < n
      PROVE  g[i + 1] = IF q[i + 1] = NoEntry THEN g[i] ELSE Append(g[i], q[i + 1])
  <2>1. i + 1 \in 0 .. n /\ i + 1 # 0 /\ (i + 1) - 1 = i
    BY <1>3
  <2>2. g[i + 1] = Body(q, g, i + 1)
    BY <1>1, <2>1
  <2> QED
    BY <2>1, <2>2 DEF Body
<1> QED
  BY <1>2, <1>3 DEF Body

(* Only entries are kept. *)
LEMMA KeepsEntries ==
  ASSUME NEW q \in Seq(Pointers), NEW g, Keeps(q, Len(q), g)
  PROVE  \A i \in 0 .. Len(q) : g[i] \in Seq(Entries)
<1> DEFINE n == Len(q)
           T == {i \in Nat : i <= n => g[i] \in Seq(Entries)}
<1>1. n \in Nat /\ (\A i \in 1 .. n : q[i] \in Pointers) /\ Keeps(q, n, g)
  OBVIOUS
<1> HIDE DEF n
<1>2. /\ g[0] = <<>>
      /\ \A i \in Nat : i < n =>
           g[i + 1] = IF q[i + 1] = NoEntry THEN g[i] ELSE Append(g[i], q[i + 1])
  BY <1>1, KeepsStep
<1>3. 0 \in T
  <2>1. g[0] = <<>>
    BY <1>2
  <2>2. <<>> \in Seq(Entries)
    OBVIOUS
  <2>3. g[0] \in Seq(Entries)
    BY <2>1, <2>2
  <2> QED
    BY <2>3
<1>4. ASSUME NEW i \in Nat, i \in T PROVE i + 1 \in T
  <2> SUFFICES ASSUME i + 1 <= n PROVE g[i + 1] \in Seq(Entries)
    OBVIOUS
  <2>1. i < n /\ g[i] \in Seq(Entries) /\ q[i + 1] \in Pointers
    BY <1>1, <1>4
  <2>2. q[i + 1] # NoEntry => q[i + 1] \in Entries
    BY <2>1 DEF Pointers
  <2>3. q[i + 1] # NoEntry => Append(g[i], q[i + 1]) \in Seq(Entries)
    BY <2>1, <2>2
  <2> QED
    BY <1>2, <2>1, <2>3
<1> HIDE DEF T
<1>5. \A i \in Nat : i \in T
  BY <1>3, <1>4, SetInduction
<1> QED
  BY <1>1, <1>5 DEF T, n

(* The sink sees entries. *)
LEMMA DeliveredType ==
  ASSUME NEW q \in Seq(Pointers)
  PROVE  Delivered(q) \in Seq(Entries)
<1>1. PICK g : Keeps(q, Len(q), g) /\ Delivered(q) = g[Len(q)]
  BY DeliveredHas
<1>2. Len(q) \in 0 .. Len(q)
  OBVIOUS
<1> QED
  BY <1>1, <1>2, KeepsEntries

(* Nothing is delivered of an empty queue. *)
LEMMA DeliveredEmpty == Delivered(<<>>) = <<>>
<1>1. <<>> \in Seq(Pointers) /\ Len(<<>>) = 0
  OBVIOUS
<1>2. PICK g : Keeps(<<>>, Len(<<>>), g) /\ Delivered(<<>>) = g[Len(<<>>)]
  BY <1>1, DeliveredHas
<1> QED
  BY <1>1, <1>2, KeepsStep

(* A pointer pushed at the back is delivered last, unless it is empty. *)
LEMMA DeliveredAppend ==
  ASSUME NEW q \in Seq(Pointers), NEW e \in Pointers
  PROVE  Delivered(Append(q, e)) =
           IF e = NoEntry THEN Delivered(q) ELSE Append(Delivered(q), e)
<1> DEFINE p == Append(q, e)
           n == Len(q)
<1>1. /\ p \in Seq(Pointers) /\ n \in Nat /\ Len(p) = n + 1
      /\ p[n + 1] = e /\ \A i \in 1 .. n : p[i] = q[i]
  OBVIOUS
<1>2. PICK g : Keeps(p, Len(p), g) /\ Delivered(p) = g[Len(p)]
  BY <1>1, DeliveredHas
<1>3. PICK h : Keeps(q, n, h) /\ Delivered(q) = h[n]
  BY DeliveredHas
<1> HIDE DEF p, n
<1>4. g[n] = h[n]
  <2>1. n + 1 \in Nat /\ n <= n + 1 /\ n \in 0 .. n
    BY <1>1
  <2>2. Keeps(p, n + 1, g)
    BY <1>1, <1>2
  <2>3. \A i \in 0 .. n : g[i] = h[i]
    BY <1>1, <1>3, <2>1, <2>2, KeepsUnique
  <2> QED
    BY <2>1, <2>3
<1>5. g[n + 1] = IF p[n + 1] = NoEntry THEN g[n] ELSE Append(g[n], p[n + 1])
  BY <1>1, <1>2, KeepsStep
<1> QED
  BY <1>1, <1>2, <1>3, <1>4, <1>5 DEF p

(* The pointer in front is delivered first, unless it is empty. *)
LEMMA DeliveredFront ==
  ASSUME NEW q \in Seq(Pointers), NEW e \in Pointers
  PROVE  Delivered(<<e>> \o q) =
           IF e = NoEntry THEN Delivered(q) ELSE <<e>> \o Delivered(q)
<1> DEFINE p == <<e>> \o q
           n == Len(q)
<1>1. /\ p \in Seq(Pointers) /\ n \in Nat /\ Len(p) = n + 1
      /\ p[1] = e /\ \A i \in 1 .. n : p[i + 1] = q[i] /\ q[i] \in Pointers
  OBVIOUS
<1>2. PICK g : Keeps(p, Len(p), g) /\ Delivered(p) = g[Len(p)]
  BY <1>1, DeliveredHas
<1>3. PICK h : Keeps(q, n, h) /\ Delivered(q) = h[n]
  BY DeliveredHas
<1>4. \A i \in 0 .. n : h[i] \in Seq(Entries)
  BY <1>3, KeepsEntries
<1> HIDE DEF p, n
<1>5. /\ g[0] = <<>>
      /\ \A i \in Nat : i < n + 1 =>
           g[i + 1] = IF p[i + 1] = NoEntry THEN g[i] ELSE Append(g[i], p[i + 1])
  <2>1. n + 1 \in Nat /\ Keeps(p, n + 1, g)
    BY <1>1, <1>2
  <2> QED
    BY <2>1, KeepsStep
<1>6. /\ h[0] = <<>>
      /\ \A i \in Nat : i < n =>
           h[i + 1] = IF q[i + 1] = NoEntry THEN h[i] ELSE Append(h[i], q[i + 1])
  BY <1>1, <1>3, KeepsStep
<1> DEFINE With(s) == IF e = NoEntry THEN s ELSE <<e>> \o s
           T == {i \in Nat : i <= n => g[i + 1] = With(h[i])}
<1>7. 0 \in T
  <2>1. 0 < n + 1 /\ 0 + 1 = 1
    BY <1>1
  <2>2. g[1] = IF p[1] = NoEntry THEN g[0] ELSE Append(g[0], p[1])
    BY <1>5, <2>1
  <2>3. Append(<<>>, e) = <<e>> /\ <<e>> \o <<>> = <<e>>
    OBVIOUS
  <2>4. g[1] = With(h[0])
    BY <1>1, <1>5, <1>6, <2>2, <2>3
  <2> HIDE DEF With
  <2> QED
    BY <2>1, <2>4
<1>8. ASSUME NEW i \in Nat, i \in T PROVE i + 1 \in T
  <2> SUFFICES ASSUME i + 1 <= n PROVE g[(i + 1) + 1] = With(h[i + 1])
    OBVIOUS
  <2>1. /\ i < n /\ i + 1 < n + 1 /\ i \in 0 .. n /\ i + 1 \in 1 .. n
        /\ g[i + 1] = With(h[i])
    BY <1>1, <1>8
  <2>2. p[(i + 1) + 1] = q[i + 1] /\ h[i] \in Seq(Entries)
    BY <1>1, <1>4, <2>1
  <2>3. g[(i + 1) + 1] = IF q[i + 1] = NoEntry THEN With(h[i])
                         ELSE Append(With(h[i]), q[i + 1])
    BY <1>5, <2>1, <2>2
  <2>4. h[i + 1] = IF q[i + 1] = NoEntry THEN h[i] ELSE Append(h[i], q[i + 1])
    BY <1>6, <2>1
  <2>5. q[i + 1] \in Pointers
    BY <1>1, <2>1
  <2>6. Append(<<e>> \o h[i], q[i + 1]) = <<e>> \o Append(h[i], q[i + 1])
    <3>1. h[i] \in Seq(Pointers)
      BY <2>2 DEF Pointers
    <3> QED
      BY <2>5, <3>1
  <2> QED
    BY <2>3, <2>4, <2>6
<1> HIDE DEF T, With
<1>9. \A i \in Nat : i \in T
  BY <1>7, <1>8, SetInduction
<1>10. g[n + 1] = With(h[n])
  BY <1>1, <1>9 DEF T
<1> QED
  BY <1>1, <1>2, <1>3, <1>10 DEF p, With

-----------------------------------------------------------------------------
(* What holds between two steps, beside the types: the handler is stopped  *)
(* only when nobody refers to it, run_task is its record of that, and the  *)
(* task ends with an empty queue.                                          *)
LInv ==
  /\ TypeOK
  /\ destructor # "alive" => \A t \in Threads : pc[t] = "released"
  /\ run_task = (destructor = "alive")
  /\ task = "ended" => log_msg_fifo = <<>> /\ run_task = FALSE

LEMMA InitHolds == Init => LInv
<1> SUFFICES ASSUME Init PROVE LInv
  OBVIOUS
<1> USE DEF Init
<1>1. TypeOK
  <2>1. 0 \in 0 .. Quota
    BY LoggerAssumption
  <2>2. <<>> \in Seq(Entries \cup {NoEntry}) /\ <<>> \in Seq(Entries)
    OBVIOUS
  <2> QED
    BY <2>1, <2>2 DEF TypeOK
<1> QED
  BY <1>1 DEF LInv

(* A thread pushes an entry of its own or an empty pointer. *)
LEMMA Pushed ==
  ASSUME TypeOK, NEW t \in Threads, Push(t)
  PROVE  /\ written' \in [Threads -> 0 .. Quota]
         /\ \E e \in Pointers : log_msg_fifo' = Append(log_msg_fifo, e)
<1>1. written[t] \in 0 .. Quota /\ written[t] < Quota /\ Quota \in Nat
  BY LoggerAssumption DEF Push, TypeOK
<1>2. written[t] + 1 \in 0 .. Quota /\ written[t] + 1 \in 1 .. Quota
  BY <1>1
<1>3. written' = [written EXCEPT ![t] = written[t] + 1] /\ written \in [Threads -> 0 .. Quota]
  BY DEF Push, TypeOK
<1>4. written' \in [Threads -> 0 .. Quota] /\ written'[t] = written[t] + 1
  BY <1>2, <1>3
<1>5. PICK e \in {<<t, written'[t]>>, NoEntry} : log_msg_fifo' = Append(log_msg_fifo, e)
  BY DEF Push
<1>6. <<t, written'[t]>> \in Entries
  BY <1>2, <1>4 DEF Entries
<1>7. e \in Pointers
  BY <1>5, <1>6 DEF Pointers
<1> QED
  BY <1>4, <1>5, <1>7

LEMMA NextHolds == LInv /\ [Next]_vars => LInv'
<1> SUFFICES ASSUME LInv, [Next]_vars PROVE LInv'
  OBVIOUS
<1>1. /\ TypeOK
      /\ destructor # "alive" => \A t \in Threads : pc[t] = "released"
      /\ run_task = (destructor = "alive")
      /\ task = "ended" => log_msg_fifo = <<>> /\ run_task = FALSE
  BY DEF LInv
<1>2. CASE UNCHANGED vars
  BY <1>1, <1>2 DEF LInv, TypeOK, vars
<1>3. ASSUME NEW t \in Threads, Push(t) PROVE LInv'
  <2>1. destructor = "alive" /\ run_task = TRUE /\ task # "ended"
    BY <1>1, <1>3 DEF Push
  <2>2. written' \in [Threads -> 0 .. Quota]
    BY <1>1, <1>3, Pushed
  <2>3. PICK e \in Pointers : log_msg_fifo' = Append(log_msg_fifo, e)
    BY <1>1, <1>3, Pushed
  <2>4. log_msg_fifo' \in Seq(Entries \cup {NoEntry})
    BY <1>1, <2>3 DEF TypeOK, Pointers
  <2>5. TypeOK'
    BY <1>1, <1>3, <2>2, <2>4 DEF TypeOK, Push
  <2> QED
    BY <1>1, <1>3, <2>1, <2>5 DEF LInv, Push
<1>4. ASSUME NEW t \in Threads, NotifyOne(t) PROVE LInv'
  <2>1. destructor = "alive"
    BY <1>1, <1>4 DEF NotifyOne
  <2>2. TypeOK'
    BY <1>1, <1>4 DEF TypeOK, NotifyOne, Notify
  <2> QED
    BY <1>1, <1>4, <2>1, <2>2 DEF LInv, NotifyOne, Notify
<1>5. ASSUME NEW t \in Threads, Release(t) PROVE LInv'
  <2>1. TypeOK'
    BY <1>1, <1>5 DEF TypeOK, Release
  <2>2. destructor = "alive"
    BY <1>1, <1>5 DEF Release
  <2> QED
    BY <1>1, <1>5, <2>1, <2>2 DEF LInv, Release
<1>6. CASE TaskLock
  BY <1>1, <1>6 DEF LInv, TypeOK, TaskLock
<1>7. CASE TaskWait
  BY <1>1, <1>7 DEF LInv, TypeOK, TaskWait
<1>8. CASE TaskTake
  <2>1. entry' \in Entries \cup {NoEntry} /\ log_msg_fifo' \in Seq(Entries \cup {NoEntry})
    BY <1>1, <1>8 DEF TypeOK, TaskTake
  <2> QED
    BY <1>1, <1>8, <2>1 DEF LInv, TypeOK, TaskTake
<1>9. CASE TaskDeliver
  <2>1. sink' \in Seq(Entries)
    <3>1. entry # NoEntry => entry \in Entries
      BY <1>1 DEF TypeOK
    <3>2. entry # NoEntry => Append(sink, entry) \in Seq(Entries)
      BY <1>1, <3>1 DEF TypeOK
    <3> QED
      BY <1>1, <1>9, <3>2 DEF TypeOK, TaskDeliver
  <2> QED
    BY <1>1, <1>9, <2>1 DEF LInv, TypeOK, TaskDeliver
<1>10. CASE TaskEnd
  BY <1>1, <1>10 DEF LInv, TypeOK, TaskEnd
<1>11. CASE SpuriousWakeup
  BY <1>1, <1>11 DEF LInv, TypeOK, SpuriousWakeup
<1>12. CASE Stop
  BY <1>1, <1>12 DEF LInv, TypeOK, Stop
<1>13. CASE NotifyAll
  BY <1>1, <1>13 DEF LInv, TypeOK, NotifyAll, Notify
<1>14. CASE Join
  BY <1>1, <1>14 DEF LInv, TypeOK, Join
<1> QED
  BY <1>2, <1>3, <1>4, <1>5, <1>6, <1>7, <1>8, <1>9, <1>10, <1>11, <1>12, <1>13, <1>14
     DEF Next, ThreadStep, TaskStep, Destroy

LEMMA InvariantHolds == Spec => []LInv
<1> QED
  BY InitHolds, NextHolds, PTL DEF Spec

(* The sink is never given an empty pointer, and the mutex is never left   *)
(* locked by a logging thread or by the destructor (task_handler_sink,     *)
(* setLogEntry).                                                           *)
THEOREM TypeCorrect == Spec => []TypeOK
<1>1. LInv => TypeOK
  BY DEF LInv
<1> QED
  BY <1>1, InvariantHolds, PTL

-----------------------------------------------------------------------------
(* What the task holds and what is queued behind it. *)
OnTheWay == IF task = "deliver" THEN <<entry>> \o log_msg_fifo ELSE log_msg_fifo

LEMMA PendingIs ==
  ASSUME TypeOK
  PROVE  /\ OnTheWay \in Seq(Pointers)
         /\ Pending = Delivered(OnTheWay)
<1>1. entry \in Pointers /\ log_msg_fifo \in Seq(Pointers)
  BY DEF TypeOK, Pointers
<1>2. <<entry>> \o log_msg_fifo \in Seq(Pointers)
  BY <1>1
<1> QED
  BY <1>1, <1>2 DEF OnTheWay, Pending

LEMMA PendingIsNext ==
  ASSUME LInv, [Next]_vars
  PROVE  Pending' = Delivered(OnTheWay')
<1> QED
  BY DEF OnTheWay, Pending

(* The handler starts as an open channel with nothing on its way. *)
LEMMA InitMaps == Init => Channel!Init
<1> SUFFICES ASSUME Init PROVE Channel!Init
  OBVIOUS
<1>1. Pending = Delivered(<<>>)
  BY DEF Init, Pending
<1>2. sink = <<>> /\ (destructor # "destroyed") = TRUE
  BY DEF Init
<1> QED
  BY <1>1, <1>2, DeliveredEmpty DEF Channel!Init

(* A step that changes neither the queue, what the task holds nor the sink *)
(* is invisible.                                                           *)
LEMMA Invisible ==
  ASSUME OnTheWay' = OnTheWay, sink' = sink,
         (destructor' # "destroyed") = (destructor # "destroyed")
  PROVE  UNCHANGED Channel!vars
<1>1. Pending' = Pending
  BY DEF Pending, OnTheWay
<1> QED
  BY <1>1 DEF Channel!vars

(* Every step of the handler is one of the channel, or none: a push        *)
(* accepts, the task's call of the sink delivers, the destructor's return  *)
(* closes.                                                                 *)
LEMMA StepMaps ==
  ASSUME LInv, [Next]_vars
  PROVE  [Channel!Next]_(Channel!vars)
<1>1. TypeOK /\ OnTheWay \in Seq(Pointers) /\ Pending = Delivered(OnTheWay)
  BY PendingIs DEF LInv
<1>2. Pending' = Delivered(OnTheWay')
  BY PendingIsNext
<1>3. CASE UNCHANGED vars
  BY <1>3, Invisible DEF vars, OnTheWay
<1>4. ASSUME NEW t \in Threads, Push(t) PROVE [Channel!Next]_(Channel!vars)
  <2>1. PICK e \in Pointers : log_msg_fifo' = Append(log_msg_fifo, e)
    BY <1>1, <1>4, Pushed
  <2>2. task' = task /\ entry' = entry /\ sink' = sink /\ destructor' = destructor
    BY <1>4 DEF Push
  <2>3. destructor = "alive"
    BY <1>4 DEF LInv, Push
  <2>4. entry \in Pointers /\ log_msg_fifo \in Seq(Pointers)
    BY <1>1 DEF TypeOK, Pointers
  <2>5. <<entry>> \o Append(log_msg_fifo, e) = Append(<<entry>> \o log_msg_fifo, e)
    BY <2>1, <2>4
  <2>6. OnTheWay' = Append(OnTheWay, e)
    BY <2>1, <2>2, <2>5 DEF OnTheWay
  <2>7. Pending' = IF e = NoEntry THEN Pending ELSE Append(Pending, e)
    BY <1>1, <1>2, <2>1, <2>6, DeliveredAppend
  <2>8. CASE e = NoEntry
    BY <2>2, <2>7, <2>8 DEF Channel!vars
  <2>9. CASE e # NoEntry
    <3>1. e \in Entries
      BY <2>9 DEF Pointers
    <3>2. Channel!Accept(e)
      BY <2>2, <2>3, <2>7, <2>9 DEF Channel!Accept
    <3> QED
      BY <3>1, <3>2 DEF Channel!Next
  <2> QED
    BY <2>8, <2>9
<1>5. ASSUME NEW t \in Threads, NotifyOne(t) PROVE [Channel!Next]_(Channel!vars)
  BY <1>5, Invisible DEF NotifyOne, Notify, OnTheWay
<1>6. ASSUME NEW t \in Threads, Release(t) PROVE [Channel!Next]_(Channel!vars)
  BY <1>6, Invisible DEF Release, OnTheWay
<1>7. CASE TaskLock
  BY <1>7, Invisible DEF TaskLock, OnTheWay
<1>8. CASE TaskWait
  BY <1>8, Invisible DEF TaskWait, OnTheWay
<1>9. CASE TaskTake
  <2>1. <<Head(log_msg_fifo)>> \o Tail(log_msg_fifo) = log_msg_fifo
    BY <1>1, <1>9 DEF TaskTake, TypeOK
  <2>2. OnTheWay' = OnTheWay
    BY <1>9, <2>1 DEF TaskTake, OnTheWay
  <2> QED
    BY <1>9, <2>2, Invisible DEF TaskTake
<1>10. CASE TaskDeliver
  <2>1. entry \in Pointers /\ log_msg_fifo \in Seq(Pointers)
    BY <1>1 DEF TypeOK, Pointers
  <2>2. OnTheWay = <<entry>> \o log_msg_fifo /\ OnTheWay' = log_msg_fifo
    BY <1>10 DEF TaskDeliver, OnTheWay
  <2>3. Pending = IF entry = NoEntry THEN Pending' ELSE <<entry>> \o Pending'
    BY <1>1, <1>2, <2>1, <2>2, DeliveredFront
  <2>4. Pending' \in Seq(Entries)
    BY <1>2, <2>1, <2>2, DeliveredType
  <2>5. destructor' = destructor
    BY <1>10 DEF TaskDeliver
  <2>6. CASE entry = NoEntry
    BY <1>10, <2>3, <2>5, <2>6 DEF TaskDeliver, Channel!vars
  <2>7. CASE entry # NoEntry
    <3>1. entry \in Entries
      BY <2>1, <2>7 DEF Pointers
    <3>2. Pending # <<>> /\ Head(Pending) = entry /\ Tail(Pending) = Pending'
      BY <2>3, <2>4, <2>7, <3>1
    <3>3. sink' = Append(sink, entry)
      BY <1>10, <2>7 DEF TaskDeliver
    <3>4. Channel!Deliver
      BY <2>5, <3>2, <3>3 DEF Channel!Deliver
    <3> QED
      BY <3>4 DEF Channel!Next
  <2> QED
    BY <2>6, <2>7
<1>11. CASE TaskEnd
  BY <1>11, Invisible DEF TaskEnd, OnTheWay
<1>12. CASE SpuriousWakeup
  BY <1>12, Invisible DEF SpuriousWakeup, OnTheWay
<1>13. CASE Stop
  BY <1>13, Invisible DEF Stop, OnTheWay
<1>14. CASE NotifyAll
  BY <1>14, Invisible DEF NotifyAll, Notify, OnTheWay
<1>15. CASE Join
  <2>1. OnTheWay = <<>> /\ OnTheWay' = OnTheWay
    BY <1>15 DEF LInv, Join, OnTheWay
  <2>2. Pending = <<>> /\ Pending' = Pending
    BY <1>1, <1>2, <2>1, DeliveredEmpty
  <2>3. Channel!Close
    BY <1>15, <2>2 DEF Join, Channel!Close
  <2> QED
    BY <2>3 DEF Channel!Next
<1> QED
  BY <1>3, <1>4, <1>5, <1>6, <1>7, <1>8, <1>9, <1>10, <1>11, <1>12, <1>13, <1>14, <1>15
     DEF Next, ThreadStep, TaskStep, Destroy

(* LoggerHandler is a LogChannel: for any threads and any number of        *)
(* entries, an accepted entry reaches the sink once and in its turn, and   *)
(* the destructor returns only when nothing is on its way.  (That every    *)
(* entry gets there is the fairness part of ImplementsChannel.)            *)
THEOREM ChannelImplemented ==
  Spec => Channel!Init /\ [][Channel!Next]_(Channel!vars)
<1>1. Init => Channel!Init
  BY InitMaps
<1>2. LInv /\ [Next]_vars => [Channel!Next]_(Channel!vars)
  BY StepMaps
<1> QED
  BY <1>1, <1>2, InvariantHolds, PTL DEF Spec
=============================================================================
