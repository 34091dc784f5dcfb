----------------------------- MODULE MTQueueProofs -----------------------------
(***************************************************************************)
(* Proofs about MTQueue, for any number of threads and of items.           *)
(***************************************************************************)
EXTENDS MTQueue, SequenceTheorems, FiniteSetTheorems, TLAPS

(* The queue holds the items between the last popped and the last pushed. *)
Fifo ==
  /\ Len(queue) = pushed - popped
  /\ \A i \in 1 .. Len(queue) : queue[i] = popped + i

(* One thread at a time is inside the mutex. *)
Mutex == \A t, u \in Threads : Holds(t) /\ Holds(u) => t = u

(* A consumer that found the queue empty keeps the mutex until it sleeps. *)
WaitsOnEmpty == \A c \in Consumers : pc[c] = "wait" => queue = <<>>

QueueInv == TypeOK /\ (~raced => Fifo) /\ Mutex /\ WaitsOnEmpty /\ TakesAnItem
--------------------------------------------------------------------------------
LEMMA AppendItem ==
  ASSUME NEW n \in Nat, NEW q \in Seq(1 .. n)
  PROVE  /\ Append(q, n + 1) \in Seq(1 .. (n + 1))
         /\ Len(Append(q, n + 1)) = Len(q) + 1
         /\ \A i \in 1 .. Len(q) : Append(q, n + 1)[i] = q[i]
         /\ Append(q, n + 1)[Len(q) + 1] = n + 1
<1>1. q \in Seq(Nat) /\ Append(q, n + 1) \in Seq(Nat)
  OBVIOUS
<1>2. \A i \in 1 .. Len(q) : q[i] \in 1 .. n
  BY ElementOfSeq
<1>3. \A i \in 1 .. (Len(q) + 1) : Append(q, n + 1)[i] \in 1 .. (n + 1)
  BY <1>1, <1>2
<1>4. QED
  BY <1>1, <1>3

LEMMA RemoveItem ==
  ASSUME NEW S, NEW q \in Seq(S), q # <<>>
  PROVE  /\ Head(q) = q[1] /\ Len(q) \in Nat \ {0}
         /\ Tail(q) \in Seq(S)
         /\ Len(Tail(q)) = Len(q) - 1
         /\ \A i \in 1 .. Len(Tail(q)) : Tail(q)[i] = q[i + 1]
OBVIOUS

LEMMA QueueInit == Init => QueueInv
<1> SUFFICES ASSUME Init PROVE QueueInv
  OBVIOUS
<1>1. queue \in Seq(1 .. pushed) /\ Len(queue) = 0
  BY EmptySeq DEF Init
<1>2. Fifo
  BY <1>1 DEF Fifo, Init
<1>3. QED
  BY <1>1, <1>2, MTQueueAssumption
  DEF Init, QueueInv, TypeOK, Mutex, WaitsOnEmpty, TakesAnItem, Holds, Threads, PcStates

(* What an action does that takes an item out of the queue. *)
LEMMA Popping ==
  ASSUME TypeOK, Fifo, queue # <<>>, popped' = Head(queue), queue' = Tail(queue), UNCHANGED pushed
  PROVE  /\ queue' \in Seq(1 .. pushed') /\ popped' \in Nat
         /\ Fifo'
         /\ popped' = popped + 1 /\ popped < pushed
         /\ Len(queue') = Len(queue) - 1
<1> USE DEF TypeOK, Fifo
<1>1. /\ Head(queue) = queue[1] /\ Len(queue) \in Nat \ {0}
      /\ Tail(queue) \in Seq(1 .. pushed) /\ Len(Tail(queue)) = Len(queue) - 1
      /\ \A i \in 1 .. Len(Tail(queue)) : Tail(queue)[i] = queue[i + 1]
  BY RemoveItem
<1>2. popped' = popped + 1
  BY <1>1
<1>3. ASSUME NEW i \in 1 .. Len(queue') PROVE queue'[i] = popped' + i
  <2>1. queue'[i] = queue[i + 1] /\ i + 1 \in 1 .. Len(queue) /\ i \in Nat
    BY <1>1
  <2>2. queue[i + 1] = popped + (i + 1)
    BY <2>1
  <2>3. popped + (i + 1) = (popped + 1) + i
    BY <2>1
  <2>4. QED
    BY <1>2, <2>1, <2>2, <2>3
<1>4. QED
  BY <1>1, <1>2, <1>3

LEMMA Pushing ==
  ASSUME TypeOK, Fifo, queue' = Append(queue, pushed + 1), pushed' = pushed + 1, UNCHANGED popped
  PROVE  queue' \in Seq(1 .. pushed') /\ Fifo' /\ Len(queue') = Len(queue) + 1
<1> USE DEF TypeOK, Fifo
<1>1. /\ queue' \in Seq(1 .. pushed')
      /\ Len(queue') = Len(queue) + 1
      /\ \A i \in 1 .. Len(queue) : queue'[i] = queue[i]
      /\ queue'[Len(queue) + 1] = pushed + 1
  BY AppendItem
<1>2. Len(queue) \in Nat
  OBVIOUS
<1>3. ASSUME NEW i \in 1 .. Len(queue') PROVE queue'[i] = popped' + i
  <2>1. CASE i \in 1 .. Len(queue)
    BY <1>1, <2>1
  <2>2. CASE i = Len(queue) + 1
    BY <1>1, <1>2, <2>2
  <2>3. QED
    BY <1>1, <1>2, <2>1, <2>2
<1>4. QED
  BY SMTT(20), <1>1, <1>2, <1>3

(* An old item or none comes back, in a queue of at most one: all well typed. *)
LEMMA TakingUndefined ==
  ASSUME TypeOK, TakeUndefined, UNCHANGED pushed
  PROVE  queue' \in Seq(1 .. pushed') /\ popped' \in Nat
<1>1. pushed \in Nat /\ popped' \in Nat
  BY DEF TypeOK, TakeUndefined
<1>2. CASE queue' = <<>>
  BY <1>1, <1>2
<1>3. ASSUME NEW i \in 1 .. pushed, queue' = <<i>> PROVE queue' \in Seq(1 .. pushed')
  BY <1>1, <1>3
<1>4. QED
  BY <1>1, <1>2, <1>3 DEF TakeUndefined

LEMMA QueueNext == QueueInv /\ [Next]_vars => QueueInv'
<1> SUFFICES ASSUME QueueInv, [Next]_vars PROVE QueueInv'
  OBVIOUS
<1> USE MTQueueAssumption
    DEF QueueInv, Mutex, WaitsOnEmpty, TakesAnItem, Holds, MutexFree, Threads
<1>1. ASSUME NEW p \in Producers, PushItem(p) PROVE QueueInv'
  <2>1. queue' \in Seq(1 .. pushed') /\ (~raced' => Fifo')
    <3>1. queue' \in Seq(1 .. pushed')
      BY <1>1, AppendItem DEF PushItem, TypeOK
    <3>2. QED
      BY <1>1, <3>1, Pushing DEF PushItem
  <2>2. \A c \in Consumers : pc[c] # "take"
    BY <1>1 DEF PushItem
  <2>3. QED
    BY <1>1, <2>1, <2>2 DEF PushItem, TypeOK, PcStates
<1>2. ASSUME NEW p \in Producers, NotifyOne(p) PROVE QueueInv'
  <2>1. CASE Asleep = {}
    BY <1>2, <2>1 DEF NotifyOne, TypeOK, PcStates, Fifo
  <2>2. ASSUME NEW c \in Asleep, pc' = [pc EXCEPT ![p] = "idle", ![c] = "relock"]
        PROVE  QueueInv'
    <3>1. c \in Consumers /\ c \notin Producers
      BY DEF Asleep
    <3>2. TypeOK' /\ (~raced' => Fifo')
      BY <1>2, <2>2, <3>1 DEF NotifyOne, TypeOK, PcStates, Fifo
    <3>3. QED
      BY <1>2, <2>2, <3>1, <3>2 DEF NotifyOne, TypeOK, PcStates
  <2>3. QED
    BY <1>2, <2>1, <2>2 DEF NotifyOne
<1>3. ASSUME NEW c \in Consumers, Lock(c) PROVE QueueInv'
  BY <1>3 DEF Lock, TypeOK, PcStates, Fifo
<1>4. ASSUME NEW c \in Consumers, Test(c) PROVE QueueInv'
  BY <1>4 DEF Test, TypeOK, PcStates, Fifo
<1>5. ASSUME NEW c \in Consumers, Wait(c) PROVE QueueInv'
  BY <1>5 DEF Wait, TypeOK, PcStates, Fifo
<1>6. ASSUME NEW c \in Consumers, Relock(c) PROVE QueueInv'
  BY <1>6 DEF Relock, TypeOK, PcStates, Fifo
<1>7. ASSUME NEW c \in Consumers, Take(c) PROVE QueueInv'
  <2>1. queue' \in Seq(1 .. pushed') /\ popped' \in Nat
    <3>1. CASE interrupted
      BY <1>7, <3>1 DEF Take, TypeOK
    <3>2. CASE queue # <<>> /\ queue' = Tail(queue) /\ popped' = Head(queue)
      BY <1>7, <3>2 DEF Take, TypeOK
    <3>3. CASE TakeUndefined
      BY <1>7, <3>3, TakingUndefined DEF Take
    <3>4. QED
      BY <1>7, <3>1, <3>2, <3>3 DEF Take
  <2>2. ~raced' => Fifo'
    BY <1>7, Popping DEF Take, Fifo
  <2>3. QED
    BY <1>7, <2>1, <2>2 DEF Take, TypeOK, PcStates
<1>8. ASSUME NEW c \in Consumers, WakeSpuriously(c) PROVE QueueInv'
  BY <1>8 DEF WakeSpuriously, TypeOK, PcStates, Fifo
<1>9. ASSUME NEW c \in Consumers, TryPop(c) PROVE QueueInv'
  <2>1. queue' \in Seq(1 .. pushed') /\ popped' \in Nat
    BY <1>9 DEF TryPop, TypeOK
  <2>2. ~raced' => Fifo'
    BY <1>9, Popping DEF TryPop
  <2>3. QED
    BY <1>9, <2>1, <2>2 DEF TryPop, TypeOK
<1>10. CASE Interrupt \/ ResetInterruption
  BY <1>10 DEF Interrupt, ResetInterruption, TypeOK, Fifo
<1>11. CASE NotifyAll
  BY <1>11 DEF NotifyAll, Asleep, TypeOK, PcStates, Fifo
<1>12. CASE UNCHANGED vars
  BY <1>12 DEF vars, TypeOK, Fifo
<1>13. QED
  BY <1>1, <1>2, <1>3, <1>4, <1>5, <1>6, <1>7, <1>8, <1>9, <1>10, <1>11, <1>12 DEF Next, Push, Pop

(* The numbering of the items, the mutual exclusion and the consumer that is  *)
(* about to sleep are invariant together.                                    *)
THEOREM QueueInvariant == Spec => []QueueInv
<1>1. QED
  BY QueueInit, QueueNext, PTL DEF Spec

(* MTQueue's threads, mutex and queue keep their types, interrupted or not. *)
THEOREM QueueTypeCorrect == Spec => []TypeOK
<1>1. QueueInv => TypeOK
  BY DEF QueueInv
<1>2. QED
  BY <1>1, QueueInvariant, PTL

(* However its threads interleave, and whoever interrupts and resets it, the  *)
(* queue delivers each item once, in the order of the pushes, until a reset   *)
(* comes between the two tests of somebody's pop.                            *)
THEOREM ImplementsTaskQueue == Spec => AtomicSpec
<1>1. Init => Atomic!Init
  BY DEF Init, Atomic!Init
<1>2. QueueInv /\ [Next]_vars => [Atomic!Next]_(Atomic!vars)
  <2> SUFFICES ASSUME QueueInv, [Next]_vars PROVE [Atomic!Next]_(Atomic!vars)
    OBVIOUS
  <2> USE DEF QueueInv, Atomic!Next, Atomic!Push, Atomic!Pop, Atomic!Reset, Atomic!Undefined,
              Atomic!vars
  <2>1. ASSUME NEW p \in Producers, Push(p) PROVE [Atomic!Next]_(Atomic!vars)
    BY <2>1 DEF Push, PushItem, NotifyOne
  <2>2. ASSUME NEW c \in Consumers, Take(c) \/ TryPop(c) PROVE [Atomic!Next]_(Atomic!vars)
    <3>1. CASE raced
      BY <2>2, <3>1 DEF Take, TryPop
    <3>2. CASE ~raced
      BY <2>2, <3>2, Popping DEF Take, TryPop, TakesAnItem
    <3>3. QED
      BY <3>1, <3>2
  <2>3. ASSUME NEW c \in Consumers, Lock(c) \/ Test(c) \/ Wait(c) \/ Relock(c) \/ WakeSpuriously(c)
        PROVE  [Atomic!Next]_(Atomic!vars)
    BY <2>3 DEF Lock, Test, Wait, Relock, WakeSpuriously
  <2>4. CASE Interrupt \/ NotifyAll \/ UNCHANGED vars
    BY <2>4 DEF Interrupt, NotifyAll, vars
  <2>5. CASE ResetInterruption
    BY <2>5 DEF ResetInterruption, TypeOK
  <2>6. QED
    BY <2>1, <2>2, <2>3, <2>4, <2>5 DEF Next, Pop
<1>3. QED
  BY <1>1, <1>2, QueueInvariant, PTL DEF Spec, AtomicSpec, Atomic!Spec

(* A consumer that left the wait finds an item or an interruption: what pop    *)
(* tested still holds when it takes, unless somebody reset in between.        *)
THEOREM PopTakesAnItem == Spec => []TakesAnItem
<1>1. QueueInv => TakesAnItem
  BY DEF QueueInv
<1>2. QED
  BY <1>1, QueueInvariant, PTL
--------------------------------------------------------------------------------
(* Nobody interrupted, so nobody reset. *)
DaemonInv == Undisturbed => ~interrupted /\ ~raced

LEMMA DaemonInit == Init => DaemonInv
BY DEF Init, DaemonInv

LEMMA DaemonNext == DaemonInv /\ [Next]_vars => DaemonInv'
BY DEF DaemonInv, Undisturbed, Next, Push, Pop, PushItem, NotifyOne, Lock, Test, Wait, Relock, Take,
       WakeSpuriously, TryPop, Interrupt, NotifyAll, ResetInterruption, vars

LEMMA DaemonInvariant == Spec => []DaemonInv
BY DaemonInit, DaemonNext, PTL DEF Spec
--------------------------------------------------------------------------------
LEMMA ThreadsAreCounted ==
  \A S \in SUBSET Threads : IsFiniteSet(S) /\ Cardinality(S) \in Nat
<1>1. IsFiniteSet(Threads)
  BY MTQueueAssumption, FS_Union DEF Threads
<1>2. QED
  BY <1>1, FS_Subset, FS_CardinalityType

LEMMA WakeupInit == Init => NoLostWakeup
BY MTQueueAssumption DEF Init, NoLostWakeup, Asleep, Threads

LEMMA WakeupNext ==
  QueueInv /\ DaemonInv /\ NoLostWakeup /\ [Next]_vars => NoLostWakeup'
<1> SUFFICES ASSUME QueueInv, DaemonInv, NoLostWakeup, [Next]_vars, Undisturbed'
             PROVE  NoLostWakeup'
  BY DEF NoLostWakeup
<1> DEFINE N == Notifying
           A == Awake
<1>a. /\ IsFiniteSet(N) /\ Cardinality(N) \in Nat
      /\ IsFiniteSet(A) /\ Cardinality(A) \in Nat
  <2>1. N \in SUBSET Threads /\ A \in SUBSET Threads
    BY DEF Notifying, Awake, Threads
  <2>2. QED
    BY <2>1, ThreadsAreCounted
<1>g. Cardinality(N') \in Nat /\ Cardinality(A') \in Nat
  <2>1. N' \in SUBSET Threads /\ A' \in SUBSET Threads
    BY DEF Notifying, Awake, Threads
  <2>2. QED
    BY <2>1, ThreadsAreCounted
<1>b. Len(queue) \in Nat /\ (queue = <<>> => Len(queue) = 0)
  BY DEF QueueInv, TypeOK
<1>c. pc \in [Threads -> PcStates]
  BY DEF QueueInv, TypeOK
<1>d. \A p \in Producers : pc[p] \in {"idle", "notify"} /\ p \notin Consumers
  BY MTQueueAssumption DEF QueueInv, TypeOK
<1>e. Undisturbed /\ ~interrupted /\ ~Interrupt /\ ~NotifyAll /\ ~ResetInterruption
  BY DEF DaemonInv, Undisturbed, Next, Push, Pop, PushItem, NotifyOne, Lock, Test, Wait, Relock, Take,
         WakeSpuriously, TryPop, Interrupt, NotifyAll, ResetInterruption, vars
<1>f. Asleep # {} => Len(queue) <= Cardinality(N) + Cardinality(A)
  BY <1>e DEF NoLostWakeup
<1> USE DEF Threads
<1>1. ASSUME NEW p \in Producers, PushItem(p) PROVE NoLostWakeup'
  <2>1. N' = N \cup {p} /\ p \notin N /\ A' = A /\ Asleep' = Asleep
    BY <1>1, <1>c, <1>d DEF PushItem, Notifying, Awake, Asleep
  <2>2. Cardinality(N') = Cardinality(N) + 1
    BY <2>1, <1>a, FS_AddElement
  <2>3. Len(queue') = Len(queue) + 1
    BY <1>1, AppendItem DEF PushItem, QueueInv, TypeOK
  <2>4. QED
    BY <2>1, <2>2, <2>3, <1>a, <1>b, <1>f DEF NoLostWakeup
<1>2. ASSUME NEW p \in Producers, NotifyOne(p) PROVE NoLostWakeup'
  <2>1. CASE Asleep = {}
    BY <1>2, <2>1, <1>c, <1>d DEF NotifyOne, Asleep, NoLostWakeup
  <2>2. CASE Asleep # {}
    <3>1. PICK c \in Asleep : pc' = [pc EXCEPT ![p] = "idle", ![c] = "relock"]
      BY <1>2, <2>2 DEF NotifyOne
    <3>2. N' = N \ {p} /\ p \in N /\ A' = A \cup {c} /\ c \notin A /\ queue' = queue
      BY <1>2, <3>1, <1>c, <1>d DEF NotifyOne, Asleep, Notifying, Awake
    <3>3. Cardinality(N') = Cardinality(N) - 1 /\ Cardinality(A') = Cardinality(A) + 1
      BY <3>2, <1>a, FS_RemoveElement, FS_AddElement
    <3>4. QED
      BY <2>2, <3>2, <3>3, <1>a, <1>b, <1>f DEF NoLostWakeup
  <2>3. QED
    BY <2>1, <2>2
<1>3. ASSUME NEW c \in Consumers, Lock(c) \/ WakeSpuriously(c) PROVE NoLostWakeup'
  <2>1. N' = N /\ A' = A \cup {c} /\ c \notin A /\ queue' = queue /\ Asleep' \subseteq Asleep
    BY <1>3, <1>c, <1>d DEF Lock, WakeSpuriously, Asleep, Notifying, Awake
  <2>2. Cardinality(A') = Cardinality(A) + 1
    BY <2>1, <1>a, FS_AddElement
  <2>3. QED
    BY <2>1, <2>2, <1>a, <1>b, <1>f DEF NoLostWakeup
<1>4. ASSUME NEW c \in Consumers, Test(c) PROVE NoLostWakeup'
  <2>1. CASE queue = <<>>
    <3>1. queue' = <<>>
      BY <1>4, <2>1 DEF Test
    <3>2. QED
      BY <3>1, <1>b, <1>g, EmptySeq DEF NoLostWakeup
  <2>2. CASE queue # <<>>
    <3>1. N' = N /\ A' = A /\ queue' = queue /\ Asleep' = Asleep
      BY <1>4, <2>2, <1>c, <1>d DEF Test, Asleep, Notifying, Awake
    <3>2. QED
      BY <3>1, <1>f DEF NoLostWakeup
  <2>3. QED
    BY <2>1, <2>2
<1>5. ASSUME NEW c \in Consumers, Wait(c) PROVE NoLostWakeup'
  <2>1. queue' = <<>>
    BY <1>5 DEF Wait, QueueInv, WaitsOnEmpty
  <2>2. QED
    BY <2>1, <1>g, EmptySeq DEF NoLostWakeup
<1>6. ASSUME NEW c \in Consumers, Relock(c) PROVE NoLostWakeup'
  <2>1. N' = N /\ A' = A /\ queue' = queue /\ Asleep' = Asleep
    BY <1>6, <1>c, <1>d DEF Relock, Asleep, Notifying, Awake
  <2>2. QED
    BY <2>1, <1>f DEF NoLostWakeup
<1>7. ASSUME NEW c \in Consumers, Take(c) PROVE NoLostWakeup'
  <2>1. queue # <<>> /\ popped' = Head(queue) /\ queue' = Tail(queue) /\ UNCHANGED pushed
    BY <1>7, <1>e DEF Take, QueueInv, TakesAnItem, DaemonInv
  <2>2. Len(queue') = Len(queue) - 1
    BY <2>1, RemoveItem DEF QueueInv, TypeOK
  <2>3. N' = N /\ A' = A \ {c} /\ c \in A /\ Asleep' = Asleep
    BY <1>7, <1>c, <1>d DEF Take, Asleep, Notifying, Awake
  <2>4. Cardinality(A') = Cardinality(A) - 1
    BY <2>3, <1>a, FS_RemoveElement
  <2>5. QED
    BY <2>2, <2>3, <2>4, <1>a, <1>b, <1>f DEF NoLostWakeup
<1>8. ASSUME NEW c \in Consumers, TryPop(c) PROVE NoLostWakeup'
  <2>1. Len(queue') = Len(queue) - 1
    BY <1>8, RemoveItem DEF TryPop, QueueInv, TypeOK
  <2>2. N' = N /\ A' = A /\ Asleep' = Asleep
    BY <1>8 DEF TryPop, Asleep, Notifying, Awake
  <2>3. QED
    BY <2>1, <2>2, <1>a, <1>b, <1>f DEF NoLostWakeup
<1>9. ASSUME UNCHANGED vars PROVE NoLostWakeup'
  <2>1. N' = N /\ A' = A /\ queue' = queue /\ Asleep' = Asleep
    BY <1>9 DEF vars, Asleep, Notifying, Awake
  <2>2. QED
    BY <2>1, <1>f DEF NoLostWakeup
<1>10. QED
  BY <1>1, <1>2, <1>3, <1>4, <1>5, <1>6, <1>7, <1>8, <1>9, <1>e DEF Next, Push, Pop

(* As long as nobody interrupts, while a consumer sleeps every queued item    *)
(* has a notification under way or a consumer awake: notifying one thread,    *)
(* after the mutex is released, is enough for any number of both.            *)
THEOREM WakeupsSuffice == Spec => []NoLostWakeup
<1>1. QED
  BY WakeupInit, WakeupNext, QueueInvariant, DaemonInvariant, PTL DEF Spec
================================================================================
