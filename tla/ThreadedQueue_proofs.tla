------------------------ MODULE ThreadedQueue_proofs ------------------------
(***************************************************************************)
(* Theorems about ThreadedQueue.  Type correctness holds for every use of  *)
(* the queue; the safety invariants are proved for the use the SDK makes   *)
(* of it, in which stop() never drains (TRUE \notin FinishWork), for every *)
(* depth, every number of items and every number of restarts.              *)
(***************************************************************************)
EXTENDS ThreadedQueue, TLAPS, SequenceTheorems

USE ConstantsAssumption
USE DEF Nobody, NoItem, WorkerPcs, ReaderPcs, OwnerPcs, TooDeep, Pushed, Popped, MustWait,
    StopRefuses, Drained, JoinWaits

\* A thread holds queue_mutex exactly while it is inside a critical section.
MutexInv ==
    /\ mutex = "worker" <=> workerPc \in {"take", "pop", "test", "enterWait"}
    /\ mutex = "reader" <=> readerPc = "push"

\* The std::thread object is joinable exactly while the worker exists, and
\* the owner is inside start() or stop() only while it does.
OwnerInv ==
    /\ joinable <=> workerPc # "none"
    /\ ~joinable => ownerPc = "idle"
    /\ corrupted => ownerPc \in {"notify", "join"}
    /\ ownerPc \in {"preStop", "swap", "notify", "join"} => stopRequested
    /\ ownerPc \in {"swap", "notify", "join"} => stopping
    /\ ownerPc \in {"idle", "postStop", "preStop", "swap", "notify", "join"}
    /\ ~drained

\* A reader past the size test has room, or will have once the pop it raced
\* with is done.
DepthInv ==
    /\ Len(queue) <= MaxDepth + 1
    /\ readerPc \in {"lock", "push"} /\ workerPc # "pop" => Len(queue) <= MaxDepth

\* The order of InOrder, with the item the worker copied and not yet popped.
OrderInv ==
    /\ delivered <= accepted
    /\ \A i \in 1 .. Len(queue) : delivered < queue[i] /\ queue[i] <= accepted
    /\ \A i, j \in 1 .. Len(queue) : i < j => queue[i] < queue[j]
    /\ workerPc \in {"pop", "call"} => delivered < workerItem /\ workerItem <= accepted
    /\ workerPc = "pop" /\ queue # <<>> => workerItem = queue[1]
    /\ workerPc = "call" => \A i \in 1 .. Len(queue) : workerItem < queue[i]

InFlight == IF readerPc = "idle" THEN 0 ELSE 1

\* From the swap of stop() on, at most one item is left or on its way.
SurvivorInv ==
    (~joinable \/ (ownerPc \in {"notify", "join"} /\ ~corrupted))
        => Len(queue) + InFlight <= 1

\* Only the swap empties the deque under a worker that is about to pop.
PopInv == workerPc = "pop" /\ queue = <<>> => ownerPc \in {"notify", "join"}

\* A worker asleep, or falling asleep, while stop() joins it was not notified.
NotifyInv == ownerPc = "join" /\ workerPc \in {"enterWait", "waiting"} => missedNotify

IInv ==
    /\ TypeOK /\ MutexInv /\ OwnerInv /\ DepthInv /\ OrderInv /\ SurvivorInv
    /\ PopInv /\ NotifyInv

----------------------------------------------------------------------------
(* Facts about the deque *)

\* pop() removes the front and moves every other item up by one.
LEMMA TailFacts ==
    ASSUME NEW s \in Seq(Nat \ {0}), s # <<>>
    PROVE  /\ Tail(s) \in Seq(Nat \ {0})
           /\ Head(s) = s[1] /\ Head(s) \in Nat \ {0}
           /\ Len(s) >= 1 /\ Len(Tail(s)) = Len(s) - 1
           /\ \A i \in 1 .. Len(Tail(s)) : Tail(s)[i] = s[i + 1]
<1>1. Len(s) \in Nat /\ Len(s) # 0
  BY EmptySeq
<1> QED
  BY <1>1, HeadTailProperties

\* push() adds at the back and leaves every other item in place.
LEMMA AppendFacts ==
    ASSUME NEW s \in Seq(Nat \ {0}), NEW e \in Nat \ {0}
    PROVE  /\ Append(s, e) \in Seq(Nat \ {0})
           /\ Len(Append(s, e)) = Len(s) + 1
           /\ \A i \in 1 .. Len(s) : Append(s, e)[i] = s[i]
           /\ Append(s, e)[Len(s) + 1] = e
BY AppendProperties

----------------------------------------------------------------------------
(* Type correctness *)

\* The types hold initially and every step keeps them.
LEMMA TypeInit == Init => TypeOK
<1>1. <<>> \in Seq(Nat \ {0})
  BY EmptySeq
<1>2. 0 \in Nat
  OBVIOUS
<1> QED
  BY <1>1, <1>2, Zenon DEF Init, TypeOK

LEMMA TypeStep == TypeOK /\ [Next]_vars => TypeOK'
<1> SUFFICES ASSUME TypeOK, [Next]_vars PROVE TypeOK'
  OBVIOUS
<1> USE DEF TypeOK
<1>1. CASE Reader
  <2>1. CASE EnqueueTestFlags BY <2>1 DEF EnqueueTestFlags, flags
  <2>2. CASE EnqueueTestSize BY <2>2 DEF EnqueueTestSize, flags
  <2>3. CASE EnqueueLock BY <2>3 DEF EnqueueLock, flags
  <2>4. CASE EnqueuePush
    BY <2>4, AppendFacts DEF EnqueuePush, Notified, flags
  <2> QED BY <1>1, <2>1, <2>2, <2>3, <2>4 DEF Reader
<1>2. CASE Worker
  <2>1. CASE WorkerLoop BY <2>1 DEF WorkerLoop, flags
  <2>2. CASE WorkerLock BY <2>2 DEF WorkerLock, flags
  <2>3. CASE WorkerTake BY <2>3, TailFacts DEF WorkerTake, flags
  <2>4. CASE WorkerPop
    <3>1. queue' \in Seq(Nat \ {0}) BY <2>4, TailFacts DEF WorkerPop
    <3>2. corrupted' \in BOOLEAN BY <2>4, Zenon DEF WorkerPop
    <3>3. mutex' \in {Nobody, "reader", "worker"} /\ workerPc' \in WorkerPcs
      BY <2>4 DEF WorkerPop
    <3>4. UNCHANGED <<flags, readerPc, ownerPc, workerItem, ownerItem, accepted, delivered,
                      starts, missedNotify>>
      BY <2>4, Zenon DEF WorkerPop
    <3> HIDE DEF WorkerPcs, ReaderPcs, OwnerPcs, Nobody, NoItem
    <3> QED BY <3>1, <3>2, <3>3, <3>4, Zenon DEF flags
  <2>5. CASE WorkerCall BY <2>5 DEF WorkerCall, flags
  <2>6. CASE WorkerTest BY <2>6 DEF WorkerTest, flags
  <2>7. CASE WorkerWait BY <2>7 DEF WorkerWait, flags
  <2>8. CASE WorkerWake BY <2>8 DEF WorkerWake, flags
  <2> QED BY <1>2, <2>1, <2>2, <2>3, <2>4, <2>5, <2>6, <2>7, <2>8 DEF Worker
<1>3. CASE SpuriousWakeup BY <1>3 DEF SpuriousWakeup, flags
<1>4. CASE Owner
  <2>1. CASE SetDequeueCallback BY <2>1 DEF SetDequeueCallback
  <2>2. CASE Start
    <3>1. starts' \in Nat BY <2>2 DEF Start
    <3> QED BY <2>2, <3>1, Zenon DEF Start
  <2>3. CASE PostStop
    <3>1. ownerPc' \in OwnerPcs BY <2>3 DEF PostStop
    <3>2. /\ stopping' = FALSE
          /\ UNCHANGED <<queue, mutex, stopRequested, joinable, callback, workerPc, readerPc,
                         workerItem, ownerItem, accepted, delivered, starts, missedNotify,
                         drained, corrupted>>
      BY <2>3, Zenon DEF PostStop
    <3> HIDE DEF WorkerPcs, ReaderPcs, OwnerPcs, Nobody, NoItem
    <3> QED BY <3>1, <3>2, Zenon
  <2>4. CASE Stop BY <2>4 DEF Stop
  <2>5. CASE PreStop BY <2>5 DEF PreStop
  <2>6. CASE DrainTake BY <2>6, TailFacts DEF DrainTake, flags
  <2>7. CASE DrainPop
    <3>1. queue' \in Seq(Nat \ {0}) BY <2>7, TailFacts DEF DrainPop
    <3>2. corrupted' \in BOOLEAN BY <2>7, Zenon DEF DrainPop
    <3>3. ownerPc' \in OwnerPcs BY <2>7 DEF DrainPop
    <3>4. UNCHANGED <<mutex, flags, workerPc, readerPc, workerItem, ownerItem, accepted,
                      delivered, starts, missedNotify>>
      BY <2>7, Zenon DEF DrainPop
    <3> HIDE DEF WorkerPcs, ReaderPcs, OwnerPcs, Nobody, NoItem
    <3> QED BY <3>1, <3>2, <3>3, <3>4, Zenon DEF flags
  <2>8. CASE DrainCall BY <2>8 DEF DrainCall, flags
  <2>9. CASE Swap
    <3>1. queue' \in Seq(Nat \ {0}) BY <2>9, EmptySeq DEF Swap
    <3>2. corrupted' \in BOOLEAN BY <2>9, Zenon DEF Swap
    <3>3. ownerPc' \in OwnerPcs BY <2>9 DEF Swap
    <3>4. UNCHANGED <<mutex, flags, workerPc, readerPc, workerItem, ownerItem, accepted,
                      delivered, starts, missedNotify>>
      BY <2>9, Zenon DEF Swap
    <3> HIDE DEF WorkerPcs, ReaderPcs, OwnerPcs, Nobody, NoItem
    <3> QED BY <3>1, <3>2, <3>3, <3>4, Zenon DEF flags
  <2>10. CASE StopNotify BY <2>10 DEF StopNotify, Notified, flags
  <2>11. CASE Join BY <2>11 DEF Join
  <2> QED
    BY <1>4, <2>1, <2>2, <2>3, <2>4, <2>5, <2>6, <2>7, <2>8, <2>9, <2>10, <2>11
    DEF Owner, StopStep
<1>5. CASE UNCHANGED vars BY <1>5 DEF vars, flags
<1> QED BY <1>1, <1>2, <1>3, <1>4, <1>5 DEF Next

\* Every reachable state is well typed.
THEOREM TypeCorrect == Spec => []TypeOK
BY TypeInit, TypeStep, PTL DEF Spec

----------------------------------------------------------------------------
(* The inductive invariant, one lemma for each of its parts *)

SdkUse == TRUE \notin FinishWork

\* The mutex excludes the reader from the worker's critical sections.
LEMMA MutexStep ==
    ASSUME TypeOK, MutexInv, OwnerInv, Next
    PROVE  MutexInv'
<1> USE DEF TypeOK, MutexInv, Notified
<1>1. CASE Reader
  BY <1>1 DEF Reader, EnqueueTestFlags, EnqueueTestSize, EnqueueLock, EnqueuePush
<1>2. CASE Worker \/ SpuriousWakeup
  BY <1>2 DEF Worker, WorkerLoop, WorkerLock, WorkerTake, WorkerPop, WorkerCall,
     WorkerTest, WorkerWait, WorkerWake, SpuriousWakeup
<1>3. CASE Owner
  BY <1>3 DEF Owner, StopStep, SetDequeueCallback, Start, PostStop, Stop, PreStop,
     DrainTake, DrainPop, DrainCall, Swap, StopNotify, Join, OwnerInv
<1> QED BY <1>1, <1>2, <1>3 DEF Next

\* The worker's life follows the owner's calls.
LEMMA OwnerStep ==
    ASSUME SdkUse, TypeOK, MutexInv, OwnerInv, PopInv, Next
    PROVE  OwnerInv'
<1> USE DEF TypeOK, OwnerInv, Notified, SdkUse
<1>1. CASE Reader
  BY <1>1 DEF Reader, EnqueueTestFlags, EnqueueTestSize, EnqueueLock, EnqueuePush, flags
<1>2. CASE Worker \/ SpuriousWakeup
  BY <1>2 DEF Worker, WorkerLoop, WorkerLock, WorkerTake, WorkerPop, WorkerCall,
     WorkerTest, WorkerWait, WorkerWake, SpuriousWakeup, flags, PopInv
<1>3. CASE PreStop
  <2>1. ownerPc' = "swap" BY <1>3, Zenon DEF PreStop
  <2>2. ~drained' BY <1>3, Zenon DEF PreStop
  <2> QED BY <1>3, <2>1, <2>2 DEF PreStop
<1>4. CASE SetDequeueCallback BY <1>4 DEF SetDequeueCallback
<1>5. CASE Start BY <1>5 DEF Start
<1>6. CASE PostStop \/ Stop BY <1>6 DEF PostStop, Stop
<1>7. CASE DrainTake \/ DrainPop \/ DrainCall
  BY <1>7 DEF DrainTake, DrainPop, DrainCall
<1>8. CASE Swap BY <1>8 DEF Swap, flags
<1>9. CASE StopNotify BY <1>9 DEF StopNotify, flags
<1>10. CASE Join BY <1>10 DEF Join, Next
<1> QED
  BY <1>1, <1>2, <1>3, <1>4, <1>5, <1>6, <1>7, <1>8, <1>9, <1>10
  DEF Next, Owner, StopStep

\* A push needs a size test that passed since the last push, and a test that
\* read the size during a pop is followed by that pop.
LEMMA DepthStep ==
    ASSUME SdkUse, TypeOK, MutexInv, OwnerInv, DepthInv, Next
    PROVE  DepthInv'
<1> USE DEF TypeOK, DepthInv
<1>1. CASE EnqueueTestFlags \/ EnqueueTestSize \/ EnqueueLock
  BY <1>1 DEF EnqueueTestFlags, EnqueueTestSize, EnqueueLock, MutexInv, OwnerInv
<1>2. CASE EnqueuePush
  <2>1. Len(queue') = Len(queue) + 1 BY <1>2, AppendFacts DEF EnqueuePush
  <2>2. workerPc # "pop" BY <1>2 DEF EnqueuePush, MutexInv
  <2> QED BY <1>2, <2>1, <2>2 DEF EnqueuePush
<1>3. CASE WorkerPop
  <2>1. queue = <<>> \/ Len(queue') = Len(queue) - 1
    BY <1>3, TailFacts DEF WorkerPop
  <2>2. queue = <<>> => queue' = queue /\ Len(queue) = 0
    BY <1>3, EmptySeq DEF WorkerPop
  <2> QED BY <1>3, <2>1, <2>2 DEF WorkerPop, MutexInv
<1>4. CASE WorkerTake BY <1>4 DEF WorkerTake
<1>5. CASE (Worker \/ SpuriousWakeup) /\ ~WorkerPop /\ ~WorkerTake
  BY <1>5 DEF Worker, WorkerLoop, WorkerLock, WorkerCall, WorkerTest, WorkerWait,
     WorkerWake, SpuriousWakeup
<1>6. CASE Swap
  <2>1. queue' = queue \/ Len(queue') = 0 BY <1>6, EmptySeq DEF Swap
  <2> QED BY <1>6, <2>1 DEF Swap
<1>7. CASE Owner /\ ~Swap
  BY <1>7 DEF Owner, StopStep, SetDequeueCallback, Start, PostStop, Stop, PreStop,
     DrainTake, DrainPop, DrainCall, StopNotify, Join, OwnerInv, Notified
<1> QED BY <1>1, <1>2, <1>3, <1>4, <1>5, <1>6, <1>7 DEF Next, Reader

\* Only stop()'s swap can empty the deque between the worker's test and its pop.
LEMMA PopStep ==
    ASSUME TypeOK, MutexInv, OwnerInv, PopInv, Next
    PROVE  PopInv'
<1> USE DEF TypeOK, PopInv
<1>1. CASE Reader
  BY <1>1 DEF Reader, EnqueueTestFlags, EnqueueTestSize, EnqueueLock, EnqueuePush,
     MutexInv, Notified
<1>2. CASE Worker \/ SpuriousWakeup
  BY <1>2 DEF Worker, WorkerLoop, WorkerLock, WorkerTake, WorkerPop, WorkerCall,
     WorkerTest, WorkerWait, WorkerWake, SpuriousWakeup
<1>3. CASE Owner
  BY <1>3 DEF Owner, StopStep, SetDequeueCallback, Start, PostStop, Stop, PreStop,
     DrainTake, DrainPop, DrainCall, Swap, StopNotify, Join, OwnerInv, Notified
<1> QED BY <1>1, <1>2, <1>3 DEF Next

\* A worker that tests stop_requested after it was set does not go to sleep.
LEMMA NotifyStep ==
    ASSUME TypeOK, OwnerInv, NotifyInv, Next
    PROVE  NotifyInv'
<1> USE DEF TypeOK, NotifyInv, Notified
<1>1. CASE Reader
  BY <1>1 DEF Reader, EnqueueTestFlags, EnqueueTestSize, EnqueueLock, EnqueuePush
<1>2. CASE (Worker \/ SpuriousWakeup) /\ ~WorkerTest
  BY <1>2 DEF Worker, WorkerLoop, WorkerLock, WorkerTake, WorkerPop, WorkerCall,
     WorkerWait, WorkerWake, SpuriousWakeup
<1>3. CASE WorkerTest BY <1>3 DEF WorkerTest, OwnerInv
<1>4. CASE StopNotify BY <1>4 DEF StopNotify
<1>5. CASE Owner /\ ~StopNotify
  BY <1>5 DEF Owner, StopStep, SetDequeueCallback, Start, PostStop, Stop, PreStop,
     DrainTake, DrainPop, DrainCall, Swap, Join
<1> QED BY <1>1, <1>2, <1>3, <1>4, <1>5 DEF Next

\* After the swap `stopping` refuses every new call, and the one in flight adds
\* one item to an empty deque.
LEMMA SurvivorStep ==
    ASSUME SdkUse, TypeOK, MutexInv, OwnerInv, SurvivorInv, Next
    PROVE  SurvivorInv'
<1> USE DEF TypeOK, SurvivorInv, InFlight, OwnerInv
<1>1. CASE EnqueueTestFlags BY <1>1 DEF EnqueueTestFlags, flags
<1>2. CASE EnqueueTestSize \/ EnqueueLock
  BY <1>2 DEF EnqueueTestSize, EnqueueLock, flags
<1>3. CASE EnqueuePush
  <2>1. Len(queue') = Len(queue) + 1 BY <1>3, AppendFacts DEF EnqueuePush
  <2> QED BY <1>3, <2>1 DEF EnqueuePush, flags
<1>4. CASE WorkerPop
  <2>1. queue' = queue \/ Len(queue') = Len(queue) - 1
    BY <1>4, TailFacts DEF WorkerPop
  <2> QED BY <1>4, <2>1 DEF WorkerPop, flags, Next
<1>5. CASE (Worker \/ SpuriousWakeup) /\ ~WorkerPop
  BY <1>5 DEF Worker, WorkerLoop, WorkerLock, WorkerTake, WorkerCall, WorkerTest,
     WorkerWait, WorkerWake, SpuriousWakeup, flags
<1>6. CASE Swap
  <2>1. corrupted' \/ Len(queue') = 0 BY <1>6, EmptySeq DEF Swap
  <2> QED BY <1>6, <2>1 DEF Swap, flags
<1>7. CASE StopNotify BY <1>7 DEF StopNotify, flags
<1>8. CASE Join BY <1>8 DEF Join, Next
<1>9. CASE Owner /\ ~Swap /\ ~StopNotify /\ ~Join
  BY <1>9 DEF Owner, StopStep, SetDequeueCallback, Start, PostStop, Stop, PreStop,
     DrainTake, DrainPop, DrainCall, flags
<1> QED
  BY <1>1, <1>2, <1>3, <1>4, <1>5, <1>6, <1>7, <1>8, <1>9 DEF Next, Reader

\* Items enter at the back with the next number and leave at the front.
LEMMA OrderStep ==
    ASSUME SdkUse, TypeOK, MutexInv, OwnerInv, OrderInv, Next
    PROVE  OrderInv'
<1> USE DEF TypeOK, OrderInv
<1>1. CASE EnqueuePush
  <2> DEFINE q == queue'
  <2>1. /\ Len(q) = Len(queue) + 1
        /\ \A i \in 1 .. Len(queue) : q[i] = queue[i]
        /\ q[Len(queue) + 1] = accepted + 1
    BY <1>1, AppendFacts DEF EnqueuePush
  <2>2. \A i \in 1 .. Len(q) : i \in 1 .. Len(queue) \/ i = Len(queue) + 1
    BY <2>1
  <2>3. /\ accepted' = accepted + 1 /\ delivered' = delivered
        /\ workerItem' = workerItem
        /\ workerPc' \in {"pop", "call"} => workerPc' = workerPc
        /\ workerPc # "pop"
    BY <1>1 DEF EnqueuePush, Notified, MutexInv
  <2>4. \A i \in 1 .. Len(queue) : queue[i] \in Nat \ {0}
    BY ElementOfSeq
  <2>5. \A i \in 1 .. Len(q) : delivered < q[i] /\ q[i] <= accepted + 1
    BY SMTT(90), <2>1, <2>2, <2>4
  <2>6. \A i, j \in 1 .. Len(q) : i < j => q[i] < q[j]
    BY SMTT(90), <2>1, <2>2, <2>4
  <2>7. workerPc = "call" => \A i \in 1 .. Len(q) : workerItem < q[i]
    BY SMTT(90), <2>1, <2>2, <2>4
  <2> QED BY <2>3, <2>5, <2>6, <2>7
<1>2. CASE WorkerTake
  <2>1. queue # <<>> => workerItem' = queue[1] /\ Len(queue) >= 1
    BY <1>2, TailFacts DEF WorkerTake
  <2> QED BY <1>2, <2>1 DEF WorkerTake
<1>3. CASE WorkerPop
  <2>1. CASE queue # <<>>
    <3> DEFINE q == queue'
    <3>1. /\ Len(queue) >= 1 /\ Len(q) = Len(queue) - 1
          /\ \A i \in 1 .. Len(q) : q[i] = queue[i + 1]
      BY <1>3, <2>1, TailFacts DEF WorkerPop
    <3>2. \A i \in 1 .. Len(q) : i + 1 \in 1 .. Len(queue) /\ 1 \in 1 .. Len(queue)
      BY <3>1
    <3>3. \A i, j \in 1 .. Len(q) : i < j => i + 1 < j + 1
      OBVIOUS
    <3>4. workerItem = queue[1] BY <1>3, <2>1 DEF WorkerPop
    <3>5. \A i \in 1 .. Len(q) : 1 < i + 1
      BY <3>1
    <3>6. \A i \in 1 .. Len(q) : delivered < q[i] /\ q[i] <= accepted
      BY <3>1, <3>2
    <3>7. \A i, j \in 1 .. Len(q) : i < j => q[i] < q[j]
      BY <3>1, <3>2, <3>3
    <3>8. \A i \in 1 .. Len(q) : workerItem < q[i]
      BY <3>1, <3>2, <3>4, <3>5
    <3> QED BY <1>3, <3>6, <3>7, <3>8 DEF WorkerPop
  <2>2. CASE queue = <<>>
    BY <1>3, <2>2, EmptySeq DEF WorkerPop
  <2> QED BY <2>1, <2>2
<1>4. CASE WorkerCall
  BY <1>4 DEF WorkerCall
<1>5. CASE Swap
  <2>1. queue' = queue \/ (queue' = <<>> /\ Len(queue') = 0) BY <1>5, EmptySeq DEF Swap
  <2> QED BY <1>5, <2>1 DEF Swap
<1>6. CASE (Reader /\ ~EnqueuePush) \/ SpuriousWakeup
  BY <1>6 DEF Reader, EnqueueTestFlags, EnqueueTestSize, EnqueueLock, SpuriousWakeup
<1>7. CASE Worker /\ ~WorkerTake /\ ~WorkerPop /\ ~WorkerCall
  BY <1>7 DEF Worker, WorkerLoop, WorkerLock, WorkerTest, WorkerWait, WorkerWake
<1>8. CASE Owner /\ ~Swap
  BY <1>8 DEF Owner, StopStep, SetDequeueCallback, Start, PostStop, Stop, PreStop,
     DrainTake, DrainPop, DrainCall, StopNotify, Join, Notified, OwnerInv
<1> QED BY <1>1, <1>2, <1>3, <1>4, <1>5, <1>6, <1>7, <1>8 DEF Next

----------------------------------------------------------------------------
(* The safety invariants *)

LEMMA InvInit == Init => IInv
<1> SUFFICES ASSUME Init PROVE IInv
  OBVIOUS
<1>1. TypeOK BY TypeInit
<1>2. queue = <<>> /\ Len(queue) = 0 BY EmptySeq DEF Init
<1>3. MutexInv /\ OwnerInv BY DEF Init, MutexInv, OwnerInv
<1>4. DepthInv /\ OrderInv BY <1>2 DEF Init, DepthInv, OrderInv
<1>5. SurvivorInv /\ PopInv /\ NotifyInv
  BY <1>2 DEF Init, SurvivorInv, PopInv, NotifyInv, InFlight
<1> QED BY <1>1, <1>3, <1>4, <1>5 DEF IInv

LEMMA InvStep == ASSUME SdkUse PROVE IInv /\ [Next]_vars => IInv'
<1> SUFFICES ASSUME IInv, [Next]_vars PROVE IInv'
  OBVIOUS
<1>1. CASE Next
  BY <1>1, TypeStep, MutexStep, OwnerStep, DepthStep, OrderStep, SurvivorStep, PopStep,
     NotifyStep DEF IInv
<1>2. CASE UNCHANGED vars
  BY <1>2 DEF vars, flags, IInv, TypeOK, MutexInv, OwnerInv, DepthInv, OrderInv,
     SurvivorInv, InFlight, PopInv, NotifyInv
<1> QED BY <1>1, <1>2

\* The inductive invariant holds in every behaviour of the SDK's queue.
LEMMA Invariance == ASSUME SdkUse PROVE Spec => []IInv
BY InvInit, InvStep, PTL DEF Spec

\* The deque holds at most max_queue_depth + 1 items, for every depth.
THEOREM DepthBounded ==
    ASSUME SdkUse
    PROVE  Spec => [](DepthBound /\ Len(queue) <= MaxDepth + 1)
<1>1. IInv => DepthBound /\ Len(queue) <= MaxDepth + 1
  BY ConstantsAssumption DEF IInv, TypeOK, OwnerInv, DepthInv, DepthBound
<1> QED BY <1>1, Invariance, PTL

\* Items reach the callback in the order of acceptance and at most once.
THEOREM DeliveredInOrder == ASSUME SdkUse PROVE Spec => [](InOrder /\ ~drained)
<1>1. IInv => InOrder /\ ~drained
  BY DEF IInv, OwnerInv, OrderInv, InOrder
<1> QED BY <1>1, Invariance, PTL

\* At most one item outlives a stop().
THEOREM OneSurvivor == ASSUME SdkUse PROVE Spec => []AtMostOneSurvivor
<1>1. IInv => AtMostOneSurvivor
  BY DEF IInv, SurvivorInv, InFlight, AtMostOneSurvivor
<1> QED BY <1>1, Invariance, PTL

\* No callback runs once stop() has returned, the deque is destroyed by stop()
\* only, and stop() hangs on a missed notification only.
THEOREM StopIsClean ==
    ASSUME SdkUse
    PROVE  Spec => []CleanStop
<1>1. IInv => CleanStop
  BY DEF IInv, OwnerInv, NotifyInv, CleanStop, QuietWhenStopped, UndefinedOnlyInStop,
     OnlyMissedNotifyHangs
<1> QED BY <1>1, Invariance, PTL

----------------------------------------------------------------------------
(* The refinement of LossyFifo *)

\* An item in front of others: what is left without it, and with a new one.
LEMMA InFrontFacts ==
    ASSUME NEW x \in Nat \ {0}, NEW q \in Seq(Nat \ {0}), NEW e \in Nat \ {0}
    PROVE  /\ <<x>> \o q # <<>>
           /\ Head(<<x>> \o q) = x /\ Tail(<<x>> \o q) = q
           /\ Len(<<x>> \o q) = Len(q) + 1
           /\ SubSeq(<<x>> \o q, 1, 1) = <<x>>
           /\ Append(<<x>> \o q, e) = <<x>> \o Append(q, e)
<1> DEFINE S == Nat \ {0}
           s == <<x>> \o q
<1>1. <<x>> \in Seq(S) /\ Len(<<x>>) = 1 /\ <<e>> \in Seq(S)
  OBVIOUS
<1>2. /\ s \in Seq(S) /\ Len(s) = Len(q) + 1 /\ Len(q) \in Nat
      /\ \A i \in 1 .. 1 + Len(q) : s[i] = IF i <= 1 THEN x ELSE q[i - 1]
  BY <1>1, ConcatProperties, LenProperties
<1>3. s # <<>>
  BY <1>2, EmptySeq
<1>4. Head(s) = x
  BY <1>2, <1>3, HeadTailProperties
<1>5. Tail(s) = q
  <2>1. /\ Tail(s) \in Seq(S) /\ Len(Tail(s)) = Len(q)
        /\ \A i \in 1 .. Len(q) : Tail(s)[i] = s[i + 1]
    BY <1>2, <1>3, HeadTailProperties
  <2>2. \A i \in 1 .. Len(q) : s[i + 1] = q[i]
    BY <1>2
  <2> QED
    BY <2>1, <2>2, SeqEqual
<1>6. SubSeq(s, 1, 1) = <<x>>
  <2>1. SubSeq(s, 1, 1) = SubSeq(<<x>>, 1, 1)
    BY <1>1, SubSeqOfConcat1
  <2>2. SubSeq(<<x>>, 1, 1) = <<x>>
    BY <1>1, SubSeqFull
  <2> QED
    BY <2>1, <2>2
<1>7. Append(s, e) = <<x>> \o Append(q, e)
  BY <1>1, <1>2, AppendIsConcat, ConcatAssociative
<1> QED
  BY <1>2, <1>3, <1>4, <1>5, <1>6, <1>7

\* The front of a deque, put before the rest, gives the deque back.
LEMMA FrontFacts ==
    ASSUME NEW q \in Seq(Nat \ {0}), q # <<>>
    PROVE  <<q[1]>> \o Tail(q) = q /\ SubSeq(q, 1, 0) = <<>> /\ Len(q) > 0
<1>1. Len(q) \in Nat \ {0} /\ 1 \in 1 .. Len(q)
  BY EmptySeq
<1>2. SubSeq(q, 1, Len(q)) = <<q[1]>> \o SubSeq(q, 2, Len(q))
  BY <1>1, SubSeqRecursiveFirst
<1> QED
  BY <1>1, <1>2, SubSeqFull, TailIsSubSeq, SubSeqEmpty

\* Nothing is pending at first.
LEMMA RefinementInit == Init => Fifo!FifoInit
BY ConcatEmptySeq, EmptySeq DEF Init, Fifo!FifoInit, Pending

\* The deque is what is pending, behind the item in the worker's hands.
LEMMA PendingValue ==
    ASSUME TypeOK
    PROVE  Pending = IF workerPc = "call" /\ ~corrupted THEN <<workerItem>> \o queue
                                                        ELSE queue
BY ConcatEmptySeq DEF Pending, TypeOK

LEMMA PendingValueNext ==
    ASSUME TypeOK'
    PROVE  Pending' = IF workerPc' = "call" /\ ~corrupted' THEN <<workerItem'>> \o queue'
                                                           ELSE queue'
BY ConcatEmptySeq DEF Pending, TypeOK

\* Every step accepts, delivers or loses an item as the lossy FIFO may, or
\* leaves what is pending alone.
LEMMA RefinementStep ==
    ASSUME SdkUse
    PROVE  IInv /\ [Next]_vars => [Fifo!FifoNext]_(Fifo!fifoVars)
<1> SUFFICES ASSUME IInv, [Next]_vars PROVE [Fifo!FifoNext]_(Fifo!fifoVars)
  OBVIOUS
<1>t. TypeOK /\ TypeOK' /\ MutexInv /\ OwnerInv /\ OrderInv
  BY TypeStep DEF IInv
<1>q. queue \in Seq(Nat \ {0}) /\ accepted \in Nat /\ workerItem \in Nat
  BY <1>t DEF TypeOK
<1>w. workerPc = "call" => workerItem \in Nat \ {0}
  BY <1>t DEF TypeOK, OrderInv
<1>p. Pending = IF workerPc = "call" /\ ~corrupted THEN <<workerItem>> \o queue ELSE queue
  BY <1>t, PendingValue
<1>n. Pending' = IF workerPc' = "call" /\ ~corrupted' THEN <<workerItem'>> \o queue'
                                                      ELSE queue'
  BY <1>t, PendingValueNext
<1>s. ASSUME UNCHANGED <<queue, workerItem, accepted, delivered, corrupted>>,
             workerPc' = "call" <=> workerPc = "call"
      PROVE  UNCHANGED Fifo!fifoVars
  BY <1>p, <1>n, <1>s DEF Fifo!fifoVars
<1>1. CASE Next /\ EnqueuePush
  <2>1. /\ ~corrupted /\ ~corrupted' /\ queue' = Append(queue, accepted + 1)
        /\ accepted' = accepted + 1 /\ delivered' = delivered
        /\ workerItem' = workerItem /\ (workerPc' = "call" <=> workerPc = "call")
    BY <1>1 DEF Next, EnqueuePush, Notified
  <2>2. Pending' = Append(Pending, accepted + 1)
    <3>1. CASE workerPc = "call"
      <4>1. accepted + 1 \in Nat \ {0} BY <1>q
      <4>2. Append(<<workerItem>> \o queue, accepted + 1)
              = <<workerItem>> \o Append(queue, accepted + 1)
        BY SMTT(90), <3>1, <4>1, <1>q, <1>w, InFrontFacts
      <4> QED BY <2>1, <3>1, <4>2, <1>p, <1>n
    <3>2. CASE workerPc # "call" BY <2>1, <3>2, <1>p, <1>n
    <3> QED BY <3>1, <3>2
  <2> QED BY <2>1, <2>2 DEF Fifo!FifoNext, Fifo!Accept
<1>2. CASE Next /\ WorkerPop
  <2>1. /\ ~corrupted /\ workerPc = "pop" /\ workerPc' = "call" /\ workerItem' = workerItem
        /\ accepted' = accepted /\ delivered' = delivered
    BY <1>2 DEF Next, WorkerPop
  <2>2. Pending' = Pending
    <3>1. CASE queue # <<>>
      <4>1. queue' = Tail(queue) /\ ~corrupted' BY <1>2, <2>1, <3>1 DEF WorkerPop
      <4>2. workerItem = queue[1] BY <1>t, <2>1, <3>1 DEF OrderInv
      <4>3. <<queue[1]>> \o Tail(queue) = queue BY <1>q, <3>1, FrontFacts
      <4> QED BY <2>1, <4>1, <4>2, <4>3, <1>p, <1>n
    <3>2. CASE queue = <<>>
      BY <1>2, <2>1, <3>2, <1>p, <1>n DEF WorkerPop
    <3> QED BY <3>1, <3>2
  <2> QED BY <2>1, <2>2 DEF Fifo!fifoVars
<1>3. CASE Next /\ WorkerCall
  <2>1. /\ ~corrupted /\ workerPc = "call" /\ workerPc' = "relock" /\ queue' = queue
        /\ accepted' = accepted
        /\ delivered' = IF callback THEN workerItem ELSE delivered
    BY <1>3 DEF Next, WorkerCall
  <2>2. /\ Pending # <<>> /\ Head(Pending) = workerItem /\ Tail(Pending) = queue
    <3>1. 1 \in Nat \ {0} OBVIOUS
    <3> QED BY <2>1, <3>1, <1>p, <1>q, <1>w, InFrontFacts
  <2>3. Pending' = Tail(Pending) BY <2>1, <2>2, <1>n
  <2>4. CASE callback
    BY <2>1, <2>2, <2>3, <2>4 DEF Fifo!FifoNext, Fifo!Deliver
  <2>5. CASE ~callback
    BY <2>1, <2>2, <2>3, <2>5 DEF Fifo!FifoNext, Fifo!LoseOldest
  <2> QED BY <2>4, <2>5
<1>4. CASE Next /\ Swap
  <2>1. /\ ~corrupted /\ workerPc' = workerPc /\ workerItem' = workerItem
        /\ accepted' = accepted /\ delivered' = delivered
        /\ \/ queue' = <<>> /\ ~corrupted'
           \/ Mutating /\ corrupted' /\ queue' = queue
    BY <1>4 DEF Next, Swap, flags
  <2>2. CASE workerPc = "call"
    <3>1. /\ Pending = <<workerItem>> \o queue /\ Pending # <<>>
          /\ Tail(Pending) = queue /\ Len(Pending) = Len(queue) + 1
          /\ SubSeq(Pending, 1, 1) = <<workerItem>>
      <4>1. 1 \in Nat \ {0} OBVIOUS
      <4> QED BY <2>1, <2>2, <4>1, <1>p, <1>q, <1>w, InFrontFacts
    <3>2. CASE corrupted'
      BY <2>1, <3>1, <3>2, <1>n DEF Fifo!FifoNext, Fifo!LoseOldest
    <3>3. CASE ~corrupted' /\ queue = <<>>
      BY <2>1, <2>2, <3>1, <3>3, <1>n DEF Fifo!fifoVars
    <3>4. CASE ~corrupted' /\ queue # <<>>
      <4>1. queue' = <<>> /\ Pending' = <<workerItem>>
        <5>1. <<workerItem>> \o <<>> = <<workerItem>>
          BY <1>q, ConcatEmptySeq
        <5> QED BY <2>1, <2>2, <3>4, <5>1, <1>n
      <4>2. Len(queue) \in Nat /\ Len(queue) > 0 BY <1>q, <3>4, FrontFacts
      <4>3. 1 < Len(Pending) BY <3>1, <4>2
      <4> QED BY <2>1, <3>1, <4>1, <4>3 DEF Fifo!FifoNext, Fifo!LoseNewest
    <3> QED BY <3>2, <3>3, <3>4
  <2>3. CASE workerPc # "call"
    <3>1. Pending = queue /\ Pending' = queue' BY <2>1, <2>3, <1>p, <1>n
    <3>2. CASE queue' = queue BY <2>1, <3>1, <3>2 DEF Fifo!fifoVars
    <3>3. CASE queue' # queue
      <4>1. queue' = <<>> /\ queue # <<>> BY <2>1, <3>3
      <4>2. SubSeq(queue, 1, 0) = <<>> /\ 0 < Len(queue) BY <4>1, <1>q, FrontFacts
      <4> QED BY <2>1, <3>1, <4>1, <4>2 DEF Fifo!FifoNext, Fifo!LoseNewest
    <3> QED BY <3>2, <3>3
  <2> QED BY <2>2, <2>3
<1>5. CASE WorkerTake
  <2>1. Pending = queue /\ Pending' = queue'
    BY <1>5, <1>p, <1>n DEF WorkerTake
  <2> QED BY <1>5, <2>1 DEF WorkerTake, Fifo!fifoVars
<1>6. CASE Reader /\ ~EnqueuePush
  BY <1>6, <1>s DEF Reader, EnqueueTestFlags, EnqueueTestSize, EnqueueLock
<1>7. CASE (Worker \/ SpuriousWakeup) /\ ~WorkerTake /\ ~WorkerPop /\ ~WorkerCall
  BY <1>7, <1>s DEF Worker, WorkerLoop, WorkerLock, WorkerTest, WorkerWait, WorkerWake,
     SpuriousWakeup
<1>8. CASE SetDequeueCallback \/ PostStop \/ Stop \/ PreStop
  BY <1>8, <1>s DEF SetDequeueCallback, PostStop, Stop, PreStop
<1>9. CASE Start \/ StopNotify \/ Join
  BY <1>9, <1>s, <1>t DEF Start, StopNotify, Join, Notified, OwnerInv
<1>10. CASE DrainTake \/ DrainPop \/ DrainCall
  BY <1>10, <1>t DEF DrainTake, DrainPop, DrainCall, OwnerInv
<1>11. CASE UNCHANGED vars
  BY <1>11, <1>s DEF vars
<1> QED
  BY <1>1, <1>2, <1>3, <1>4, <1>5, <1>6, <1>7, <1>8, <1>9, <1>10, <1>11
  DEF Next, Reader, Worker, Owner, StopStep

\* Through every race, stop and restart, the queue of the SDK is a lossy FIFO:
\* what it accepts it hands over in order, at most once, or loses.
THEOREM ImplementsFifo ==
    ASSUME SdkUse
    PROVE  Spec => ImplementsLossyFifo /\ Fifo!FifoSpec
<1>1. [Fifo!FifoNext]_(Fifo!fifoVars)
          => [drained' \/ Fifo!FifoNext]_(Fifo!fifoVars)
  OBVIOUS
<1> QED BY <1>1, RefinementInit, RefinementStep, Invariance, PTL
        DEF Spec, ImplementsLossyFifo, Fifo!FifoSpec
=============================================================================
