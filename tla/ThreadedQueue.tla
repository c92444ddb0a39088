---------------------------- MODULE ThreadedQueue ----------------------------
(***************************************************************************)
(* Threaded_queue<T> and its base Threaded_class                           *)
(* (cpp_17/utility/threaded_queue.h, threaded_class.cpp): the queue that   *)
(* decouples the thread reading the radar's socket from the user's         *)
(* callbacks.  Three threads share it:                                     *)
(*                                                                         *)
(*   reader  the socket's read thread, which calls enqueue();              *)
(*   worker  the queue's own thread, which runs do_work() in a loop;       *)
(*   owner   the application thread, which calls start() and stop().       *)
(*                                                                         *)
(* A step is one access to state that another thread can see change.  The  *)
(* code guards the deque by queue_mutex in enqueue() and do_work(), but    *)
(* neither the tests at the head of enqueue() nor the swap and the drain   *)
(* of pre_stop() take it; where such an access meets a critical section    *)
(* the C++ program has a data race.  Its outcomes here: the accesses are   *)
(* serialised one way or the other, a size read during a pop is            *)
(* arbitrary, or the deque is destroyed (corrupted), and then nothing more *)
(* is said of the program.                                                 *)
(***************************************************************************)
EXTENDS Naturals, Sequences

CONSTANTS
    MaxDepth,       \* max_queue_depth
    FinishWork,     \* the arguments stop() is called with; {FALSE} in the SDK
    MaxAccepted,    \* bound: items accepted in a behaviour
    MaxStarts       \* bound: worker threads started in a behaviour

ASSUME ConstantsAssumption ==
    /\ MaxDepth \in Nat
    /\ FinishWork \subseteq BOOLEAN
    /\ MaxAccepted \in Nat
    /\ MaxStarts \in Nat

VARIABLES
    queue,           \* the deque: items, named by their order of acceptance
    mutex,           \* who holds queue_mutex
    stopRequested,   \* stop_requested
    stopping,        \* stopping
    joinable,        \* thread.joinable()
    callback,        \* dequeue_callback # nullptr
    workerPc, readerPc, ownerPc,
    workerItem, ownerItem,   \* the local `item` of do_work() and of dequeue()
    accepted,        \* history: number of items pushed
    delivered,       \* history: the item handed to the callback last
    starts,          \* history: worker threads started
    missedNotify,    \* history: stop() notified between the worker's test and its wait
    drained,         \* history: a stop(true) has begun to drain the deque
    corrupted        \* a data race destroyed the deque

flags == <<stopRequested, stopping, joinable, callback, drained>>
vars == <<queue, mutex, flags, workerPc, readerPc, ownerPc, workerItem, ownerItem,
          accepted, delivered, starts, missedNotify, corrupted>>

Nobody == "nobody"
NoItem == 0

\* std::atomic<bool> without an initialiser: the two flags start with any value.
Init ==
    /\ queue = <<>> /\ mutex = Nobody
    /\ stopRequested \in BOOLEAN /\ stopping \in BOOLEAN
    /\ joinable = FALSE /\ callback = FALSE
    /\ workerPc = "none" /\ readerPc = "idle" /\ ownerPc = "idle"
    /\ workerItem = NoItem /\ ownerItem = NoItem
    /\ accepted = 0 /\ delivered = 0 /\ starts = 0
    /\ missedNotify = FALSE /\ drained = FALSE /\ corrupted = FALSE

NotifiedNobody(pc) == pc

\* condition.notify_all(): a worker blocked in wait() goes for the mutex.
Notified(pc) == IF pc = "waiting" THEN "wake" ELSE pc

TooDeepByOne(q) == Len(q) > MaxDepth + 1

\* queue.size() > max_queue_depth
TooDeep(q) == Len(q) > MaxDepth

PushedInFront(q, item) == <<item>> \o q
PushedUnnumbered(q, item) == Append(q, item - 1)

\* queue.push(item) and queue.pop()
Pushed(q, item) == Append(q, item)

PoppedNothing(q) == q

Popped(q) == Tail(q)

MustWaitEvenIfStopped(q) == q = <<>>

\* queue.empty() && !stop_requested
MustWait(q) == q = <<>> /\ ~stopRequested

\* A thread is inside a critical section that changes the deque.
Mutating == readerPc = "push" \/ workerPc = "pop"

----------------------------------------------------------------------------
(* enqueue(), on the reader's thread *)

EnqueueTestFlags ==
    /\ readerPc = "idle"
    /\ accepted < MaxAccepted
    /\ ~stopping /\ callback /\ joinable
    /\ readerPc' = "size"
    /\ UNCHANGED <<queue, mutex, flags, workerPc, ownerPc, workerItem, ownerItem,
                   accepted, delivered, starts, missedNotify, corrupted>>

\* queue.size() > max_queue_depth, read without the mutex: while another
\* thread pops it may come out either way.
EnqueueTestSize ==
    /\ readerPc = "size"
    /\ \/ ~TooDeep(queue) /\ readerPc' = "lock"
       \/ TooDeep(queue) /\ readerPc' = "idle"
       \/ /\ workerPc = "pop" \/ ownerPc = "drainPop"
          /\ readerPc' \in {"lock", "idle"}
    /\ UNCHANGED <<queue, mutex, flags, workerPc, ownerPc, workerItem, ownerItem,
                   accepted, delivered, starts, missedNotify, corrupted>>

EnqueueLock ==
    /\ readerPc = "lock" /\ mutex = Nobody
    /\ mutex' = "reader" /\ readerPc' = "push"
    /\ UNCHANGED <<queue, flags, workerPc, ownerPc, workerItem, ownerItem,
                   accepted, delivered, starts, missedNotify, corrupted>>

EnqueuePush ==
    /\ readerPc = "push"
    /\ queue' = Pushed(queue, accepted + 1)
    /\ accepted' = accepted + 1
    /\ workerPc' = Notified(workerPc)
    /\ mutex' = Nobody /\ readerPc' = "idle"
    /\ UNCHANGED <<flags, ownerPc, workerItem, ownerItem,
                   delivered, starts, missedNotify, corrupted>>

----------------------------------------------------------------------------
(* thread_method() and do_work(), on the worker's thread *)

\* while (!stop_requested)
WorkerLoop ==
    /\ workerPc = "loop"
    /\ workerPc' = IF stopRequested THEN "done" ELSE "lock"
    /\ UNCHANGED <<queue, mutex, flags, readerPc, ownerPc, workerItem, ownerItem,
                   accepted, delivered, starts, missedNotify, corrupted>>

WorkerLock ==
    /\ workerPc \in {"lock", "relock"} /\ mutex = Nobody
    /\ mutex' = "worker"
    /\ workerPc' = IF workerPc = "lock" THEN "take" ELSE "test"
    /\ UNCHANGED <<queue, flags, readerPc, ownerPc, workerItem, ownerItem,
                   accepted, delivered, starts, missedNotify, corrupted>>

\* Copy the front, or unlock at once when there is none.
WorkerTake ==
    /\ workerPc = "take"
    /\ IF queue # <<>>
       THEN workerItem' = Head(queue) /\ workerPc' = "pop" /\ UNCHANGED mutex
       ELSE workerPc' = "relock" /\ mutex' = Nobody /\ UNCHANGED workerItem
    /\ UNCHANGED <<queue, flags, readerPc, ownerPc, ownerItem,
                   accepted, delivered, starts, missedNotify, corrupted>>

\* queue.pop(): undefined if stop() emptied the deque since it was tested.
WorkerPop ==
    /\ workerPc = "pop"
    /\ IF queue # <<>>
       THEN queue' = Popped(queue) /\ UNCHANGED corrupted
       ELSE corrupted' = TRUE /\ UNCHANGED queue
    /\ mutex' = Nobody /\ workerPc' = "call"
    /\ UNCHANGED <<flags, readerPc, ownerPc, workerItem, ownerItem,
                   accepted, delivered, starts, missedNotify>>

WorkerCall ==
    /\ workerPc = "call"
    /\ delivered' = IF callback THEN workerItem ELSE delivered
    /\ workerItem' = NoItem
    /\ workerPc' = "relock"
    /\ UNCHANGED <<queue, mutex, flags, readerPc, ownerPc, ownerItem,
                   accepted, starts, missedNotify, corrupted>>

\* if (queue.empty() && !stop_requested) ..., under the mutex
WorkerTest ==
    /\ workerPc = "test"
    /\ IF MustWait(queue)
       THEN workerPc' = "enterWait" /\ UNCHANGED mutex
       ELSE workerPc' = "loop" /\ mutex' = Nobody
    /\ UNCHANGED <<queue, flags, readerPc, ownerPc, workerItem, ownerItem,
                   accepted, delivered, starts, missedNotify, corrupted>>

\* ... condition.wait(lock): release the mutex and block, as one step
WorkerWait ==
    /\ workerPc = "enterWait"
    /\ workerPc' = "waiting" /\ mutex' = Nobody
    /\ UNCHANGED <<queue, flags, readerPc, ownerPc, workerItem, ownerItem,
                   accepted, delivered, starts, missedNotify, corrupted>>

\* wait() takes the mutex back and do_work() releases it
WorkerWake ==
    /\ workerPc = "wake" /\ mutex = Nobody
    /\ workerPc' = "loop"
    /\ UNCHANGED <<queue, mutex, flags, readerPc, ownerPc, workerItem, ownerItem,
                   accepted, delivered, starts, missedNotify, corrupted>>

\* A condition variable may wake its waiter without a notification.
SpuriousWakeup ==
    /\ workerPc = "waiting"
    /\ workerPc' = "wake"
    /\ UNCHANGED <<queue, mutex, flags, readerPc, ownerPc, workerItem, ownerItem,
                   accepted, delivered, starts, missedNotify, corrupted>>

----------------------------------------------------------------------------
(* set_dequeue_callback(), start() and stop(), on the owner's thread *)

\* The SDK sets the callback before start() only (Radar_client::start).
SetDequeueCallback ==
    /\ ownerPc = "idle" /\ ~joinable /\ mutex = Nobody
    /\ callback' \in BOOLEAN
    /\ UNCHANGED <<queue, mutex, stopRequested, stopping, joinable, workerPc, readerPc,
                   ownerPc, workerItem, ownerItem, accepted, delivered, starts,
                   missedNotify, drained, corrupted>>

Start ==
    /\ ownerPc = "idle" /\ ~joinable
    /\ starts < MaxStarts
    /\ stopRequested' = FALSE
    /\ joinable' = TRUE /\ workerPc' = "loop"
    /\ starts' = starts + 1
    /\ ownerPc' = "postStop"
    /\ UNCHANGED <<queue, mutex, stopping, callback, readerPc, workerItem, ownerItem,
                   accepted, delivered, missedNotify, drained, corrupted>>

PostStop ==
    /\ ownerPc = "postStop"
    /\ stopping' = FALSE
    /\ ownerPc' = "idle"
    /\ UNCHANGED <<queue, mutex, stopRequested, joinable, callback, workerPc, readerPc,
                   workerItem, ownerItem, accepted, delivered, starts, missedNotify,
                   drained, corrupted>>

Stop ==
    /\ ownerPc = "idle" /\ joinable /\ ~stopRequested
    /\ stopRequested' = TRUE
    /\ ownerPc' = "preStop"
    /\ UNCHANGED <<queue, mutex, stopping, joinable, callback, workerPc, readerPc,
                   workerItem, ownerItem, accepted, delivered, starts, missedNotify,
                   drained, corrupted>>

StopAdmits == FALSE

\* `stopping`, the flag that makes enqueue() refuse
StopRefuses == TRUE

PreStop ==
    /\ ownerPc = "preStop"
    /\ stopping' = StopRefuses
    /\ \E finishWork \in FinishWork :
          /\ ownerPc' = IF finishWork THEN "drain" ELSE "swap"
          /\ drained' = (drained \/ finishWork)
    /\ UNCHANGED <<queue, mutex, stopRequested, joinable, callback, workerPc, readerPc,
                   workerItem, ownerItem, accepted, delivered, starts, missedNotify,
                   corrupted>>

\* dequeue()'s result
Drained(q) == q = <<>>

\* while (!dequeue()): test, move the front out, pop, call back - no mutex
DrainTake ==
    /\ ownerPc = "drain"
    /\ IF Drained(queue)
       THEN ownerPc' = "swap" /\ UNCHANGED ownerItem
       ELSE ownerItem' = Head(queue) /\ ownerPc' = "drainPop"
    /\ UNCHANGED <<queue, mutex, flags, workerPc, readerPc, workerItem,
                   accepted, delivered, starts, missedNotify, corrupted>>

DrainPop ==
    /\ ownerPc = "drainPop"
    /\ \/ /\ queue # <<>>
          /\ queue' = Popped(queue) /\ UNCHANGED corrupted
       \/ /\ queue = <<>> \/ Mutating
          /\ corrupted' = TRUE /\ UNCHANGED queue
    /\ ownerPc' = "drainCall"
    /\ UNCHANGED <<mutex, flags, workerPc, readerPc, workerItem, ownerItem,
                   accepted, delivered, starts, missedNotify>>

DrainCall ==
    /\ ownerPc = "drainCall"
    /\ delivered' = IF callback THEN ownerItem ELSE delivered
    /\ ownerItem' = NoItem
    /\ ownerPc' = "drain"
    /\ UNCHANGED <<queue, mutex, flags, workerPc, readerPc, workerItem,
                   accepted, starts, missedNotify, corrupted>>

\* std::swap(queue, empty), no mutex
Swap ==
    /\ ownerPc = "swap"
    /\ \/ queue' = <<>> /\ UNCHANGED corrupted
       \/ Mutating /\ corrupted' = TRUE /\ UNCHANGED queue
    /\ ownerPc' = "notify"
    /\ UNCHANGED <<mutex, flags, workerPc, readerPc, workerItem, ownerItem,
                   accepted, delivered, starts, missedNotify>>

\* condition.notify_all(), no mutex
StopNotify ==
    /\ ownerPc = "notify"
    /\ workerPc' = Notified(workerPc)
    /\ missedNotify' = (workerPc = "enterWait")
    /\ ownerPc' = "join"
    /\ UNCHANGED <<queue, mutex, flags, readerPc, workerItem, ownerItem,
                   accepted, delivered, starts, corrupted>>

JoinDetaches == joinable' = FALSE /\ UNCHANGED workerPc

\* thread.join() waits for thread_method() to return.
JoinWaits == workerPc = "done" /\ joinable' = FALSE /\ workerPc' = "none"

Join ==
    /\ ownerPc = "join"
    /\ JoinWaits
    /\ missedNotify' = FALSE
    /\ ownerPc' = "idle"
    /\ UNCHANGED <<queue, mutex, stopRequested, stopping, callback, readerPc, workerItem,
                   ownerItem, accepted, delivered, starts, drained, corrupted>>

----------------------------------------------------------------------------
Reader == EnqueueTestFlags \/ EnqueueTestSize \/ EnqueueLock \/ EnqueuePush

Worker ==
    \/ WorkerLoop \/ WorkerLock \/ WorkerTake \/ WorkerPop \/ WorkerCall
    \/ WorkerTest \/ WorkerWait \/ WorkerWake

StopStep ==
    \/ PreStop \/ DrainTake \/ DrainPop \/ DrainCall \/ Swap \/ StopNotify \/ Join

Owner == SetDequeueCallback \/ Start \/ PostStop \/ Stop \/ StopStep

Next == ~corrupted /\ (Reader \/ Worker \/ SpuriousWakeup \/ Owner)

Spec == Init /\ [][Next]_vars

\* Each thread the system schedules goes on, and one that asks for a mutex
\* released again and again gets it; nothing makes the application call
\* start() or stop(), the radar send, or a wait end by itself.
Fairness ==
    /\ WF_vars(~corrupted /\ Worker)
    /\ SF_vars(~corrupted /\ (WorkerLock \/ WorkerWake))
    /\ WF_vars(~corrupted /\ (EnqueueTestSize \/ EnqueuePush))
    /\ SF_vars(~corrupted /\ EnqueueLock)
    /\ WF_vars(~corrupted /\ (PostStop \/ StopStep))

FairSpec == Spec /\ Fairness

----------------------------------------------------------------------------
(* Properties *)

Items == 1 .. MaxAccepted

WorkerPcs == {"none", "loop", "lock", "take", "pop", "call", "relock", "test",
              "enterWait", "waiting", "wake", "done"}
ReaderPcs == {"idle", "size", "lock", "push"}
OwnerPcs == {"idle", "postStop", "preStop", "drain", "drainPop", "drainCall", "swap",
             "notify", "join"}

\* The types of the queue, its flags and the three threads' positions.
TypeOK ==
    /\ queue \in Seq(Nat \ {0})
    /\ mutex \in {Nobody, "reader", "worker"}
    /\ stopRequested \in BOOLEAN /\ stopping \in BOOLEAN
    /\ joinable \in BOOLEAN /\ callback \in BOOLEAN
    /\ workerPc \in WorkerPcs /\ readerPc \in ReaderPcs /\ ownerPc \in OwnerPcs
    /\ workerItem \in Nat /\ ownerItem \in Nat
    /\ accepted \in Nat /\ delivered \in Nat /\ starts \in Nat
    /\ missedNotify \in BOOLEAN /\ drained \in BOOLEAN /\ corrupted \in BOOLEAN

\* The deque never holds more than max_queue_depth + 1 items (one more once
\* stop() has drained it), although enqueue() tests its size before it takes the
\* mutex and the size it reads during a pop is arbitrary.
DepthBound == Len(queue) <= MaxDepth + (IF drained THEN 2 ELSE 1)

\* Until stop() drains, every item waiting, or in the worker's hands, is newer
\* than the last one delivered: delivery is in order and at most once, across
\* stops and restarts.
InOrder ==
    ~drained =>
        /\ \A i \in 1 .. Len(queue) : delivered < queue[i] /\ queue[i] <= accepted
        /\ \A i, j \in 1 .. Len(queue) : i < j => queue[i] < queue[j]
        /\ workerPc = "call" =>
              /\ delivered < workerItem
              /\ \A i \in 1 .. Len(queue) : workerItem < queue[i]

\* enqueue() tests `stopping` before it pushes, so an item can slip in behind
\* the swap of stop() and is delivered after the next start(): at most one,
\* whether it is in the deque already or still on its way.
AtMostOneSurvivor ==
    ~joinable => Len(queue) + (IF readerPc = "idle" THEN 0 ELSE 1) <= 1

\* Once stop() has returned the callback is not running and cannot run before
\* the next start().
QuietWhenStopped ==
    ownerPc = "idle" /\ ~joinable => workerPc \notin {"take", "pop", "call"}

\* The deque is destroyed only while stop() is emptying it without the mutex.
UndefinedOnlyInStop == corrupted => ownerPc \notin {"idle", "postStop", "preStop"}

\* stop() waits for a worker that sleeps only if its notify_all() fell between
\* the worker's test of stop_requested and its wait().
OnlyMissedNotifyHangs ==
    ownerPc = "join" /\ workerPc = "waiting" => missedNotify

\* A stop is clean: it ends the callbacks, destroys the deque at most itself,
\* and waits for ever only when its notification was missed.
CleanStop == QuietWhenStopped /\ UndefinedOnlyInStop /\ OnlyMissedNotifyHangs

\* stop() returns, unless its notification was missed or the deque destroyed.
StopReturnsUnlessMissed ==
    (ownerPc = "preStop") ~> (ownerPc = "idle" \/ missedNotify \/ corrupted)

\* An item in a running queue reaches the callback or is overtaken by a
\* stop(): no notification of enqueue() is lost.
AcceptedIsDelivered ==
    \A n \in Items :
        (joinable /\ ~stopping /\ callback /\ \E i \in 1 .. Len(queue) : queue[i] = n)
            ~> (delivered >= n \/ stopping \/ corrupted)

----------------------------------------------------------------------------
(* What is pending: the item in the worker's hands, then those in the deque.
   An item popped on its way to the callback has left the deque; one that is
   copied and not yet popped has not. *)
Pending == (IF workerPc = "call" /\ ~corrupted THEN <<workerItem>> ELSE <<>>) \o queue

Fifo == INSTANCE LossyFifo WITH pending <- Pending

\* Until stop() drains, the queue implements the lossy FIFO: each of its steps
\* is a step of LossyFifo or changes nothing of it.
ImplementsLossyFifo ==
    Fifo!FifoInit /\ [][drained' \/ Fifo!FifoNext]_(Fifo!fifoVars)
=============================================================================
