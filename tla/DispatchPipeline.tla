--------------------------- MODULE DispatchPipeline ---------------------------
(***************************************************************************)
(* runDispatchLocalSpscPipeline (pipeline.cpp): ingress threads push into  *)
(* a dispatch queue, one dispatcher moves every event on to the ring of    *)
(* its worker, and each worker pops its own ring.  Main raises             *)
(* ingress_stop at the deadline, joins the ingress threads, closes the     *)
(* dispatch queue and joins the others; the dispatcher closes the rings.   *)
(*                                                                         *)
(* The queues are what EventQueue promises of them: a push accepts when    *)
(* there is room, and a pop that refuses found the queue empty and then    *)
(* looked at closed_.  An event may come between the two looks, unless one *)
(* mutex covers both; and a semaphore's try_acquire may fail at any time.  *)
(* A push that spins returns when the queue is closed or ingress_stop is   *)
(* up.  A GlobalLockQueue parks it on not_full_cv_ by default, and there   *)
(* it hears only of a pop and of close.  (The one consumer needs no such   *)
(* care: every push and close notifies it.)                                *)
(***************************************************************************)
EXTENDS Naturals, Sequences, FiniteSets

CONSTANTS
  Ingress,          \* ingress threads
  Dispatcher,       \* the dispatcher thread
  WorkerThreads,    \* config.worker_threads
  IngressCapacity,  \* config.ingress_queue_capacity
  WorkerCapacity,   \* config.worker_queue_capacity
  MaxEvents,        \* bound: events 1 .. MaxEvents are generated
  Warmup            \* events 1 .. Warmup are created before measuring starts

ASSUME SizesAssumption ==
  /\ WorkerThreads \in Nat \ {0} /\ WorkerCapacity \in Nat \ {0}
  /\ IngressCapacity \in Nat \ {0} /\ MaxEvents \in Nat /\ Warmup \in Nat

Workers == 1 .. WorkerThreads
Threads == Ingress \cup {Dispatcher} \cup Workers

ASSUME ThreadsAssumption ==
  IsFiniteSet(Ingress) /\ Dispatcher \notin Ingress \cup Workers /\ Ingress \cap Workers = {}

\* The dispatch queue, and the ring of each worker.
dispatch_queue == 0
Queues == {dispatch_queue} \cup Workers
WorkerQueues == [w \in Workers |-> w]
AllQueues == <<dispatch_queue>> \o WorkerQueues

VARIABLES
  policy,        \* config.policy
  global_lock,   \* the dispatch queue is a GlobalLockQueue, or else has semaphores
  wait_strategy, \* of the dispatch queue; only GlobalLockQueue heeds ConditionVariable
  queue, closed,
  ingress_stop,  \* PipelineState::ingress_stop
  expired,       \* measure_end has passed
  main,          \* what the main thread waits for
  pc,            \* each thread: in its loop, in push, gone to look at closed_, closing, exited
  parked,        \* the ingress threads asleep on not_full_cv_ in their push
  held,          \* the event a thread is about to push
  to_close,      \* the queues a thread has still to close before it ends
  created,       \* events generated so far, measured or not
  failed,        \* recordError was called
  generated, accepted, completed, dropped_ingress, dropped_dispatch   \* PipelineState

queues   == <<queue, closed>>
config   == <<policy, global_lock, wait_strategy>>
counters == <<generated, accepted, completed, dropped_ingress, dropped_dispatch>>
vars == <<config, queues, ingress_stop, expired, main, pc, parked, held, to_close, created,
          failed, counters>>

NoEvent == [id |-> 0, target_worker |-> 1]
Events  == [id : 1 .. MaxEvents, target_worker : Workers]

Measured(e)   == e.id > Warmup
CountIf(b, n) == IF b THEN n + 1 ELSE n

Init ==
  /\ policy \in {"Block", "Drop"} /\ global_lock \in BOOLEAN
  /\ wait_strategy \in {"ConditionVariable", "SpinYield"}
  /\ wait_strategy = "ConditionVariable" => global_lock
  /\ queue = [q \in Queues |-> <<>>] /\ closed = [q \in Queues |-> FALSE]
  /\ ingress_stop = FALSE /\ expired = FALSE /\ failed = FALSE
  /\ main = "deadline"
  /\ pc = [t \in Threads |-> "loop"]
  /\ parked = {}
  /\ held = [t \in Threads |-> NoEvent]
  /\ to_close = [t \in Threads |-> <<>>]
  /\ created = 0
  /\ generated = 0 /\ accepted = 0 /\ completed = 0
  /\ dropped_ingress = 0 /\ dropped_dispatch = 0

Goto(t, l) == pc' = [pc EXCEPT ![t] = l]

-----------------------------------------------------------------------------
(* What a thread does with a queue                                         *)

HasRoom(q) ==
  Len(queue[q]) < IF q = dispatch_queue THEN IngressCapacity ELSE WorkerCapacity

HasSemaphores(q) == q = dispatch_queue /\ ~global_lock

\* A push into the dispatch queue waits for its place on not_full_cv_.
Waits == global_lock /\ wait_strategy = "ConditionVariable" /\ policy = "Block"

\* The push's wait is over: for good when the queue is closed or ingress_stop is up.
Cancelled == closed[dispatch_queue] \/ ingress_stop

NotifyOne == parked' \in IF parked = {} THEN {{}} ELSE {parked \ {i} : i \in parked}
NotifyAllOf(q) == parked' = IF q = dispatch_queue THEN {} ELSE parked

\* push: the thread's event goes in, and the thread goes on with its loop.
Accept(t, q) ==
  /\ pc[t] = "push" /\ HasRoom(q)
  /\ queue' = [queue EXCEPT ![q] = Append(@, held[t])]
  /\ held' = [held EXCEPT ![t] = NoEvent]
  /\ Goto(t, "loop")

\* push: the event is refused; stopped is the caller's stop flag.
Refuse(t, q, stopped) ==
  /\ pc[t] = "push"
  /\ closed[q] \/ stopped \/ (policy = "Drop" /\ (HasRoom(q) => HasSemaphores(q)))
  /\ held' = [held EXCEPT ![t] = NoEvent]
  /\ Goto(t, "loop")
  /\ UNCHANGED queue

\* pop: the queue is found empty; the thread is then to look at closed_.
FindEmpty(t, q) ==
  /\ pc[t] = "loop"
  /\ queue[q] = <<>> \/ HasSemaphores(q)
  /\ Goto(t, "empty")
  /\ UNCHANGED <<config, queues, ingress_stop, expired, main, parked, held, to_close,
                 created, failed, counters>>

\* pop: the condition under which it answers false after an empty queue.
MayEnd(q) == closed[q] /\ (q = dispatch_queue /\ global_lock => queue[q] = <<>>)

\* pop: the queue is looked at again.
TryAgain(t, q) ==
  /\ pc[t] = "empty" /\ ~MayEnd(q)
  /\ Goto(t, "loop")
  /\ UNCHANGED <<config, queues, ingress_stop, expired, main, parked, held, to_close,
                 created, failed, counters>>

\* Mutant of CloseNext: the loop over the queues stops one early.
CloseAllButLast(t) ==
  /\ pc[t] = "close"
  /\ closed' = [closed EXCEPT ![Head(to_close[t])] = TRUE]
  /\ to_close' = [to_close EXCEPT ![t] = Tail(@)]
  /\ NotifyAllOf(Head(to_close[t]))
  /\ Goto(t, IF Len(to_close[t]) <= 2 THEN "exited" ELSE "close")
  /\ UNCHANGED <<config, queue, ingress_stop, expired, main, held, created, failed, counters>>

CloseNext(t) ==
  /\ pc[t] = "close"
  /\ closed' = [closed EXCEPT ![Head(to_close[t])] = TRUE]
  /\ to_close' = [to_close EXCEPT ![t] = Tail(@)]
  /\ NotifyAllOf(Head(to_close[t]))
  /\ Goto(t, IF Len(to_close[t]) = 1 THEN "exited" ELSE "close")
  /\ UNCHANGED <<config, queue, ingress_stop, expired, main, held, created, failed, counters>>

\* An exception handler: recordError, ingress_stop, and the queues it closes.
Handle(t, toClose) ==
  /\ failed' = TRUE /\ ingress_stop' = TRUE
  /\ to_close' = [to_close EXCEPT ![t] = toClose]
  /\ Goto(t, "close")

-----------------------------------------------------------------------------
(* An ingress thread                                                       *)

Generate(i) ==
  /\ pc[i] = "loop" /\ ~ingress_stop /\ ~expired
  /\ created < MaxEvents
  /\ created' = created + 1
  /\ \E w \in Workers : held' = [held EXCEPT ![i] = [id |-> created', target_worker |-> w]]
  /\ generated' = CountIf(Measured(held'[i]), generated)
  /\ Goto(i, "push")
  /\ UNCHANGED <<config, queues, ingress_stop, expired, main, parked, to_close, failed, accepted,
                 completed, dropped_ingress, dropped_dispatch>>

\* push finds no place and goes to sleep on not_full_cv_.
Park(i) ==
  /\ pc[i] = "push" /\ i \notin parked
  /\ Waits /\ ~HasRoom(dispatch_queue) /\ ~Cancelled
  /\ parked' = parked \cup {i}
  /\ UNCHANGED <<config, queues, ingress_stop, expired, main, pc, held, to_close, created, failed,
                 counters>>

\* A condition variable may wake a thread for no reason.
Wakeup(i) ==
  /\ i \in parked
  /\ parked' = parked \ {i}
  /\ UNCHANGED <<config, queues, ingress_stop, expired, main, pc, held, to_close, created, failed,
                 counters>>

IngressPush(i) ==
  /\ i \notin parked
  /\ \/ /\ Waits => ~Cancelled
        /\ Accept(i, dispatch_queue)
        /\ accepted' = CountIf(Measured(held[i]), accepted)
        /\ UNCHANGED dropped_ingress
     \/ /\ Refuse(i, dispatch_queue, ingress_stop)
        /\ dropped_ingress' = CountIf(policy = "Drop" /\ Measured(held[i]), dropped_ingress)
        /\ UNCHANGED accepted
  /\ UNCHANGED <<config, closed, ingress_stop, expired, main, parked, to_close, created, failed,
                 generated, completed, dropped_dispatch>>

\* push has no memory for the event.
IngressThrows(i) ==
  /\ pc[i] = "push" /\ i \notin parked
  /\ HasRoom(dispatch_queue) /\ (Waits => ~Cancelled)
  /\ Handle(i, AllQueues)
  /\ UNCHANGED <<config, queues, expired, main, parked, held, created, counters>>

LeaveIngress(i) ==
  /\ pc[i] = "loop" /\ (ingress_stop \/ expired)
  /\ Goto(i, "exited")
  /\ UNCHANGED <<config, queues, ingress_stop, expired, main, parked, held, to_close,
                 created, failed, counters>>

-----------------------------------------------------------------------------
(* The dispatcher                                                          *)

\* Mutant of TakeForDispatch: no push is told of the place.
TakeSilently ==
  /\ pc[Dispatcher] = "loop" /\ queue[dispatch_queue] # <<>>
  /\ held' = [held EXCEPT ![Dispatcher] = Head(queue[dispatch_queue])]
  /\ queue' = [queue EXCEPT ![dispatch_queue] = Tail(@)]
  /\ Goto(Dispatcher, "push")
  /\ UNCHANGED <<config, closed, ingress_stop, expired, main, parked, to_close, created, failed,
                 counters>>

TakeForDispatch ==
  /\ pc[Dispatcher] = "loop" /\ queue[dispatch_queue] # <<>>
  /\ held' = [held EXCEPT ![Dispatcher] = Head(queue[dispatch_queue])]
  /\ queue' = [queue EXCEPT ![dispatch_queue] = Tail(@)]
  /\ NotifyOne
  /\ Goto(Dispatcher, "push")
  /\ UNCHANGED <<config, closed, ingress_stop, expired, main, to_close, created, failed, counters>>

\* Mutant of Dispatch: an event its ring has no place for is not counted.
DispatchUncounted ==
  /\ LET e == held[Dispatcher]
     IN  Accept(Dispatcher, e.target_worker) \/ Refuse(Dispatcher, e.target_worker, FALSE)
  /\ UNCHANGED <<config, closed, ingress_stop, expired, main, parked, to_close, created, failed,
                 counters>>

\* The dispatcher passes pop_stop to push, which nobody raises.
Dispatch ==
  /\ LET e == held[Dispatcher]
     IN  \/ /\ Accept(Dispatcher, e.target_worker)
            /\ UNCHANGED dropped_dispatch
         \/ /\ Refuse(Dispatcher, e.target_worker, FALSE)
            /\ dropped_dispatch' = CountIf(policy = "Drop" /\ Measured(e), dropped_dispatch)
  /\ UNCHANGED <<config, closed, ingress_stop, expired, main, parked, to_close, created, failed,
                 generated, accepted, completed, dropped_ingress>>

\* After its loop the dispatcher closes the rings, but not the dispatch queue.
DispatcherThrows ==
  /\ pc[Dispatcher] = "loop"
  /\ Handle(Dispatcher, WorkerQueues)
  /\ UNCHANGED <<config, queues, expired, main, parked, held, created, counters>>

EndDispatch ==
  /\ pc[Dispatcher] = "empty" /\ MayEnd(dispatch_queue)
  /\ to_close' = [to_close EXCEPT ![Dispatcher] = WorkerQueues]
  /\ Goto(Dispatcher, "close")
  /\ UNCHANGED <<config, queues, ingress_stop, expired, main, parked, held, created, failed,
                 counters>>

-----------------------------------------------------------------------------
(* A worker                                                                *)

\* The worker pops an event, works and counts it.
TakeEvent(w) ==
  /\ pc[w] = "loop" /\ queue[w] # <<>>
  /\ queue' = [queue EXCEPT ![w] = Tail(@)]
  /\ completed' = CountIf(Measured(Head(queue[w])), completed)
  /\ UNCHANGED <<config, closed, expired, main, parked, held, created, generated, accepted,
                 dropped_ingress, dropped_dispatch>>

Complete(w) == TakeEvent(w) /\ UNCHANGED <<ingress_stop, pc, to_close, failed>>

\* Storing the latency of a measured event throws.
WorkerThrows(w) ==
  /\ TakeEvent(w) /\ Measured(Head(queue[w]))
  /\ Handle(w, AllQueues)

LeaveWorker(w) ==
  /\ pc[w] = "empty" /\ MayEnd(w)
  /\ Goto(w, "exited")
  /\ UNCHANGED <<config, queues, ingress_stop, expired, main, parked, held, to_close,
                 created, failed, counters>>

-----------------------------------------------------------------------------
(* The main thread and the clock                                           *)

Expire ==
  /\ ~expired
  /\ expired' = TRUE
  /\ UNCHANGED <<config, queues, ingress_stop, main, pc, parked, held, to_close, created, failed,
                 counters>>

Exited(T) == \A t \in T : pc[t] = "exited"

MainStep ==
  /\ \/ /\ main = "deadline" /\ expired
        /\ main' = "ingress" /\ ingress_stop' = TRUE /\ UNCHANGED <<closed, parked>>
     \/ /\ main = "ingress" /\ Exited(Ingress)
        /\ main' = "dispatcher" /\ closed' = [closed EXCEPT ![dispatch_queue] = TRUE]
        /\ NotifyAllOf(dispatch_queue)
        /\ UNCHANGED ingress_stop
     \/ /\ main = "dispatcher" /\ Exited({Dispatcher})
        /\ main' = "workers" /\ UNCHANGED <<ingress_stop, closed, parked>>
     \/ /\ main = "workers" /\ Exited(Workers)
        /\ main' = "done" /\ UNCHANGED <<ingress_stop, closed, parked>>
  /\ UNCHANGED <<config, queue, expired, pc, held, to_close, created, failed, counters>>

Done == main = "done" /\ UNCHANGED vars

IngressStep(i) == Park(i) \/ IngressPush(i) \/ LeaveIngress(i) \/ CloseNext(i)

DispatcherStep ==
  \/ FindEmpty(Dispatcher, dispatch_queue) \/ TryAgain(Dispatcher, dispatch_queue)
  \/ TakeForDispatch \/ Dispatch \/ EndDispatch \/ CloseNext(Dispatcher)

WorkerStep(w) ==
  FindEmpty(w, w) \/ TryAgain(w, w) \/ Complete(w) \/ LeaveWorker(w) \/ CloseNext(w)

Next ==
  \/ \E i \in Ingress : Generate(i) \/ IngressStep(i) \/ IngressThrows(i) \/ Wakeup(i)
  \/ DispatcherStep \/ DispatcherThrows
  \/ \E w \in Workers : WorkerStep(w) \/ WorkerThrows(w)
  \/ MainStep \/ Expire \/ Done

\* Threads are scheduled and the deadline passes.  A parked push has no step of its
\* own until a pop, close or a stray wakeup releases it, and the last is owed to nobody.
Spec ==
  /\ Init /\ [][Next]_vars
  /\ \A i \in Ingress : WF_vars(IngressStep(i))
  /\ WF_vars(DispatcherStep)
  /\ \A w \in Workers : WF_vars(WorkerStep(w))
  /\ WF_vars(MainStep) /\ WF_vars(Expire)

-----------------------------------------------------------------------------
(* Properties                                                              *)

\* What is left of the list of queues a thread closes.
Remainders == {SubSeq(AllQueues, k, WorkerThreads + 1) : k \in 1 .. WorkerThreads + 2}

\* Type of the run's state.
TypeOK ==
  /\ policy \in {"Block", "Drop"} /\ global_lock \in BOOLEAN
  /\ wait_strategy \in {"ConditionVariable", "SpinYield"} /\ parked \subseteq Ingress
  /\ queue \in [Queues -> Seq(Events)] /\ closed \in [Queues -> BOOLEAN]
  /\ ingress_stop \in BOOLEAN /\ expired \in BOOLEAN /\ failed \in BOOLEAN
  /\ main \in {"deadline", "ingress", "dispatcher", "workers", "done"}
  /\ pc \in [Threads -> {"loop", "push", "empty", "close", "exited"}]
  /\ held \in [Threads -> Events \cup {NoEvent}]
  /\ \A t \in Threads : to_close[t] \in Remainders /\ (pc[t] = "close" <=> to_close[t] # <<>>)
  /\ created \in 0 .. MaxEvents
  /\ \A n \in {generated, accepted, completed, dropped_ingress, dropped_dispatch} :
       n \in 0 .. created

\* The measured events in the queues.
MeasuredIn(q) == {i \in DOMAIN queue[q] : Measured(queue[q][i])}
Left == Cardinality(UNION {{q} \X MeasuredIn(q) : q \in Queues})

\* Once every thread is joined without an error, each accepted event is completed,
\* counted as dropped on the way to its worker, or left in a queue whose consumer
\* did not see it; a GlobalLockQueue leaves none.  Under Drop every
\* generated event is accepted or counted as dropped; under Block none is dropped
\* and at most one of each ingress thread, the one the stop interrupted, is neither.
EventsAccounted ==
  main = "done" /\ ~failed =>
    /\ accepted = completed + dropped_dispatch + Left
    /\ global_lock => queue[dispatch_queue] = <<>>
    /\ policy = "Drop" => generated = accepted + dropped_ingress
    /\ policy = "Block" =>
         /\ dropped_ingress = 0 /\ dropped_dispatch = 0
         /\ generated <= accepted + Cardinality(Ingress)

\* Every accepted event of a run without an error is completed or counted as dropped on
\* its way, as test_pipeline.cpp:83 (Block) and :101-102 (Drop) expect.  The dispatcher
\* may miss the last push into a queue with semaphores, and a worker the last event of
\* its ring: each looked before the event came and saw the queue closed after.
Drained == main = "done" /\ ~failed => accepted = completed + dropped_dispatch

\* The dispatcher threw, which leaves the dispatch queue open, and a push is parked
\* there: nobody pops any more, and main joins the ingress before it closes.
Abandoned == pc[Dispatcher] = "exited" /\ ~closed[dispatch_queue] /\ parked # {}

\* Every run ends, whichever thread throws and wherever it does, unless it is a
\* dispatcher that abandons a parked push.  The queue has a place for each ingress
\* thread: with fewer, a run may hang as one of SharedPipeline does.
Terminates == <>(main = "done") \/ <>[]Abandoned
=============================================================================
