---------------------------- MODULE SharedPipeline ----------------------------
(***************************************************************************)
(* runSharedQueuePipeline (pipeline.cpp) over GlobalLockQueue: ingress     *)
(* threads push, workers pop, and the main thread sleeps until the         *)
(* deadline, raises ingress_stop, joins the ingress threads, closes the    *)
(* queue and joins the workers.  A thread that throws raises ingress_stop  *)
(* and closes the queue before it ends.                                    *)
(***************************************************************************)
EXTENDS GlobalLockQueue

CONSTANT Warmup   \* events 1 .. Warmup are created before measuring starts

ASSUME WarmupAssumption == Warmup \in Nat

\* validatePipelineConfig wants a worker; the owner raises ingress_stop by itself.
ASSUME PoolsAssumption == Consumers # {} /\ Producers \cap Consumers = {}
ASSUME FlagAssumption  == {"push"} \in StopScopes

VARIABLES
  config_policy,   \* config.policy
  expired,         \* measure_end has passed
  main,            \* what the main thread is about to do
  thread,          \* each thread: running, in its exception handler, exited
  failed,          \* recordError was called
  generated, accepted, completed, dropped_ingress   \* PipelineState

counters     == <<generated, accepted, completed, dropped_ingress>>
pipelineVars == <<config_policy, expired, main, thread, failed, counters>>
allVars      == <<vars, pipelineVars>>
queueKept    == <<config, queue, pushVars, popVars>>

Threads == Producers \cup Consumers

\* isMeasuredTimestamp and isMeasuredEvent: an event counts if it was created
\* after the warmup; the pushes are numbered in the order of their creation.
Measured(e)   == e > Warmup
CountIf(b, n) == IF b THEN n + 1 ELSE n

PipelineInit ==
  /\ Init
  /\ config_policy \in {"Block", "Drop"}
  /\ expired = FALSE /\ failed = FALSE /\ main = "sleep"
  /\ thread = [t \in Threads |-> "run"]
  /\ generated = 0 /\ accepted = 0 /\ completed = 0 /\ dropped_ingress = 0

ThreadAt(t, pc) == thread' = [thread EXCEPT ![t] = pc]

-----------------------------------------------------------------------------
(* An ingress thread                                                       *)

\* The loop condition, the deadline and the next event.
Generate(p) ==
  /\ thread[p] = "run"
  /\ ~stop["push"] /\ ~expired
  /\ PushCall(p)
  /\ policy'[p] = config_policy
  /\ generated' = CountIf(Measured(ev'[p]), generated)
  /\ UNCHANGED <<config_policy, expired, main, thread, failed, accepted, completed,
                 dropped_ingress>>

IngressPush(p) ==
  /\ thread[p] = "run"
  /\ EnterPush(p) \/ ResumePush(p) \/ RelockPush(p)
  /\ UNCHANGED pipelineVars

CountPush(p) ==
  /\ PushReturn(p)
  /\ accepted' = CountIf(ppc[p] = "ok" /\ Measured(ev[p]), accepted)
  /\ dropped_ingress' =
       CountIf(ppc[p] = "no" /\ config_policy = "Drop" /\ Measured(ev[p]), dropped_ingress)
  /\ UNCHANGED <<config_policy, expired, main, thread, failed, generated, completed>>

\* push is about to insert: there is room, and nothing it looks at first refuses.
AboutToInsert(p) ==
  /\ ppc[p] \in {"enter", "woken", "spin"}
  /\ capacity = 0 \/ HasRoom
  /\ closed => ppc[p] = "spin"
  /\ stop["push"] => wait_strategy = "SpinYield" \/ capacity = 0 \/ policy[p] = "Drop"

\* push_back has no memory for the event; the deque is as it was.
IngressThrows(p) ==
  /\ thread[p] = "run" /\ AboutToInsert(p)
  /\ failed' = TRUE
  /\ ThreadAt(p, "stopping")
  /\ UNCHANGED <<vars, config_policy, expired, main, counters>>

LeaveIngress(p) ==
  /\ thread[p] = "run" /\ ppc[p] = "idle"
  /\ stop["push"] \/ expired
  /\ ThreadAt(p, "exited")
  /\ UNCHANGED <<vars, config_policy, expired, main, failed, counters>>

-----------------------------------------------------------------------------
(* A worker                                                                *)

WorkerPop(c) ==
  /\ thread[c] = "run"
  /\ PopCall(c) \/ EnterPop(c) \/ ResumePop(c) \/ RelockPop(c)
  /\ UNCHANGED pipelineVars

\* Mutant of CompleteEvent: the events of the warmup are counted too.
CompleteAnyEvent(c) ==
  /\ thread[c] = "run"
  /\ PopReturn(c)
  /\ completed' = completed + 1
  /\ UNCHANGED <<config_policy, expired, main, thread, failed, generated, accepted,
                 dropped_ingress>>

CompleteEvent(c) ==
  /\ thread[c] = "run"
  /\ PopReturn(c)
  /\ completed' = CountIf(Measured(out[c]), completed)
  /\ UNCHANGED <<config_policy, expired, main, thread, failed, generated, accepted,
                 dropped_ingress>>

\* Storing the latency of a measured event throws, after the event was counted.
WorkerThrows(c) ==
  /\ thread[c] = "run" /\ cpc[c] = "ok" /\ Measured(out[c])
  /\ completed' = completed + 1
  /\ failed' = TRUE
  /\ ThreadAt(c, "stopping")
  /\ UNCHANGED <<vars, config_policy, expired, main, generated, accepted, dropped_ingress>>

LeaveWorker(c) ==
  /\ thread[c] = "run" /\ cpc[c] = "no"
  /\ ThreadAt(c, "exited")
  /\ UNCHANGED <<vars, config_policy, expired, main, failed, counters>>

-----------------------------------------------------------------------------
(* The exception handlers, alike in workers and ingress threads            *)

SetIngressStop ==
  /\ stop' = [stop EXCEPT !["push"] = TRUE]
  /\ UNCHANGED <<queueKept, closed>>

\* Mutant of CloseQueue: the parked threads are not notified.
CloseQueueSilent ==
  /\ closed' = TRUE
  /\ UNCHANGED <<queueKept, stop>>

\* close() on a queue that may be closed already.
CloseQueue == IF closed THEN UNCHANGED vars ELSE Close

HandlerStops(t) ==
  /\ thread[t] = "stopping"
  /\ SetIngressStop
  /\ ThreadAt(t, "closing")
  /\ UNCHANGED <<config_policy, expired, main, failed, counters>>

HandlerCloses(t) ==
  /\ thread[t] = "closing"
  /\ CloseQueue
  /\ ThreadAt(t, "exited")
  /\ UNCHANGED <<config_policy, expired, main, failed, counters>>

-----------------------------------------------------------------------------
(* The main thread, the clock and the condition variables                  *)

Expire ==
  /\ ~expired
  /\ expired' = TRUE
  /\ UNCHANGED <<vars, config_policy, main, thread, failed, counters>>

StopIngress ==
  /\ main = "sleep" /\ expired
  /\ SetIngressStop
  /\ main' = "join_ingress"
  /\ UNCHANGED <<config_policy, expired, thread, failed, counters>>

Exited(T) == \A t \in T : thread[t] = "exited"

\* Mutant of JoinIngress: the queue is closed while ingress threads still push.
JoinIngressSkipped ==
  /\ main = "join_ingress"
  /\ main' = "close"
  /\ UNCHANGED <<vars, config_policy, expired, thread, failed, counters>>

JoinIngress ==
  /\ main = "join_ingress" /\ Exited(Producers)
  /\ main' = "close"
  /\ UNCHANGED <<vars, config_policy, expired, thread, failed, counters>>

MainCloses ==
  /\ main = "close"
  /\ CloseQueue
  /\ main' = "join_workers"
  /\ UNCHANGED <<config_policy, expired, thread, failed, counters>>

JoinWorkers ==
  /\ main = "join_workers" /\ Exited(Consumers)
  /\ main' = "done"
  /\ UNCHANGED <<vars, config_policy, expired, thread, failed, counters>>

Wakeup == SpuriousWakeup /\ UNCHANGED pipelineVars

Done == main = "done" /\ UNCHANGED allVars

IngressStep(p) == IngressPush(p) \/ CountPush(p) \/ LeaveIngress(p)
WorkerStep(c)  == WorkerPop(c) \/ CompleteEvent(c) \/ LeaveWorker(c)
HandlerStep(t) == HandlerStops(t) \/ HandlerCloses(t)
MainStep       == StopIngress \/ JoinIngress \/ MainCloses \/ JoinWorkers

PipelineNext ==
  \/ \E p \in Producers : Generate(p) \/ IngressStep(p) \/ IngressThrows(p)
  \/ \E c \in Consumers : WorkerStep(c) \/ WorkerThrows(c)
  \/ \E t \in Threads : HandlerStep(t)
  \/ MainStep \/ Expire \/ Wakeup \/ Done

\* Threads are scheduled and the deadline passes; no event need be generated, no
\* exception need be thrown, and a parked thread is owed no spurious wakeup.
PipelineSpec ==
  /\ PipelineInit /\ [][PipelineNext]_allVars
  /\ \A p \in Producers : WF_allVars(IngressStep(p))
  /\ \A c \in Consumers : WF_allVars(WorkerStep(c))
  /\ \A t \in Threads : WF_allVars(HandlerStep(t))
  /\ WF_allVars(MainStep) /\ WF_allVars(Expire)

-----------------------------------------------------------------------------
(* Properties                                                              *)

\* Type of what the pipeline adds to the queue.  The counters never run ahead of the
\* measured events generated so far, not in a run that failed either: an event is
\* completed once, whether its worker then throws or not, and none of the warmup is.
PipelineTypeOK ==
  /\ TypeOK
  /\ config_policy \in {"Block", "Drop"}
  /\ expired \in BOOLEAN /\ failed \in BOOLEAN
  /\ main \in {"sleep", "join_ingress", "close", "join_workers", "done"}
  /\ thread \in [Threads -> {"run", "stopping", "closing", "exited"}]
  /\ generated \in 0 .. push_attempts
  /\ {accepted, completed, dropped_ingress} \subseteq 0 .. generated

\* Once every thread is joined without an error the queue is drained, accepted
\* equals completed, under Drop every generated event is accepted or counted
\* as dropped, and under Block at most one event of each ingress thread, the
\* one the stop interrupted, is neither.
EventsAccounted ==
  main = "done" /\ ~failed =>
    /\ queue = <<>> /\ accepted = completed
    /\ config_policy = "Drop" => generated = accepted + dropped_ingress
    /\ config_policy = "Block" =>
         dropped_ingress = 0 /\ generated <= accepted + Cardinality(Producers)

\* Every run ends: neither workers that share the queue, one of which may throw while
\* another is parked on it empty, nor ingress threads parked on it full leave a
\* thread behind, as long as it has a place for each ingress thread.
Terminates == <>(main = "done")

\* The pipeline uses the queue only as GlobalLockQueue allows.
UsesQueue == Spec
=============================================================================
