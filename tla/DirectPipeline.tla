---------------------------- MODULE DirectPipeline ----------------------------
(***************************************************************************)
(* runDirectLocalSpscPipeline (pipeline.cpp) with one ingress thread and   *)
(* one worker: the threads run the steps of SpscRing, and the main thread  *)
(* stops the ingress, joins it, closes the queue and joins the worker.     *)
(* Pairs of an ingress and its worker share nothing but the counters and   *)
(* the order of the joins, so one pair shows how a run ends.               *)
(***************************************************************************)
EXTENDS SpscRing, FiniteSets

CONSTANT Warmup   \* events 1 .. Warmup are created before measuring starts

ASSUME WarmupAssumption == Warmup \in Nat

VARIABLES
  config_policy,    \* config.policy
  expired,          \* measure_end has passed
  main,             \* what the main thread is about to do
  ingress, worker,  \* the two threads: running, or on their way out
  failed,           \* recordError was called
  generated, accepted, completed, dropped_ingress   \* PipelineState

counters    == <<generated, accepted, completed, dropped_ingress>>
threads     == <<main, ingress, worker>>
pipelineVars == <<config_policy, expired, threads, failed, counters>>
allVars     == <<vars, pipelineVars>>

\* isMeasuredTimestamp: whether an event counts is settled when it is created.
Measured(e)      == e > Warmup
CountIf(b, n)    == IF b THEN n + 1 ELSE n

PipelineInit ==
  /\ Init
  /\ config_policy \in {"Block", "Drop"}
  /\ expired = FALSE /\ failed = FALSE
  /\ main = "sleep" /\ ingress = "run" /\ worker = "run"
  /\ generated = 0 /\ accepted = 0 /\ completed = 0 /\ dropped_ingress = 0

-----------------------------------------------------------------------------
(* The ingress thread                                                      *)

\* The loop condition, the deadline and the next event.
Generate ==
  /\ ingress = "run"
  /\ ~stop["push"] /\ ~expired
  /\ PushCall
  /\ policy' = config_policy
  /\ generated' = CountIf(Measured(ev'), generated)
  /\ UNCHANGED <<config_policy, expired, threads, failed, accepted, completed,
                 dropped_ingress>>

IngressPush ==
  /\ CheckClosed \/ LoadHead \/ WriteCell \/ PublishTail \/ Account
  /\ UNCHANGED pipelineVars

CountPush ==
  /\ PushReturn
  /\ accepted' = CountIf(ppc = "ok" /\ Measured(ev), accepted)
  /\ dropped_ingress' =
       CountIf(ppc = "no" /\ config_policy = "Drop" /\ Measured(ev), dropped_ingress)
  /\ UNCHANGED <<config_policy, expired, threads, failed, generated, completed>>

LeaveIngress ==
  /\ ingress = "run" /\ ppc = "idle"
  /\ stop["push"] \/ expired
  /\ ingress' = "exited"
  /\ UNCHANGED <<vars, config_policy, expired, main, worker, failed, counters>>

-----------------------------------------------------------------------------
(* The worker thread                                                       *)

WorkerPop ==
  /\ worker = "run"
  /\ PopCall \/ LoadTail \/ CheckStop \/ ReadCell \/ AdvanceHead \/ CountPop
  /\ UNCHANGED pipelineVars

\* Mutant of CompleteEvent: warmup events count as completed.
CompleteAnyEvent ==
  /\ worker = "run"
  /\ PopReturn
  /\ completed' = completed + 1
  /\ UNCHANGED <<config_policy, expired, threads, failed, generated, accepted,
                 dropped_ingress>>

CompleteEvent ==
  /\ worker = "run"
  /\ PopReturn
  /\ completed' = CountIf(Measured(out), completed)
  /\ UNCHANGED <<config_policy, expired, threads, failed, generated, accepted,
                 dropped_ingress>>

\* Storing the latency of a measured event throws, after it was counted; the
\* handler sets ingress_stop and closes the queue.
WorkerThrows ==
  /\ worker = "run" /\ cpc = "ok" /\ Measured(out)
  /\ completed' = completed + 1
  /\ failed' = TRUE
  /\ worker' = "stopping"
  /\ UNCHANGED <<vars, config_policy, expired, main, ingress, generated, accepted,
                 dropped_ingress>>

\* Mutant of SetIngressStop: the worker's flag is raised as well.
SetBothStops   == stop' = [f \in Flags |-> TRUE]

SetIngressStop == stop' = [stop EXCEPT !["push"] = TRUE]
ringKept       == <<queueVars, pushStats, pushVars, popVars, pop_success>>

WorkerStops ==
  /\ worker = "stopping"
  /\ SetIngressStop
  /\ worker' = "closing"
  /\ UNCHANGED <<ringKept, closed, config_policy, expired, main, ingress, failed, counters>>

WorkerCloses ==
  /\ worker = "closing"
  /\ closed' = TRUE
  /\ worker' = "exited"
  /\ UNCHANGED <<ringKept, stop, config_policy, expired, main, ingress, failed, counters>>

LeaveWorker ==
  /\ worker = "run" /\ cpc = "no"
  /\ worker' = "exited"
  /\ UNCHANGED <<vars, config_policy, expired, main, ingress, failed, counters>>

-----------------------------------------------------------------------------
(* The main thread and the clock                                           *)

Expire ==
  /\ ~expired
  /\ expired' = TRUE
  /\ UNCHANGED <<vars, config_policy, threads, failed, counters>>

StopIngress ==
  /\ main = "sleep" /\ expired
  /\ SetIngressStop
  /\ main' = "join_ingress"
  /\ UNCHANGED <<ringKept, closed, config_policy, expired, ingress, worker, failed, counters>>

JoinIngress ==
  /\ main = "join_ingress" /\ ingress = "exited"
  /\ main' = "close"
  /\ UNCHANGED <<vars, config_policy, expired, ingress, worker, failed, counters>>

\* Mutant of CloseQueue: the worker is joined without closing its queue.
CloseForgotten ==
  /\ main = "close"
  /\ main' = "join_worker"
  /\ UNCHANGED <<vars, config_policy, expired, ingress, worker, failed, counters>>

CloseQueue ==
  /\ main = "close"
  /\ closed' = TRUE
  /\ main' = "join_worker"
  /\ UNCHANGED <<ringKept, stop, config_policy, expired, ingress, worker, failed, counters>>

JoinWorker ==
  /\ main = "join_worker" /\ worker = "exited"
  /\ main' = "done"
  /\ UNCHANGED <<vars, config_policy, expired, ingress, worker, failed, counters>>

Done == main = "done" /\ UNCHANGED allVars

IngressStep == IngressPush \/ CountPush \/ LeaveIngress
WorkerStep  == WorkerPop \/ CompleteEvent \/ WorkerThrows \/ WorkerStops \/ WorkerCloses
                 \/ LeaveWorker
MainStep    == StopIngress \/ JoinIngress \/ CloseQueue \/ JoinWorker

PipelineNext == Generate \/ IngressStep \/ WorkerStep \/ MainStep \/ Expire \/ Done

\* Threads are scheduled and the deadline passes; no event need be generated.
PipelineSpec ==
  /\ PipelineInit /\ [][PipelineNext]_allVars
  /\ WF_allVars(IngressStep) /\ WF_allVars(WorkerStep) /\ WF_allVars(MainStep)
  /\ WF_allVars(Expire)

-----------------------------------------------------------------------------
(* Properties                                                              *)

\* Type of what the pipeline adds to the ring.
PipelineTypeOK ==
  /\ TypeOK
  /\ config_policy \in {"Block", "Drop"}
  /\ expired \in BOOLEAN /\ failed \in BOOLEAN
  /\ main \in {"sleep", "join_ingress", "close", "join_worker", "done"}
  /\ ingress \in {"run", "exited"}
  /\ worker \in {"run", "stopping", "closing", "exited"}
  /\ generated \in Nat /\ accepted \in Nat /\ completed \in Nat /\ dropped_ingress \in Nat

\* The pipeline uses the ring only as SpscRing allows, so what is proved of
\* SpscRing holds of every run of the pipeline.
UsesRing == Spec

Stranded == Cardinality({i \in 1 .. Depth : Measured(Window[i])})

\* Once both threads are joined without an error, every event measured as
\* accepted was completed or lies in the ring, no event was completed twice,
\* and under Block the only event neither accepted nor counted as dropped is
\* the one the stop interrupted.
EventsAccounted ==
  main = "done" /\ ~failed =>
    /\ accepted = completed + Stranded
    /\ config_policy = "Drop" => generated = accepted + dropped_ingress
    /\ config_policy = "Block" => dropped_ingress = 0 /\ generated <= accepted + 1

\* Every run ends: no join waits for ever, not even when the worker has thrown
\* while the ingress was blocked on a full ring.
Terminates == <>(main = "done")

\* What the tests assert of a finished run (test_pipeline.cpp:118).
Drained == main = "done" /\ ~failed => accepted = completed
=============================================================================
