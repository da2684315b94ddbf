------------------------- MODULE SharedPipelineProofs -------------------------
(***************************************************************************)
(* What holds of SharedPipeline for every number of ingress threads and    *)
(* workers, every capacity and wait strategy, and every warmup.            *)
(***************************************************************************)
EXTENDS SharedPipeline, GlobalLockQueueProofs

USE CapacitiesAssumption, StrategyAssumption, MaxEventsAssumption, ScopesAssumption,
    ThreadsAssumption, WarmupAssumption, PoolsAssumption, FlagAssumption

-----------------------------------------------------------------------------
(* The pipeline uses the queue as it is meant to be used                   *)

\* Raising ingress_stop is a Stop of the queue's owner, or was done before.
LEMMA StopIsStop ==
  ASSUME TypeOK, SetIngressStop
  PROVE  Stop \/ UNCHANGED vars
<1>1. stop \in [Flags -> BOOLEAN] /\ Flags = {"push", "pop"}
  BY DEF TypeOK, Flags
<1>2. CASE stop["push"]
  BY <1>1, <1>2 DEF SetIngressStop, queueKept, vars
<1>3. CASE ~stop["push"]
  <2>1. stop' = [f \in Flags |-> stop[f] \/ f \in {"push"}]
    BY <1>1 DEF SetIngressStop
  <2> QED
    BY <1>3, <2>1 DEF SetIngressStop, queueKept, Stop
<1> QED
  BY <1>2, <1>3

\* Every step of the pipeline is a step of the queue or leaves it alone.
LEMMA QueueStep == TypeOK /\ [PipelineNext]_allVars => [Next]_vars
<1> SUFFICES ASSUME TypeOK, [PipelineNext]_allVars PROVE Next \/ UNCHANGED vars
  OBVIOUS
<1>1. ASSUME NEW p \in Producers, Generate(p) \/ IngressPush(p) \/ CountPush(p)
      PROVE  Next
  BY <1>1 DEF Generate, IngressPush, CountPush, Next, PushStep
<1>2. ASSUME NEW c \in Consumers, WorkerPop(c) \/ CompleteEvent(c) PROVE Next
  BY <1>2 DEF WorkerPop, CompleteEvent, Next, PopStep
<1>3. ASSUME NEW t \in Threads, HandlerStep(t) PROVE Next \/ UNCHANGED vars
  BY <1>3, StopIsStop DEF HandlerStep, HandlerStops, HandlerCloses, CloseQueue, Next
<1>4. CASE MainStep
  BY <1>4, StopIsStop DEF MainStep, StopIngress, JoinIngress, MainCloses, JoinWorkers, CloseQueue, Next
<1>5. ASSUME NEW p \in Producers, LeaveIngress(p) \/ IngressThrows(p) PROVE UNCHANGED vars
  BY <1>5 DEF LeaveIngress, IngressThrows
<1>6. ASSUME NEW c \in Consumers, LeaveWorker(c) \/ WorkerThrows(c) PROVE UNCHANGED vars
  BY <1>6 DEF LeaveWorker, WorkerThrows
<1>7. CASE Expire \/ Wakeup \/ Done \/ UNCHANGED allVars
  BY <1>7 DEF Expire, Wakeup, Done, allVars, Next
<1> QED
  BY <1>1, <1>2, <1>3, <1>4, <1>5, <1>6, <1>7 DEF PipelineNext, IngressStep, WorkerStep

\* The queue's inductive invariant holds in the pipeline too.
LEMMA QueueInvariance == PipelineSpec => []IInv
<1>1. PipelineInit => IInv
  BY InvInit DEF PipelineInit
<1>2. IInv /\ [PipelineNext]_allVars => IInv'
  BY QueueStep, InvStep DEF IInv
<1> QED
  BY <1>1, <1>2, PTL DEF PipelineSpec

\* The pipeline calls the queue only as the queue's specification lets its
\* callers do, so what is proved of the queue holds inside the pipeline.
THEOREM QueueUsed == PipelineSpec => UsesQueue
<1>1. PipelineInit => Init
  BY DEF PipelineInit
<1>2. IInv /\ [PipelineNext]_allVars => [Next]_vars
  BY QueueStep DEF IInv
<1> QED
  BY <1>1, <1>2, QueueInvariance, PTL DEF PipelineSpec, UsesQueue, Spec

-----------------------------------------------------------------------------
(* The inductive invariant                                                 *)

\* Types; what the counters count is bounded by the balances below.
RunTypeOK ==
  /\ TypeOK
  /\ config_policy \in {"Block", "Drop"}
  /\ expired \in BOOLEAN /\ failed \in BOOLEAN
  /\ main \in {"sleep", "join_ingress", "close", "join_workers", "done"}
  /\ thread \in [Threads -> {"run", "stopping", "closing", "exited"}]
  /\ generated \in Nat /\ accepted \in Nat /\ completed \in Nat /\ dropped_ingress \in Nat

\* Only a call under way carries an event, and it has the configured policy.
Carrying ==
  /\ \A p \in Producers : IF ppc[p] = "idle" THEN ev[p] = NoEvent
                          ELSE policy[p] = config_policy
  /\ \A c \in Consumers : cpc[c] # "ok" => out[c] = NoEvent

\* ingress_stop is up before anyone closes the queue, and before push refuses an
\* event of a Block run; worker_stop never is.
Stopping ==
  /\ ~stop["pop"]
  /\ closed \/ main # "sleep" \/ (\E t \in Threads : thread[t] = "closing") => stop["push"]
  /\ \A p \in Producers : ppc[p] = "no" /\ config_policy = "Block" => stop["push"]

\* Main has joined whom it is past joining.  Without an error only main closes
\* the queue, and a thread ends only after its last call.
Joined ==
  /\ main \in {"close", "join_workers", "done"} => Exited(Producers)
  /\ main = "done" => Exited(Consumers)
  /\ ~failed =>
       /\ closed => main \in {"join_workers", "done"}
       /\ \A t \in Threads : thread[t] \in {"run", "exited"}
       /\ \A p \in Producers : thread[p] = "exited" => ppc[p] = "idle"
       /\ \A c \in Consumers : thread[c] = "exited" => cpc[c] = "no"

\* A worker that was refused saw the closed queue empty, and so it stays.
Drained == ~failed => \A c \in Consumers : cpc[c] = "no" => closed /\ queue = <<>>

\* The events that count, and those of the pushes that are about to count them.
MeasuredEvents == {e \in 0 .. MaxEvents : Measured(e)}
Taken == [p \in Producers |-> IF ppc[p] = "ok" THEN ev[p] ELSE NoEvent]

\* The events in the hands of the workers; one that threw has counted its own.
AtWork == [c \in Consumers |-> IF thread[c] = "run" THEN out[c] ELSE NoEvent]

\* An accepted event is on its way to the counter, in the queue, with a worker,
\* or completed.
DeliveryBalanced ==
  accepted + Count(Taken, MeasuredEvents)
    = completed + Count(queue, MeasuredEvents) + Count(AtWork, MeasuredEvents)

\* A generated event is being pushed, accepted or counted as dropped; but for the
\* one of each ingress thread that a Block run refuses once ingress_stop is up.
IngressBalanced ==
  LET pushing == Count(ev, MeasuredEvents)
  IN  /\ generated <= push_attempts
      /\ accepted + dropped_ingress + pushing <= generated
      /\ config_policy = "Drop" => generated = accepted + dropped_ingress + pushing
      /\ config_policy = "Block" =>
           /\ dropped_ingress = 0
           /\ generated <= accepted + Cardinality(Producers)
           /\ ~stop["push"] => generated = accepted + pushing

PipelineInv ==
  RunTypeOK /\ Carrying /\ Stopping /\ Joined /\ Drained /\ DeliveryBalanced /\ IngressBalanced

-----------------------------------------------------------------------------
(* What a step does to the queue                                           *)

\* What the owner and the condition variables do to the queue.
LEMMA OwnerEffect ==
  ASSUME TypeOK, CloseQueue \/ SetIngressStop \/ SpuriousWakeup \/ UNCHANGED vars
  PROVE  /\ UNCHANGED <<queue, push_attempts, ev, policy, out>>
         /\ Stirred(Producers, ppc, ppc') /\ Stirred(Consumers, cpc, cpc')
         /\ stop'["pop"] = stop["pop"] /\ (stop["push"] => stop'["push"])
         /\ closed => closed'
         /\ closed' => closed \/ CloseQueue
         /\ SetIngressStop => stop'["push"]
<1>a. /\ ppc \in [Producers -> Places] /\ cpc \in [Consumers -> Places]
      /\ stop \in [Flags -> BOOLEAN] /\ Flags = {"push", "pop"} /\ closed \in BOOLEAN
  BY Types DEF TypeOK, Flags
<1> USE DEF Stirred
<1>0. /\ SetIngressStop => stop'["push"]
      /\ Close /\ ~closed => CloseQueue
  BY <1>a DEF SetIngressStop, CloseQueue
<1>1. CASE SetIngressStop
  BY <1>a, <1>0, <1>1 DEF SetIngressStop, queueKept, pushVars, popVars
<1>2. CASE UNCHANGED vars
  BY <1>0, <1>2 DEF vars, pushVars, popVars
<1>3. CASE Close
  <2>1. Stirred(Producers, ppc, ppc') /\ Stirred(Consumers, cpc, cpc')
    BY <1>a, <1>3, NotifiedAll DEF Close
  <2> QED
    BY <1>0, <1>3, <2>1 DEF Close
<1>4. CASE SpuriousWakeup
  <2>1. Stirred(Producers, ppc, ppc') /\ Stirred(Consumers, cpc, cpc')
    BY <1>a, <1>4 DEF SpuriousWakeup, ParkedIn
  <2> QED
    BY <1>0, <1>4, <2>1 DEF SpuriousWakeup
<1> QED
  BY <1>1, <1>2, <1>3, <1>4 DEF CloseQueue

\* A step that belongs to no call: the owner's, the clock's, a wakeup, a thread
\* that ends or throws.
Quiet ==
  /\ CloseQueue \/ SetIngressStop \/ SpuriousWakeup \/ UNCHANGED vars
  /\ UNCHANGED <<config_policy, generated, accepted, dropped_ingress>>
  /\ failed => failed'
  /\ \/ /\ completed' = completed
        /\ \A c \in Consumers : cpc[c] = "no" \/ (thread'[c] = "run" <=> thread[c] = "run")
     \/ \E c \in Consumers : WorkerThrows(c)

\* The kinds of steps, with the looks at the queue taken together.
LEMMA Kinds ==
  ASSUME RunTypeOK, [PipelineNext]_allVars
  PROVE  \/ \E p \in Producers : Generate(p) \/ CountPush(p)
         \/ \E p \in Producers : thread[p] = "run" /\ PushOutcome(p) /\ UNCHANGED pipelineVars
         \/ \E c \in Consumers : thread[c] = "run" /\ PopCall(c) /\ UNCHANGED pipelineVars
         \/ \E c \in Consumers : thread[c] = "run" /\ PopOutcome(c) /\ UNCHANGED pipelineVars
         \/ \E c \in Consumers : CompleteEvent(c)
         \/ Quiet
<1> USE DEF Quiet, pipelineVars, counters
<1>a. thread \in [Producers \cup Consumers -> {"run", "stopping", "closing", "exited"}]
  BY DEF RunTypeOK, Threads
<1>1. ASSUME NEW p \in Producers, IngressPush(p) PROVE thread[p] = "run" /\ PushOutcome(p) /\ UNCHANGED pipelineVars
  BY <1>1, PushLooks DEF IngressPush
<1>2. ASSUME NEW c \in Consumers, WorkerPop(c), ~PopCall(c)
      PROVE  thread[c] = "run" /\ PopOutcome(c) /\ UNCHANGED pipelineVars
  BY <1>2, PopLooks DEF WorkerPop
<1>3. ASSUME NEW p \in Producers, LeaveIngress(p) \/ IngressThrows(p) PROVE Quiet
  <2>1. \A c \in Consumers : thread'[c] = thread[c]
    BY <1>3, <1>a, PoolsAssumption DEF LeaveIngress, IngressThrows, ThreadAt
  <2> QED
    BY <1>3, <2>1 DEF LeaveIngress, IngressThrows
<1>4. ASSUME NEW c \in Consumers, LeaveWorker(c) \/ WorkerThrows(c) PROVE Quiet
  <2>1. CASE WorkerThrows(c)
    BY <2>1 DEF WorkerThrows
  <2>2. CASE LeaveWorker(c)
    <3>1. \A d \in Consumers : cpc[d] = "no" \/ thread'[d] = thread[d]
      BY <1>a, <2>2 DEF LeaveWorker, ThreadAt
    <3> QED
      BY <2>2, <3>1 DEF LeaveWorker
  <2> QED
    BY <1>4, <2>1, <2>2
<1>5. ASSUME NEW t \in Threads, HandlerStep(t) PROVE Quiet
  <2>1. \A d \in Consumers : thread'[d] = "run" <=> thread[d] = "run"
    BY <1>a, <1>5 DEF HandlerStep, HandlerStops, HandlerCloses, ThreadAt
  <2> QED
    BY <1>5, <2>1 DEF HandlerStep, HandlerStops, HandlerCloses
<1>6. CASE MainStep
  BY <1>6 DEF MainStep, StopIngress, JoinIngress, MainCloses, JoinWorkers
<1>7. CASE Expire \/ Wakeup \/ Done \/ UNCHANGED allVars
  BY <1>7 DEF Expire, Wakeup, Done, allVars
<1> QED
  BY <1>1, <1>2, <1>3, <1>4, <1>5, <1>6, <1>7 DEF PipelineNext, IngressStep, WorkerStep, WorkerPop

\* What is once true stays true: the flags, and the end of a thread.
LEMMA Latches ==
  ASSUME TypeOK, RunTypeOK, [PipelineNext]_allVars
  PROVE  /\ (closed => closed') /\ (stop["push"] => stop'["push"])
         /\ stop'["pop"] = stop["pop"]
         /\ (failed => failed') /\ config_policy' = config_policy
         /\ \A t \in Threads : thread[t] = "exited" => thread'[t] = "exited"
<1>1. /\ (closed => closed') /\ (stop["push"] => stop'["push"])
      /\ stop'["pop"] = stop["pop"]
      /\ (failed => failed') /\ config_policy' = config_policy
  <2>1. ASSUME NEW p \in Producers, Generate(p) \/ CountPush(p)
        PROVE  UNCHANGED <<closed, stop, failed, config_policy>>
    BY <2>1 DEF Generate, CountPush, PushCall, PushReturn
  <2>2. ASSUME NEW p \in Producers, PushOutcome(p), UNCHANGED pipelineVars
        PROVE  UNCHANGED <<closed, stop, failed, config_policy>>
    BY <2>2 DEF PushOutcome, pipelineVars
  <2>3. ASSUME NEW c \in Consumers, ((PopCall(c) \/ PopOutcome(c)) /\ UNCHANGED pipelineVars) \/ CompleteEvent(c)
        PROVE  UNCHANGED <<closed, stop, failed, config_policy>>
    BY <2>3 DEF PopCall, PopOutcome, PopReturn, CompleteEvent, pipelineVars
  <2>4. CASE Quiet
    BY <2>4, OwnerEffect DEF Quiet
  <2> QED
    BY <2>1, <2>2, <2>3, <2>4, Kinds
<1>2. ASSUME NEW t \in Threads, thread[t] = "exited" PROVE thread'[t] = "exited"
  BY <1>2 DEF PipelineNext, Generate, IngressStep, IngressPush, CountPush, LeaveIngress, IngressThrows,
     WorkerStep, WorkerPop, CompleteEvent, LeaveWorker, WorkerThrows, HandlerStep, HandlerStops,
     HandlerCloses, MainStep, StopIngress, JoinIngress, MainCloses, JoinWorkers, Expire, Wakeup,
     Done, allVars, pipelineVars, ThreadAt, RunTypeOK, Threads
<1> QED
  BY <1>1, <1>2

-----------------------------------------------------------------------------
(* The inductive invariant is one                                          *)

\* The pipeline's own state keeps its types.
LEMMA RunTypeStep == TypeOK' /\ RunTypeOK /\ [PipelineNext]_allVars => RunTypeOK'
<1> SUFFICES ASSUME TypeOK', RunTypeOK, [PipelineNext]_allVars PROVE RunTypeOK'
  OBVIOUS
<1> USE DEF RunTypeOK, pipelineVars, counters, CountIf, ThreadAt
<1>1. ASSUME NEW p \in Producers, Generate(p) PROVE RunTypeOK'
  BY <1>1 DEF Generate
<1>2. ASSUME NEW p \in Producers, IngressPush(p) PROVE RunTypeOK'
  BY <1>2 DEF IngressPush
<1>3. ASSUME NEW p \in Producers, CountPush(p) PROVE RunTypeOK'
  BY <1>3 DEF CountPush
<1>4. ASSUME NEW p \in Producers, LeaveIngress(p) \/ IngressThrows(p) PROVE RunTypeOK'
  BY <1>4 DEF LeaveIngress, IngressThrows
<1>5. ASSUME NEW c \in Consumers, WorkerPop(c) PROVE RunTypeOK'
  BY <1>5 DEF WorkerPop
<1>6. ASSUME NEW c \in Consumers, CompleteEvent(c) PROVE RunTypeOK'
  BY <1>6 DEF CompleteEvent
<1>7. ASSUME NEW c \in Consumers, LeaveWorker(c) \/ WorkerThrows(c) PROVE RunTypeOK'
  <2>1. CASE LeaveWorker(c)
    BY <2>1 DEF LeaveWorker
  <2>2. CASE WorkerThrows(c)
    <3>1. completed' \in Nat
      BY <2>2 DEF WorkerThrows
    <3>2. thread' \in [Threads -> {"run", "stopping", "closing", "exited"}]
      BY <2>2 DEF WorkerThrows
    <3> QED
      BY <2>2, <3>1, <3>2 DEF WorkerThrows
  <2> QED
    BY <1>7, <2>1, <2>2
<1>8. ASSUME NEW t \in Threads, HandlerStep(t) PROVE RunTypeOK'
  BY <1>8 DEF HandlerStep, HandlerStops, HandlerCloses
<1>9. CASE MainStep
  BY <1>9 DEF MainStep, StopIngress, JoinIngress, MainCloses, JoinWorkers
<1>10. CASE Expire \/ Wakeup \/ Done \/ UNCHANGED allVars
  BY <1>10 DEF Expire, Wakeup, Done, allVars
<1> QED
  BY <1>1, <1>2, <1>3, <1>4, <1>5, <1>6, <1>7, <1>8, <1>9, <1>10
  DEF PipelineNext, IngressStep, WorkerStep

\* A call takes its event up when it begins and lays it down when it returns.
LEMMA CarryingStep == IInv /\ PipelineInv /\ [PipelineNext]_allVars => Carrying'
<1> SUFFICES ASSUME IInv, PipelineInv, [PipelineNext]_allVars PROVE Carrying'
  OBVIOUS
<1>a. /\ TypeOK /\ RunTypeOK /\ Carrying /\ config_policy' = config_policy
      /\ ppc \in [Producers -> Places] /\ cpc \in [Consumers -> Places]
      /\ ev \in [Producers -> 0 .. MaxEvents] /\ policy \in [Producers -> {"Block", "Drop"}]
      /\ out \in [Consumers -> 0 .. MaxEvents]
  BY Types, Latches DEF IInv, PipelineInv, TypeOK
<1> USE DEF Carrying, NoEvent
<1>1. ASSUME NEW p \in Producers, Generate(p) PROVE Carrying'
  <2>1. /\ ppc' = [ppc EXCEPT ![p] = "enter"] /\ UNCHANGED <<cpc, out>>
        /\ policy'[p] = config_policy
        /\ \A q \in Producers \ {p} : policy'[q] = policy[q] /\ ev'[q] = ev[q]
    BY <1>a, <1>1 DEF Generate, PushCall, popVars
  <2> QED
    BY <1>a, <2>1
<1>2. ASSUME NEW p \in Producers, CountPush(p) PROVE Carrying'
  <2>1. /\ ppc' = [ppc EXCEPT ![p] = "idle"] /\ UNCHANGED <<cpc, out>>
        /\ ev' = [ev EXCEPT ![p] = NoEvent] /\ policy' = [policy EXCEPT ![p] = "Block"]
    BY <1>2 DEF CountPush, PushReturn, popVars
  <2> QED
    BY <1>a, <2>1
<1>3. ASSUME NEW p \in Producers, PushOutcome(p) PROVE Carrying'
  <2>1. /\ UNCHANGED <<ev, policy, out>> /\ Stirred(Consumers, cpc, cpc')
        /\ ppc[p] # "idle" /\ ppc'[p] # "idle" /\ \A q \in Producers \ {p} : ppc'[q] = ppc[q]
    BY <1>a, <1>3, PushEffect
  <2> QED
    BY <1>a, <2>1 DEF Stirred
<1>4. ASSUME NEW c \in Consumers, PopCall(c) PROVE Carrying'
  <2>1. cpc' = [cpc EXCEPT ![c] = "enter"] /\ UNCHANGED <<ppc, ev, policy, out>> /\ cpc[c] = "idle"
    BY <1>4 DEF PopCall, pushVars
  <2> QED
    BY <1>a, <2>1
<1>5. ASSUME NEW c \in Consumers, PopOutcome(c) PROVE Carrying'
  <2>1. /\ UNCHANGED <<ev, policy>> /\ Stirred(Producers, ppc, ppc')
        /\ cpc[c] # "ok" /\ \A d \in Consumers \ {c} : cpc'[d] = cpc[d] /\ out'[d] = out[d]
        /\ cpc'[c] = "ok" \/ out' = out
    BY <1>a, <1>5, PopEffect
  <2> QED
    BY <1>a, <2>1 DEF Stirred
<1>6. ASSUME NEW c \in Consumers, CompleteEvent(c) PROVE Carrying'
  <2>1. /\ cpc' = [cpc EXCEPT ![c] = "idle"] /\ UNCHANGED <<ppc, ev, policy>>
        /\ out' = [out EXCEPT ![c] = NoEvent]
    BY <1>6 DEF CompleteEvent, PopReturn, pushVars
  <2> QED
    BY <1>a, <2>1
<1>7. CASE Quiet
  <2>1. /\ UNCHANGED <<ev, policy, out>>
        /\ Stirred(Producers, ppc, ppc') /\ Stirred(Consumers, cpc, cpc')
    BY <1>a, <1>7, OwnerEffect DEF Quiet
  <2> QED
    BY <1>a, <2>1 DEF Stirred
<1> QED
  BY <1>a, <1>1, <1>2, <1>3, <1>4, <1>5, <1>6, <1>7, Kinds

\* Every way to the close of the queue leads past the raising of ingress_stop.
LEMMA StoppingStep == IInv /\ PipelineInv /\ [PipelineNext]_allVars => Stopping'
<1> SUFFICES ASSUME IInv, PipelineInv, [PipelineNext]_allVars PROVE Stopping'
  OBVIOUS
<1>a. /\ TypeOK /\ RunTypeOK /\ Carrying /\ Stopping /\ config_policy' = config_policy
      /\ stop["push"] => stop'["push"]
      /\ ~stop'["pop"]
  <2>1. TypeOK /\ RunTypeOK /\ Carrying /\ Stopping
    BY DEF IInv, PipelineInv
  <2>2. stop'["pop"] = stop["pop"] /\ config_policy' = config_policy /\ (stop["push"] => stop'["push"])
    BY <2>1, Latches
  <2>3. ~stop["pop"]
    BY <2>1 DEF Stopping
  <2> QED
    BY <2>1, <2>2, <2>3
<1>t. /\ ppc \in [Producers -> Places]
      /\ thread \in [Threads -> {"run", "stopping", "closing", "exited"}]
  BY <1>a, Types DEF RunTypeOK
<1>b. ASSUME closed' \/ main' # "sleep" \/ \E t \in Threads : thread'[t] = "closing",
             ~stop["push"]
      PROVE  stop'["push"]
  <2>1. ~closed /\ main = "sleep" /\ \A t \in Threads : thread[t] # "closing"
    BY <1>a, <1>b DEF Stopping
  <2>2. ASSUME NEW p \in Producers, Generate(p) \/ IngressPush(p) \/ CountPush(p)
        PROVE  UNCHANGED <<closed, main, thread>>
    <3>1. IngressPush(p) => PushOutcome(p) /\ UNCHANGED pipelineVars
      BY PushLooks DEF IngressPush
    <3> QED
      BY <2>2, <3>1 DEF Generate, PushOutcome, CountPush, PushCall, PushReturn, pipelineVars
  <2>3. ASSUME NEW c \in Consumers, WorkerPop(c) \/ CompleteEvent(c)
        PROVE  UNCHANGED <<closed, main, thread>>
    <3>1. WorkerPop(c) => (PopCall(c) \/ PopOutcome(c)) /\ UNCHANGED pipelineVars
      BY PopLooks DEF WorkerPop
    <3> QED
      BY <2>3, <3>1 DEF PopOutcome, PopCall, PopReturn, CompleteEvent, pipelineVars
  <2>4. ASSUME NEW p \in Producers, LeaveIngress(p) \/ IngressThrows(p) PROVE stop'["push"]
    <3>1. UNCHANGED vars /\ main' = main /\ \A t \in Threads : thread'[t] # "closing"
      BY <1>t, <2>1, <2>4 DEF LeaveIngress, IngressThrows, ThreadAt
    <3> QED
      BY <1>b, <2>1, <3>1 DEF vars
  <2>5. ASSUME NEW c \in Consumers, LeaveWorker(c) \/ WorkerThrows(c) PROVE stop'["push"]
    <3>1. UNCHANGED vars /\ main' = main /\ \A t \in Threads : thread'[t] # "closing"
      BY <1>t, <2>1, <2>5 DEF LeaveWorker, WorkerThrows, ThreadAt
    <3> QED
      BY <1>b, <2>1, <3>1 DEF vars
  <2>6. ASSUME NEW t \in Threads, HandlerStep(t) PROVE stop'["push"]
    <3>1. HandlerStops(t)
      BY <2>1, <2>6 DEF HandlerStep, HandlerCloses
    <3> QED
      BY <1>a, <3>1, OwnerEffect DEF HandlerStops
  <2>7. CASE MainStep
    <3>1. StopIngress
      BY <2>1, <2>7 DEF MainStep, JoinIngress, MainCloses, JoinWorkers
    <3> QED
      BY <1>a, <3>1, OwnerEffect DEF StopIngress
  <2>8. CASE Expire \/ Wakeup \/ Done \/ UNCHANGED allVars
    <3>1. UNCHANGED <<closed, main, thread>>
      BY <2>8 DEF Expire, Wakeup, SpuriousWakeup, Done, allVars, pipelineVars, vars
    <3> QED
      BY <1>b, <2>1, <3>1
  <2> QED
    BY <1>b, <2>1, <2>2, <2>3, <2>4, <2>5, <2>6, <2>7, <2>8 DEF PipelineNext, IngressStep, WorkerStep
<1>c. ASSUME NEW p \in Producers, ppc'[p] = "no", config_policy = "Block" PROVE stop'["push"]
  <2>1. ASSUME NEW q \in Producers, Generate(q) \/ CountPush(q) PROVE ppc[p] = "no"
    BY <1>t, <1>c, <2>1 DEF Generate, CountPush, PushCall, PushReturn
  <2>2. ASSUME NEW q \in Producers, PushOutcome(q) PROVE ppc[p] = "no" \/ stop["push"]
    <3>1. CASE q = p
      <4>1. closed \/ stop["push"] \/ policy[p] = "Drop"
        BY <1>a, <1>c, <2>2, <3>1, PushEffect
      <4>2. policy[p] = "Block"
        BY <1>a, <1>c, <2>2, <3>1, PushEffect DEF Carrying
      <4> QED
        BY <1>a, <4>1, <4>2 DEF Stopping
    <3>2. CASE q # p
      BY <1>a, <1>c, <2>2, <3>2, PushEffect
    <3> QED
      BY <3>1, <3>2
  <2>3. ASSUME Stirred(Producers, ppc, ppc') PROVE ppc[p] = "no"
    BY <1>c, <2>3 DEF Stirred
  <2>4. ASSUME NEW c \in Consumers, PopCall(c) \/ CompleteEvent(c) PROVE ppc[p] = "no"
    BY <1>c, <2>4 DEF PopCall, CompleteEvent, PopReturn, pushVars
  <2>5. ASSUME NEW c \in Consumers, PopOutcome(c) PROVE ppc[p] = "no"
    BY <1>a, <2>3, <2>5, PopEffect
  <2>6. ASSUME Quiet PROVE ppc[p] = "no"
    <3>1. Stirred(Producers, ppc, ppc')
      BY <1>a, <2>6, OwnerEffect DEF Quiet
    <3> QED
      BY <2>3, <3>1
  <2>7. ppc[p] = "no" \/ stop["push"]
    BY <1>a, <2>1, <2>2, <2>4, <2>5, <2>6, Kinds
  <2> QED
    BY <1>a, <1>c, <2>7 DEF Stopping
<1>d. closed' \/ main' # "sleep" \/ (\E t \in Threads : thread'[t] = "closing") => stop'["push"]
  BY <1>a, <1>b
<1>e. \A p \in Producers : ppc'[p] = "no" /\ config_policy' = "Block" => stop'["push"]
  BY <1>a, <1>c
<1> QED
  BY <1>a, <1>d, <1>e DEF Stopping

\* Without an error a thread moves on only by ending, after its last call.
LEMMA ThreadsEnd ==
  ASSUME RunTypeOK, Joined, ~failed', ~failed, [PipelineNext]_allVars, NEW t \in Threads
  PROVE  \/ thread'[t] = thread[t]
         \/ /\ thread[t] = "run" /\ thread'[t] = "exited" /\ UNCHANGED <<ppc, cpc>>
            /\ (t \in Producers /\ ppc[t] = "idle") \/ (t \in Consumers /\ cpc[t] = "no")
<1>a. thread \in [Threads -> {"run", "stopping", "closing", "exited"}] /\ thread[t] \in {"run", "exited"}
  BY DEF RunTypeOK, Joined
<1>b. \A u \in Threads : ~HandlerStep(u)
  BY DEF Joined, HandlerStep, HandlerStops, HandlerCloses
<1>1. ASSUME NEW p \in Producers, LeaveIngress(p)
      PROVE  \/ thread'[t] = thread[t]
             \/ t = p /\ thread[t] = "run" /\ thread'[t] = "exited" /\ ppc[t] = "idle" /\ UNCHANGED vars
  BY <1>a, <1>1 DEF LeaveIngress, ThreadAt
<1>2. ASSUME NEW c \in Consumers, LeaveWorker(c)
      PROVE  \/ thread'[t] = thread[t]
             \/ t = c /\ thread[t] = "run" /\ thread'[t] = "exited" /\ cpc[t] = "no" /\ UNCHANGED vars
  BY <1>a, <1>2 DEF LeaveWorker, ThreadAt
<1>3. ASSUME \A p \in Producers : ~LeaveIngress(p), \A c \in Consumers : ~LeaveWorker(c)
      PROVE  thread' = thread
  BY <1>b, <1>3 DEF PipelineNext, Generate, IngressStep, IngressPush, CountPush, IngressThrows,
     WorkerStep, WorkerPop, CompleteEvent, WorkerThrows, MainStep, StopIngress, JoinIngress,
     MainCloses, JoinWorkers, Expire, Wakeup, Done, allVars, pipelineVars
<1> QED
  BY <1>1, <1>2, <1>3 DEF vars, pushVars, popVars

\* A thread that is gone makes no call.
LEMMA GoneStayQuiet ==
  ASSUME TypeOK, RunTypeOK, [PipelineNext]_allVars
  PROVE  /\ \A p \in Producers : thread[p] # "run" /\ ppc[p] = "idle" => ppc'[p] = "idle"
         /\ \A c \in Consumers : cpc[c] = "no" => cpc'[c] = "no"
<1>a. ppc \in [Producers -> Places] /\ cpc \in [Consumers -> Places]
  BY Types
<1> DEFINE Kept == /\ \A p \in Producers : thread[p] # "run" /\ ppc[p] = "idle" => ppc'[p] = "idle"
                   /\ \A c \in Consumers : cpc[c] = "no" => cpc'[c] = "no"
<1>1. ASSUME NEW p \in Producers, Generate(p) \/ CountPush(p) PROVE Kept
  BY <1>a, <1>1 DEF Generate, CountPush, PushCall, PushReturn, popVars
<1>2. ASSUME NEW p \in Producers, PushOutcome(p), thread[p] = "run" PROVE Kept
  BY <1>2, PushEffect DEF Stirred
<1>3. ASSUME NEW c \in Consumers, PopCall(c) PROVE Kept
  BY <1>a, <1>3 DEF PopCall, pushVars
<1>4. ASSUME NEW c \in Consumers, PopOutcome(c) PROVE Kept
  BY <1>4, PopEffect DEF Stirred
<1>5. ASSUME NEW c \in Consumers, CompleteEvent(c) PROVE Kept
  BY <1>a, <1>5 DEF CompleteEvent, PopReturn, pushVars
<1>6. ASSUME Quiet PROVE Kept
  <2>1. Stirred(Producers, ppc, ppc') /\ Stirred(Consumers, cpc, cpc')
    BY <1>6, OwnerEffect DEF Quiet
  <2> QED
    BY <2>1 DEF Stirred
<1> QED
  BY <1>1, <1>2, <1>3, <1>4, <1>5, <1>6, Kinds

\* Main joins before it goes on, and nobody else closes the queue but in an error.
LEMMA JoinedStep == IInv /\ PipelineInv /\ [PipelineNext]_allVars => Joined'
<1> SUFFICES ASSUME IInv, PipelineInv, [PipelineNext]_allVars PROVE Joined'
  OBVIOUS
<1>a. TypeOK /\ RunTypeOK /\ Joined
  BY DEF IInv, PipelineInv
<1>b. \A t \in Threads : thread[t] = "exited" => thread'[t] = "exited"
  BY <1>a, Latches
<1>c. \/ main' = main
      \/ main = "sleep" /\ main' = "join_ingress"
      \/ main = "join_ingress" /\ main' = "close" /\ Exited(Producers)
      \/ main = "close" /\ main' = "join_workers"
      \/ main = "join_workers" /\ main' = "done" /\ Exited(Consumers)
  BY DEF PipelineNext, Generate, IngressStep, IngressPush, CountPush, LeaveIngress, IngressThrows,
     WorkerStep, WorkerPop, CompleteEvent, LeaveWorker, WorkerThrows, HandlerStep, HandlerStops,
     HandlerCloses, MainStep, StopIngress, JoinIngress, MainCloses, JoinWorkers, Expire, Wakeup,
     Done, allVars, pipelineVars
<1>1. main' \in {"close", "join_workers", "done"} => Exited(Producers)'
  <2>1. main' \in {"close", "join_workers", "done"} => Exited(Producers)
    BY <1>a, <1>c DEF Joined
  <2> QED
    BY <1>b, <2>1 DEF Exited, Threads
<1>2. main' = "done" => Exited(Consumers)'
  <2>1. main' = "done" => Exited(Consumers)
    BY <1>a, <1>c DEF Joined
  <2> QED
    BY <1>b, <2>1 DEF Exited, Threads
<1>3. ASSUME ~failed'
      PROVE  /\ closed' => main' \in {"join_workers", "done"}
             /\ \A t \in Threads : thread'[t] \in {"run", "exited"}
             /\ \A p \in Producers : thread'[p] = "exited" => ppc'[p] = "idle"
             /\ \A c \in Consumers : thread'[c] = "exited" => cpc'[c] = "no"
  <2>a. ~failed
    BY <1>a, <1>3, Latches
  <2>b. \A t \in Threads :
           \/ thread'[t] = thread[t]
           \/ /\ thread[t] = "run" /\ thread'[t] = "exited" /\ UNCHANGED <<ppc, cpc>>
              /\ (t \in Producers /\ ppc[t] = "idle") \/ (t \in Consumers /\ cpc[t] = "no")
    BY <1>a, <1>3, <2>a, ThreadsEnd
  <2>1. closed' => main' \in {"join_workers", "done"}
    <3>1. CASE closed
      BY <1>a, <1>c, <2>a, <3>1 DEF Joined
    <3>2. CASE MainCloses
      BY <3>2 DEF MainCloses
    <3>3. CASE ~closed /\ ~MainCloses
      <4>1. \A t \in Threads : ~HandlerStep(t)
        BY <1>a, <2>a DEF Joined, HandlerStep, HandlerStops, HandlerCloses
      <4>2. ASSUME NEW p \in Producers, IngressPush(p) PROVE closed' = closed
        BY <4>2, PushLooks DEF IngressPush, PushOutcome
      <4>3. ASSUME NEW c \in Consumers, WorkerPop(c) PROVE closed' = closed
        BY <4>3, PopLooks DEF WorkerPop, PopCall, PopOutcome
      <4>4. ASSUME NEW p \in Producers, Generate(p) \/ CountPush(p) \/ LeaveIngress(p) \/ IngressThrows(p)
            PROVE  closed' = closed
        BY <4>4 DEF Generate, CountPush, LeaveIngress, IngressThrows, PushCall, PushReturn, vars
      <4>5. ASSUME NEW c \in Consumers, CompleteEvent(c) \/ LeaveWorker(c) \/ WorkerThrows(c)
            PROVE  closed' = closed
        BY <4>5 DEF CompleteEvent, LeaveWorker, WorkerThrows, PopReturn, vars
      <4>6. CASE StopIngress \/ JoinIngress \/ JoinWorkers \/ Expire \/ Wakeup \/ Done \/ UNCHANGED allVars
        <5>1. closed' = closed
          BY <4>6 DEF StopIngress, SetIngressStop, JoinIngress, JoinWorkers, Expire, Wakeup,
             SpuriousWakeup, Done, allVars, vars
        <5> QED
          BY <3>3, <5>1
      <4> QED
        BY <3>3, <4>1, <4>2, <4>3, <4>4, <4>5, <4>6 DEF PipelineNext, IngressStep, WorkerStep, MainStep
    <3> QED
      BY <3>1, <3>2, <3>3
  <2>2. \A t \in Threads : thread'[t] \in {"run", "exited"}
    BY <1>a, <2>a, <2>b DEF Joined
  <2>3. ASSUME NEW p \in Producers, thread'[p] = "exited" PROVE ppc'[p] = "idle"
    <3>1. p \in Threads /\ p \notin Consumers
      BY DEF Threads
    <3>2. CASE thread[p] = "exited"
      BY <1>a, <2>a, <3>2, GoneStayQuiet DEF Joined
    <3>3. CASE thread[p] # "exited"
      BY <2>b, <2>3, <3>1, <3>3
    <3> QED
      BY <3>2, <3>3
  <2>4. ASSUME NEW c \in Consumers, thread'[c] = "exited" PROVE cpc'[c] = "no"
    <3>1. c \in Threads /\ c \notin Producers
      BY DEF Threads
    <3>2. CASE thread[c] = "exited"
      BY <1>a, <2>a, <3>2, GoneStayQuiet DEF Joined
    <3>3. CASE thread[c] # "exited"
      BY <2>b, <2>4, <3>1, <3>3
    <3> QED
      BY <3>2, <3>3
  <2> QED
    BY <2>1, <2>2, <2>3, <2>4
<1> QED
  BY <1>1, <1>2, <1>3 DEF Joined

\* Once a worker was refused no ingress thread is left to push.
LEMMA DrainedStep == IInv /\ PipelineInv /\ [PipelineNext]_allVars => Drained'
<1> SUFFICES ASSUME IInv, PipelineInv, [PipelineNext]_allVars, ~failed',
                    NEW c \in Consumers, cpc'[c] = "no"
             PROVE  closed' /\ queue' = <<>>
  BY DEF Drained
<1>a. TypeOK /\ RunTypeOK /\ Stopping /\ Joined /\ Drained /\ ~failed /\ (closed => closed')
  BY Latches DEF IInv, PipelineInv
<1>b. cpc \in [Consumers -> Places]
  BY <1>a, Types
<1>c. closed => \A p \in Producers : thread[p] # "run" /\ ppc[p] = "idle"
  <2>1. closed => Exited(Producers)
    BY <1>a DEF Joined
  <2> QED
    BY <1>a, <2>1 DEF Joined, Exited
<1>1. ASSUME NEW p \in Producers, Generate(p) \/ CountPush(p) PROVE closed' /\ queue' = <<>>
  <2>1. cpc' = cpc /\ queue' = queue
    BY <1>1 DEF Generate, CountPush, PushCall, PushReturn, popVars
  <2> QED
    BY <1>a, <2>1 DEF Drained
<1>2. ASSUME NEW p \in Producers, PushOutcome(p), thread[p] = "run" PROVE closed' /\ queue' = <<>>
  <2>1. cpc[c] = "no"
    BY <1>a, <1>2, PushEffect DEF Stirred
  <2>2. closed
    BY <1>a, <2>1 DEF Drained
  <2> QED
    BY <1>2, <1>c, <2>2
<1>3. ASSUME NEW d \in Consumers, PopCall(d) PROVE closed' /\ queue' = <<>>
  <2>1. cpc[c] = "no" /\ queue' = queue
    BY <1>b, <1>3 DEF PopCall
  <2> QED
    BY <1>a, <2>1 DEF Drained
<1>4. ASSUME NEW d \in Consumers, PopOutcome(d) PROVE closed' /\ queue' = <<>>
  <2>1. CASE cpc[c] = "no"
    <3>1. closed /\ queue = <<>>
      BY <1>a, <2>1 DEF Drained
    <3> QED
      BY <1>a, <1>4, <3>1, PopEffect
  <2>2. CASE cpc[c] # "no"
    <3>1. d = c
      BY <1>a, <1>4, <2>2, PopEffect
    <3>2. queue' = <<>> /\ closed
      BY <1>a, <1>4, <3>1, PopEffect DEF Stopping
    <3> QED
      BY <1>a, <3>2
  <2> QED
    BY <2>1, <2>2
<1>5. ASSUME NEW d \in Consumers, CompleteEvent(d) PROVE closed' /\ queue' = <<>>
  <2>1. cpc[c] = "no" /\ queue' = queue
    BY <1>b, <1>5 DEF CompleteEvent, PopReturn
  <2> QED
    BY <1>a, <2>1 DEF Drained
<1>6. CASE Quiet
  <2>1. Stirred(Consumers, cpc, cpc') /\ queue' = queue
    BY <1>a, <1>6, OwnerEffect DEF Quiet
  <2> QED
    BY <1>a, <2>1 DEF Stirred, Drained
<1> QED
  BY <1>a, <1>1, <1>2, <1>3, <1>4, <1>5, <1>6, Kinds

-----------------------------------------------------------------------------
(* The books are balanced                                                  *)

\* Counting an event or not is adding it to the measured ones or not.
LEMMA Measures ==
  ASSUME NEW e \in 0 .. MaxEvents
  PROVE  /\ One(e, MeasuredEvents) \in {0, 1} /\ One(NoEvent, MeasuredEvents) = 0
         /\ \A n \in Nat : CountIf(Measured(e), n) = n + One(e, MeasuredEvents)
<1>1. e \in MeasuredEvents <=> Measured(e)
  BY DEF MeasuredEvents
<1>2. NoEvent \notin MeasuredEvents
  BY DEF MeasuredEvents, Measured, NoEvent
<1>3. CASE Measured(e)
  BY <1>1, <1>2, <1>3 DEF One, CountIf
<1>4. CASE ~Measured(e)
  BY <1>1, <1>2, <1>4 DEF One, CountIf
<1> QED
  BY <1>3, <1>4

\* The counts are of finitely many events.
LEMMA CountTypes ==
  ASSUME TypeOK
  PROVE  /\ Taken \in [Producers -> 0 .. MaxEvents]
         /\ Count(Taken, MeasuredEvents) \in Nat /\ Count(ev, MeasuredEvents) \in Nat
         /\ AtWork \in [Consumers -> 0 .. MaxEvents]
         /\ Count(AtWork, MeasuredEvents) \in Nat /\ Count(queue, MeasuredEvents) \in Nat
<1>1. /\ ev \in [Producers -> 0 .. MaxEvents] /\ out \in [Consumers -> 0 .. MaxEvents]
      /\ queue \in Seq(Events)
  BY DEF TypeOK
<1>2. Taken \in [Producers -> 0 .. MaxEvents] /\ AtWork \in [Consumers -> 0 .. MaxEvents]
  BY <1>1 DEF Taken, AtWork, NoEvent
<1> QED
  BY <1>1, <1>2, CountType, CountSeqType

\* A push, its loop and its return keep the delivery balanced.
LEMMA PushDelivers ==
  ASSUME TypeOK, RunTypeOK, Carrying, NEW p \in Producers, DeliveryBalanced,
         Generate(p) \/ CountPush(p) \/ (PushOutcome(p) /\ UNCHANGED pipelineVars), Offering
  PROVE  accepted' + Count(Taken', MeasuredEvents)
           = completed' + Count(queue', MeasuredEvents) + Count(AtWork', MeasuredEvents)
<1> DEFINE M == MeasuredEvents
<1>a. /\ ppc \in [Producers -> Places] /\ ev \in [Producers -> 0 .. MaxEvents]
      /\ Taken \in [Producers -> 0 .. MaxEvents] /\ Count(Taken, M) \in Nat
      /\ Count(AtWork, M) \in Nat /\ Count(queue, M) \in Nat
      /\ accepted \in Nat /\ completed \in Nat
      /\ queue \in Seq(Events) /\ IsFiniteSet(Producers)
  BY Types, CountTypes DEF RunTypeOK, TypeOK
<1>b. accepted + Count(Taken, M) = completed + Count(queue, M) + Count(AtWork, M)
  BY DEF DeliveryBalanced
<1>c. One(ev[p], M) \in {0, 1} /\ One(NoEvent, M) = 0 /\ One(Taken[p], M) \in {0, 1}
  BY <1>a, Measures
<1>n. /\ Count(Taken, M) \in Nat /\ Count(AtWork, M) \in Nat /\ Count(queue, M) \in Nat
      /\ accepted \in Nat /\ completed \in Nat
  BY <1>a
<1>d. /\ Count([Taken EXCEPT ![p] = NoEvent], M) = Count(Taken, M) - One(Taken[p], M)
      /\ Count([Taken EXCEPT ![p] = ev[p]], M) = Count(Taken, M) + One(ev[p], M) - One(Taken[p], M)
  <2>1. \A to : Count([Taken EXCEPT ![p] = to], M) = Count(Taken, M) + One(to, M) - One(Taken[p], M)
    BY <1>a, CountMove
  <2>2. Count([Taken EXCEPT ![p] = NoEvent], M) = Count(Taken, M) + One(NoEvent, M) - One(Taken[p], M)
    BY <2>1
  <2>3. Count([Taken EXCEPT ![p] = ev[p]], M) = Count(Taken, M) + One(ev[p], M) - One(Taken[p], M)
    BY <2>1
  <2>4. Count(Taken, M) \in Nat
    BY <1>a
  <2> QED
    BY <1>c, <2>2, <2>3, <2>4
<1>1. CASE Generate(p)
  <2>1. UNCHANGED <<accepted, completed, queue, AtWork>>
    BY <1>1 DEF Generate, PushCall, popVars, AtWork
  <2>2. Taken' = Taken
    BY <1>a, <1>1 DEF Generate, PushCall, Taken
  <2> QED
    BY <1>b, <2>1, <2>2
<1>2. CASE CountPush(p)
  <2>1. UNCHANGED <<completed, queue, AtWork>>
    BY <1>2 DEF CountPush, PushReturn, popVars, AtWork
  <2>2. Taken' = [Taken EXCEPT ![p] = NoEvent]
    BY <1>a, <1>2 DEF CountPush, PushReturn, Taken
  <2>3. accepted' = accepted + One(Taken[p], M)
    <3>1. CASE ppc[p] = "ok"
      <4>1. accepted' = CountIf(Measured(ev[p]), accepted) /\ Taken[p] = ev[p]
        BY <1>2, <3>1 DEF CountPush, CountIf, Taken
      <4> QED
        BY <1>a, <4>1, Measures
    <3>2. CASE ppc[p] # "ok"
      <4>1. accepted' = accepted /\ Taken[p] = NoEvent
        BY <1>2, <3>2 DEF CountPush, CountIf, Taken
      <4> QED
        BY <1>a, <1>c, <4>1
    <3> QED
      BY <3>1, <3>2
  <2>4. Count(Taken', M) = Count(Taken, M) - One(Taken[p], M)
    BY <1>d, <2>2
  <2> QED
    BY <1>a, <1>b, <1>c, <2>1, <2>3, <2>4
<1>3. CASE PushOutcome(p) /\ UNCHANGED pipelineVars
  <2>1. UNCHANGED <<accepted, completed, AtWork, ev>>
    BY <1>3, PushEffect DEF pipelineVars, counters, AtWork
  <2>2. ppc[p] # "ok" /\ \A q \in Producers \ {p} : ppc'[q] = ppc[q]
    BY <1>3, PushEffect
  <2>3. Taken[p] = NoEvent
    BY <2>2 DEF Taken
  <2>4. CASE ppc'[p] = "ok" /\ queue' = Append(queue, ev[p])
    <3>1. Taken' = [Taken EXCEPT ![p] = ev[p]]
      BY <1>a, <2>1, <2>2, <2>4 DEF Taken
    <3>2. Count(Taken', M) = Count(Taken, M) + One(ev[p], M)
      BY <1>a, <1>c, <1>d, <2>3, <3>1
    <3>3. Count(queue', M) = Count(queue, M) + One(ev[p], M)
      <4>1. ev[p] \in Events
        BY <1>3, PushEffect DEF Offering
      <4> QED
        BY <1>a, <2>4, <4>1, CountAppend
    <3> QED
      BY <1>b, <1>c, <1>n, <2>1, <3>2, <3>3
  <2>5. CASE queue' = queue /\ ppc'[p] \in {"no", "spin", "parked"}
    <3>1. Taken' = Taken
      BY <1>a, <2>1, <2>2, <2>5 DEF Taken
    <3> QED
      BY <1>b, <2>1, <2>5, <3>1
  <2> QED
    BY <1>3, <2>4, <2>5, PushEffect
<1> QED
  BY <1>1, <1>2, <1>3

\* So do a pop and the completion of its event.
LEMMA PopDelivers ==
  ASSUME TypeOK, RunTypeOK, Carrying, NEW c \in Consumers, DeliveryBalanced,
         \/ thread[c] = "run" /\ (PopCall(c) \/ PopOutcome(c)) /\ UNCHANGED pipelineVars
         \/ CompleteEvent(c) \/ WorkerThrows(c)
  PROVE  accepted' + Count(Taken', MeasuredEvents)
           = completed' + Count(queue', MeasuredEvents) + Count(AtWork', MeasuredEvents)
<1> DEFINE M == MeasuredEvents
<1>a. /\ ppc \in [Producers -> Places] /\ out \in [Consumers -> 0 .. MaxEvents]
      /\ cpc \in [Consumers -> Places]
      /\ Count(Taken, M) \in Nat /\ Count(AtWork, M) \in Nat /\ Count(queue, M) \in Nat
      /\ accepted \in Nat /\ completed \in Nat
      /\ queue \in Seq(Events) /\ IsFiniteSet(Consumers)
      /\ AtWork \in [Consumers -> 0 .. MaxEvents]
  BY Types, CountTypes DEF RunTypeOK, TypeOK
<1>b. accepted + Count(Taken, M) = completed + Count(queue, M) + Count(AtWork, M)
  BY DEF DeliveryBalanced
<1>c. One(out[c], M) \in {0, 1} /\ One(NoEvent, M) = 0
  BY <1>a, Measures
<1>d. \A to : Count([AtWork EXCEPT ![c] = to], M) = Count(AtWork, M) + One(to, M) - One(AtWork[c], M)
  BY <1>a, CountMove
<1>e. thread[c] = "run" /\ AtWork[c] = out[c]
  BY DEF CompleteEvent, WorkerThrows, AtWork
<1>1. CASE PopCall(c) /\ UNCHANGED pipelineVars
  <2>1. UNCHANGED <<accepted, completed, queue, AtWork, ppc, ev>>
    BY <1>1 DEF PopCall, pipelineVars, counters, pushVars, AtWork
  <2>2. Taken' = Taken
    BY <2>1 DEF Taken
  <2> QED
    BY <1>b, <2>1, <2>2
<1>2. CASE PopOutcome(c) /\ UNCHANGED pipelineVars
  <2>1. UNCHANGED <<accepted, completed, ev>>
    BY <1>2, PopEffect DEF pipelineVars, counters
  <2>2. Stirred(Producers, ppc, ppc') /\ cpc[c] # "ok"
    BY <1>2, PopEffect
  <2>3. Taken' = Taken
    BY <2>1, <2>2 DEF Taken, Stirred
  <2>4. out[c] = NoEvent
    BY <2>2 DEF Carrying
  <2>5. CASE queue # <<>> /\ queue' = Tail(queue) /\ out' = [out EXCEPT ![c] = Head(queue)]
    <3>1. Count(queue, M) = Count(queue', M) + One(Head(queue), M)
      BY <1>a, <2>5, CountTail
    <3>2. Count(AtWork', M) = Count(AtWork, M) + One(Head(queue), M) - One(out[c], M)
      <4>1. AtWork' = [AtWork EXCEPT ![c] = Head(queue)]
        BY <1>a, <1>e, <1>2, <2>5 DEF AtWork, pipelineVars
      <4> QED
        BY <1>d, <1>e, <4>1
    <3>3. One(out[c], M) = 0
      BY <1>c, <2>4
    <3>4. Count(queue', M) \in Nat /\ One(Head(queue), M) \in {0, 1}
      <4>1. queue' \in Seq(Events) /\ Head(queue) \in Events
        BY <1>a, <2>5
      <4>2. Count(queue', M) \in Nat
        BY <4>1, CountSeqType
      <4>3. Head(queue) \in 0 .. MaxEvents
        BY <4>1 DEF Events
      <4> QED
        BY <4>2, <4>3, Measures
    <3> QED
      BY <1>a, <1>b, <2>1, <2>3, <3>1, <3>2, <3>3, <3>4
  <2>6. CASE UNCHANGED <<queue, out>>
    <3>1. AtWork' = AtWork
      BY <1>2, <2>6 DEF AtWork, pipelineVars
    <3> QED
      BY <1>b, <2>1, <2>3, <2>6, <3>1
  <2> QED
    BY <1>2, <2>5, <2>6, PopEffect
<1>3. CASE CompleteEvent(c)
  <2>1. UNCHANGED <<accepted, queue, ppc, ev>>
    BY <1>3 DEF CompleteEvent, PopReturn, pushVars
  <2>2. Taken' = Taken
    BY <2>1 DEF Taken
  <2>3. Count(AtWork', M) = Count(AtWork, M) - One(out[c], M)
    <3>1. AtWork' = [AtWork EXCEPT ![c] = NoEvent]
      BY <1>a, <1>e, <1>3 DEF CompleteEvent, PopReturn, AtWork
    <3>2. Count(AtWork', M) = Count(AtWork, M) + One(NoEvent, M) - One(out[c], M)
      BY <1>d, <1>e, <3>1
    <3> QED
      BY <1>a, <1>c, <3>2
  <2>4. completed' = completed + One(out[c], M)
    <3>1. completed' = CountIf(Measured(out[c]), completed)
      BY <1>3 DEF CompleteEvent
    <3> QED
      BY <1>a, <3>1, Measures
  <2> QED
    <3>1. One(out[c], M) \in {0, 1} /\ Count(AtWork, M) \in Nat /\ Count(queue, M) \in Nat
      BY <1>a, <1>c
    <3>2. Taken' = Taken /\ accepted' = accepted /\ queue' = queue
      BY <2>1, <2>2
    <3>3. accepted + Count(Taken, M)
            = (completed + One(out[c], M)) + Count(queue, M) + (Count(AtWork, M) - One(out[c], M))
      BY <1>a, <1>b, <3>1
    <3> QED
      BY <2>3, <2>4, <3>2, <3>3
<1>4. CASE WorkerThrows(c)
  <2>1. UNCHANGED <<accepted, queue, ppc, ev, out>> /\ completed' = completed + 1
    BY <1>4 DEF WorkerThrows, vars, pushVars, popVars
  <2>2. Taken' = Taken
    BY <2>1 DEF Taken
  <2>3. One(out[c], M) = 1
    <3>1. CountIf(Measured(out[c]), 0) = 0 + One(out[c], M) /\ Measured(out[c])
      BY <1>a, <1>4, Measures DEF WorkerThrows
    <3> QED
      BY <1>c, <3>1 DEF CountIf
  <2>4. Count(AtWork', M) = Count(AtWork, M) - 1
    <3>1. thread' = [thread EXCEPT ![c] = "stopping"] /\ c \in Threads
      BY <1>4 DEF WorkerThrows, ThreadAt, Threads
    <3>2. thread'[c] # "run" /\ \A d \in Consumers \ {c} : thread'[d] = thread[d]
      BY <3>1 DEF RunTypeOK, Threads
    <3>3. AtWork' = [AtWork EXCEPT ![c] = NoEvent]
      BY <1>a, <2>1, <3>2 DEF AtWork
    <3>4. Count(AtWork', M) = Count(AtWork, M) + One(NoEvent, M) - One(out[c], M)
      BY <1>d, <1>e, <3>3
    <3> QED
      BY <1>a, <1>c, <2>3, <3>4
  <2> QED
    BY <1>a, <1>b, <2>1, <2>2, <2>4
<1> QED
  BY <1>1, <1>2, <1>3, <1>4

\* Whoever moves, every accepted event is somewhere, and only once.
LEMMA DeliveryStep == IInv /\ PipelineInv /\ [PipelineNext]_allVars => DeliveryBalanced'
<1> SUFFICES ASSUME IInv, PipelineInv, [PipelineNext]_allVars
             PROVE  accepted' + Count(Taken', MeasuredEvents)
                      = completed' + Count(queue', MeasuredEvents) + Count(AtWork', MeasuredEvents)
  BY DEF DeliveryBalanced, MeasuredEvents, Measured
<1>a. /\ TypeOK /\ RunTypeOK /\ Carrying /\ DeliveryBalanced /\ Offering
  BY Latches DEF IInv, PipelineInv
<1>1. ASSUME Quiet
      PROVE  accepted' + Count(Taken', MeasuredEvents)
               = completed' + Count(queue', MeasuredEvents) + Count(AtWork', MeasuredEvents)
  <2>1. CASE \E c \in Consumers : WorkerThrows(c)
    BY <1>a, <2>1, PopDelivers
  <2>2. CASE ~\E c \in Consumers : WorkerThrows(c)
    <3>1. UNCHANGED <<accepted, completed>>
      BY <1>1, <2>2 DEF Quiet
    <3>2. UNCHANGED <<queue, out, ev>> /\ Stirred(Producers, ppc, ppc')
      BY <1>a, <1>1, OwnerEffect DEF Quiet
    <3>3. Taken' = Taken
      BY <3>2 DEF Taken, Stirred
    <3>4. AtWork' = AtWork
      <4>1. \A c \in Consumers : out[c] = NoEvent \/ (thread'[c] = "run" <=> thread[c] = "run")
        BY <1>a, <1>1, <2>2 DEF Quiet, Carrying
      <4> QED
        BY <3>2, <4>1 DEF AtWork
    <3> QED
      BY <1>a, <3>1, <3>2, <3>3, <3>4 DEF DeliveryBalanced
  <2> QED
    BY <2>1, <2>2
<1> QED
  BY <1>a, <1>1, PushDelivers, PopDelivers, Kinds

\* Under either policy the books of the ingress threads are balanced.
LEMMA IngressBalanceStep == IInv /\ PipelineInv /\ [PipelineNext]_allVars => IngressBalanced'
<1> SUFFICES ASSUME IInv, PipelineInv, [PipelineNext]_allVars PROVE IngressBalanced'
  OBVIOUS
<1> DEFINE M == MeasuredEvents
           pushing == Count(ev, M)
<1>a. TypeOK /\ RunTypeOK /\ Carrying /\ Stopping /\ IngressBalanced
  BY DEF IInv, PipelineInv
<1>b. /\ ppc \in [Producers -> Places] /\ ev \in [Producers -> 0 .. MaxEvents]
      /\ pushing \in Nat /\ Cardinality(Producers) \in Nat /\ pushing <= Cardinality(Producers)
      /\ generated \in Nat /\ accepted \in Nat /\ dropped_ingress \in Nat
      /\ config_policy \in {"Block", "Drop"} /\ push_attempts \in Nat
  <2>1. /\ ev \in [Producers -> 0 .. MaxEvents] /\ IsFiniteSet(Producers)
        /\ push_attempts \in Nat
    BY <1>a DEF TypeOK
  <2>2. pushing <= Cardinality(Producers) /\ Cardinality(Producers) \in Nat
    BY <2>1, CountBound
  <2> QED
    BY <1>a, <2>1, <2>2, Types, CountTypes DEF RunTypeOK
<1>c. config_policy' = config_policy /\ (stop["push"] => stop'["push"])
  BY <1>a, Latches
<1>1. ASSUME UNCHANGED <<push_attempts, ev, generated, accepted, dropped_ingress>> PROVE IngressBalanced'
  BY <1>a, <1>b, <1>c, <1>1 DEF IngressBalanced, MeasuredEvents, Measured
<1>2. ASSUME NEW p \in Producers, Generate(p) PROVE IngressBalanced'
  <2>1. /\ ~stop["push"] /\ ppc[p] = "idle" /\ UNCHANGED <<accepted, dropped_ingress, stop>>
        /\ push_attempts' = push_attempts + 1
    BY <1>2 DEF Generate, PushCall
  <2>2. ev' = [ev EXCEPT ![p] = push_attempts'] /\ push_attempts' \in 0 .. MaxEvents
        /\ generated' = CountIf(Measured(push_attempts'), generated)
    <3>1. push_attempts' \in 0 .. MaxEvents
      BY <1>a, <1>2 DEF Generate, PushCall, TypeOK
    <3>2. ev' = [ev EXCEPT ![p] = push_attempts']
      BY <1>2 DEF Generate, PushCall
    <3>3. ev'[p] = push_attempts'
      BY <1>b, <3>2
    <3>4. generated' = CountIf(Measured(ev'[p]), generated)
      BY <1>2 DEF Generate
    <3> QED
      BY <3>1, <3>2, <3>3, <3>4
  <2>3. One(ev[p], M) = 0 /\ One(push_attempts', M) \in {0, 1}
        /\ generated' = generated + One(push_attempts', M)
    <3>1. ev[p] = NoEvent
      BY <1>a, <2>1 DEF Carrying
    <3> QED
      BY <1>b, <2>2, <3>1, Measures
  <2>4. Count(ev', M) = pushing + One(push_attempts', M)
    <3>1. \A to : Count([ev EXCEPT ![p] = to], M) = pushing + One(to, M) - One(ev[p], M)
      <4>1. DOMAIN ev = Producers /\ IsFiniteSet(Producers)
        BY <1>b
      <4> QED
        BY <4>1, CountMove
    <3>2. Count(ev', M) = pushing + One(push_attempts', M) - One(ev[p], M)
      BY <2>2, <3>1
    <3> QED
      BY <1>b, <2>3, <3>2
  <2>5. IngressBalanced' <=>
          /\ generated' <= push_attempts'
          /\ accepted' + dropped_ingress' + Count(ev', M) <= generated'
          /\ config_policy' = "Drop" => generated' = accepted' + dropped_ingress' + Count(ev', M)
          /\ config_policy' = "Block" =>
               /\ dropped_ingress' = 0
               /\ generated' <= accepted' + Cardinality(Producers)
               /\ ~stop'["push"] => generated' = accepted' + Count(ev', M)
    BY DEF IngressBalanced, MeasuredEvents, Measured
  <2>6. Count(ev', M) <= Cardinality(Producers)
    <3>1. IsFiniteSet(DOMAIN ev') /\ DOMAIN ev' = Producers
      BY <1>b, <2>2
    <3> QED
      BY <3>1, CountBound
  <2> QED
    BY <1>a, <1>b, <1>c, <2>1, <2>3, <2>4, <2>5, <2>6 DEF IngressBalanced
<1>3. ASSUME NEW p \in Producers, CountPush(p) PROVE IngressBalanced'
  <2>1. ppc[p] \in {"ok", "no"} /\ UNCHANGED <<generated, stop, push_attempts>> /\ ev' = [ev EXCEPT ![p] = NoEvent]
    BY <1>3 DEF CountPush, PushReturn
  <2>2. One(ev[p], M) \in {0, 1} /\ One(NoEvent, M) = 0
    BY <1>b, Measures
  <2>3. Count(ev', M) = pushing - One(ev[p], M)
    <3>1. Count(ev', M) = pushing + One(NoEvent, M) - One(ev[p], M)
      <4>1. \A to : Count([ev EXCEPT ![p] = to], M) = pushing + One(to, M) - One(ev[p], M)
        <5>1. DOMAIN ev = Producers /\ IsFiniteSet(Producers)
          BY <1>b
        <5> QED
          BY <5>1, CountMove
      <4> QED
        BY <2>1, <4>1
    <3> QED
      BY <1>b, <2>2, <3>1
  <2>4. IngressBalanced' <=>
          /\ generated' <= push_attempts'
          /\ accepted' + dropped_ingress' + Count(ev', M) <= generated'
          /\ config_policy' = "Drop" => generated' = accepted' + dropped_ingress' + Count(ev', M)
          /\ config_policy' = "Block" =>
               /\ dropped_ingress' = 0
               /\ generated' <= accepted' + Cardinality(Producers)
               /\ ~stop'["push"] => generated' = accepted' + Count(ev', M)
    BY DEF IngressBalanced, MeasuredEvents, Measured
  <2>5. CASE ppc[p] = "ok"
    <3>1. accepted' = CountIf(Measured(ev[p]), accepted) /\ dropped_ingress' = dropped_ingress
      BY <1>3, <2>5 DEF CountPush, CountIf
    <3>2. accepted' = accepted + One(ev[p], M)
      BY <1>b, <3>1, Measures
    <3> QED
      BY <1>a, <1>b, <1>c, <2>1, <2>2, <2>3, <2>4, <3>1, <3>2 DEF IngressBalanced
  <2>6. CASE ppc[p] = "no" /\ config_policy = "Drop"
    <3>1. dropped_ingress' = CountIf(Measured(ev[p]), dropped_ingress) /\ accepted' = accepted
      BY <1>3, <2>6 DEF CountPush, CountIf
    <3>2. dropped_ingress' = dropped_ingress + One(ev[p], M)
      BY <1>b, <3>1, Measures
    <3> QED
      BY <1>a, <1>b, <1>c, <2>1, <2>2, <2>3, <2>4, <2>6, <3>1, <3>2 DEF IngressBalanced
  <2>7. CASE ppc[p] = "no" /\ config_policy = "Block"
    <3>1. UNCHANGED <<accepted, dropped_ingress>>
      BY <1>3, <2>7 DEF CountPush, CountIf
    <3>2. stop["push"]
      BY <1>a, <2>7 DEF Stopping
    <3> QED
      BY <1>a, <1>b, <1>c, <2>1, <2>2, <2>3, <2>4, <2>7, <3>1, <3>2 DEF IngressBalanced
  <2> QED
    BY <1>b, <2>1, <2>5, <2>6, <2>7
<1>4. ASSUME NEW p \in Producers, PushOutcome(p), UNCHANGED pipelineVars PROVE IngressBalanced'
  <2>1. UNCHANGED <<push_attempts, ev, generated, accepted, dropped_ingress>>
    BY <1>4 DEF PushOutcome, pipelineVars, counters
  <2> QED
    BY <1>1, <2>1
<1>5. ASSUME NEW c \in Consumers,
             ((PopCall(c) \/ PopOutcome(c)) /\ UNCHANGED pipelineVars) \/ CompleteEvent(c)
      PROVE  IngressBalanced'
  <2>1. UNCHANGED <<push_attempts, ev, generated, accepted, dropped_ingress>>
    BY <1>5 DEF PopCall, PopOutcome, CompleteEvent, PopReturn, pushVars, pipelineVars, counters
  <2> QED
    BY <1>1, <2>1
<1>6. ASSUME Quiet PROVE IngressBalanced'
  <2>1. UNCHANGED <<push_attempts, ev, generated, accepted, dropped_ingress>>
    BY <1>a, <1>6, OwnerEffect DEF Quiet
  <2> QED
    BY <1>1, <2>1
<1> QED
  BY <1>a, <1>2, <1>3, <1>4, <1>5, <1>6, Kinds

\* At the start there is nothing to account for.
LEMMA PipelineInvInit == PipelineInit => PipelineInv
<1> SUFFICES ASSUME PipelineInit PROVE PipelineInv
  OBVIOUS
<1>1. TypeOK /\ Flags = {"push", "pop"}
  BY InvInit DEF PipelineInit, IInv, Flags
<1>2. RunTypeOK
  BY <1>1 DEF PipelineInit, RunTypeOK
<1>3. /\ queue = <<>> /\ ~closed /\ stop = [f \in Flags |-> FALSE]
      /\ ppc = [p \in Producers |-> "idle"] /\ ev = [p \in Producers |-> NoEvent]
      /\ cpc = [c \in Consumers |-> "idle"] /\ out = [c \in Consumers |-> NoEvent]
      /\ thread = [t \in Threads |-> "run"] /\ main = "sleep"
      /\ generated = 0 /\ accepted = 0 /\ completed = 0 /\ dropped_ingress = 0
      /\ push_attempts = 0
  BY DEF PipelineInit, Init
<1>4. Carrying /\ Stopping /\ Drained
  BY <1>1, <1>3 DEF Carrying, Stopping, Drained
<1>5. Joined
  BY <1>3 DEF Joined, Threads
<1>6. NoEvent \notin MeasuredEvents
  BY DEF MeasuredEvents, Measured, NoEvent
<1>7. /\ Count(ev, MeasuredEvents) = 0 /\ Count(AtWork, MeasuredEvents) = 0
      /\ Count(Taken, MeasuredEvents) = 0 /\ Count(queue, MeasuredEvents) = 0
  <2>1. Count(ev, MeasuredEvents) = 0
    BY <1>3, <1>6, CountNone
  <2>2. Count(Taken, MeasuredEvents) = 0 /\ Count(AtWork, MeasuredEvents) = 0
    <3>1. \A p \in DOMAIN Taken : Taken[p] \notin MeasuredEvents
      BY <1>3, <1>6 DEF Taken
    <3>2. \A c \in DOMAIN AtWork : AtWork[c] \notin MeasuredEvents
      BY <1>3, <1>6 DEF AtWork
    <3>3. IsFiniteSet(DOMAIN Taken) /\ IsFiniteSet(DOMAIN AtWork)
      BY DEF Taken, AtWork
    <3> QED
      BY <3>1, <3>2, <3>3, CountNone
  <2>3. Count(queue, MeasuredEvents) = 0
    BY <1>1, <1>3, CountSeqType DEF TypeOK
  <2> QED
    BY <2>1, <2>2, <2>3
<1>8. Cardinality(Producers) \in Nat
  BY FS_CardinalityType
<1>9. DeliveryBalanced /\ IngressBalanced
  BY <1>3, <1>7, <1>8 DEF DeliveryBalanced, IngressBalanced
<1> QED
  BY <1>2, <1>4, <1>5, <1>9 DEF PipelineInv

\* Every step keeps it.
LEMMA PipelineInvStep == IInv /\ PipelineInv /\ [PipelineNext]_allVars => PipelineInv'
<1> SUFFICES ASSUME IInv, PipelineInv, [PipelineNext]_allVars PROVE PipelineInv'
  OBVIOUS
<1>1. TypeOK'
  BY QueueStep, InvStep DEF IInv
<1>2. RunTypeOK'
  BY <1>1, RunTypeStep DEF PipelineInv
<1> QED
  BY <1>2, CarryingStep, StoppingStep, JoinedStep, DrainedStep, DeliveryStep, IngressBalanceStep
  DEF PipelineInv

-----------------------------------------------------------------------------
(* The theorems                                                            *)

\* The accounting invariant holds in every run of the pipeline, with any numbers
\* of threads, and with exceptions anywhere.
THEOREM PipelineInvariance == PipelineSpec => []PipelineInv
BY QueueInvariance, PipelineInvInit, PipelineInvStep, PTL DEF PipelineSpec

\* Every variable of the pipeline keeps its type, and no counter runs ahead of the
\* events generated, in a run that fails as in one that does not.
THEOREM PipelineTypeCorrect == PipelineSpec => []PipelineTypeOK
<1>1. PipelineInv => PipelineTypeOK
  <2> SUFFICES ASSUME PipelineInv PROVE PipelineTypeOK
    OBVIOUS
  <2> DEFINE M == MeasuredEvents
  <2>a. TypeOK /\ RunTypeOK /\ DeliveryBalanced /\ IngressBalanced
    BY DEF PipelineInv, RunTypeOK
  <2>1. generated <= push_attempts /\ accepted + dropped_ingress + Count(ev, M) <= generated
    BY <2>a DEF IngressBalanced
  <2>2. accepted + Count(Taken, M) = completed + Count(queue, M) + Count(AtWork, M)
    BY <2>a DEF DeliveryBalanced
  <2>3. Count(Taken, M) <= Count(ev, M)
    <3>1. ev \in [Producers -> 0 .. MaxEvents] /\ IsFiniteSet(Producers) /\ NoEvent \notin M
      BY <2>a DEF TypeOK, MeasuredEvents, Measured, NoEvent
    <3>2. DOMAIN Taken = DOMAIN ev /\ \A p \in DOMAIN ev : Taken[p] \in M => ev[p] \in M
      BY <3>1 DEF Taken
    <3>3. IsFiniteSet(DOMAIN ev)
      BY <3>1
    <3> QED
      BY <3>2, <3>3, CountWithin
  <2>4. /\ Count(ev, M) \in Nat /\ Count(Taken, M) \in Nat /\ Count(queue, M) \in Nat
        /\ Count(AtWork, M) \in Nat
    BY <2>a, CountTypes
  <2>5. /\ generated \in Nat /\ accepted \in Nat /\ completed \in Nat
        /\ dropped_ingress \in Nat /\ push_attempts \in Nat
    BY <2>a DEF RunTypeOK, TypeOK
  <2>6. accepted <= generated /\ completed <= generated /\ dropped_ingress <= generated
    BY <2>1, <2>2, <2>3, <2>4, <2>5
  <2>7. generated \in 0 .. push_attempts /\ {accepted, completed, dropped_ingress} \subseteq 0 .. generated
    BY <2>1, <2>5, <2>6
  <2> QED
    BY <2>a, <2>7 DEF RunTypeOK, PipelineTypeOK
<1> QED
  BY <1>1, PipelineInvariance, PTL

\* What runSharedQueuePipeline reports once it has joined its threads without an
\* error adds up: nothing accepted is lost or completed twice, and the events that
\* were neither accepted nor counted as dropped are at most one of each ingress
\* thread, and none under Drop.
THEOREM PipelineAccounted == PipelineSpec => []EventsAccounted
<1>1. IInv /\ PipelineInv => EventsAccounted
  <2> SUFFICES ASSUME IInv, PipelineInv, main = "done", ~failed
               PROVE  /\ queue = <<>> /\ accepted = completed
                      /\ config_policy = "Drop" => generated = accepted + dropped_ingress
                      /\ config_policy = "Block" =>
                           dropped_ingress = 0 /\ generated <= accepted + Cardinality(Producers)
    BY DEF EventsAccounted
  <2>a. TypeOK /\ RunTypeOK /\ Carrying /\ Joined /\ Drained /\ DeliveryBalanced /\ IngressBalanced
    BY DEF IInv, PipelineInv
  <2>1. /\ \A p \in Producers : ppc[p] = "idle" /\ ev[p] = NoEvent
        /\ \A c \in Consumers : cpc[c] = "no" /\ out[c] = NoEvent
    <3>1. Exited(Producers) /\ Exited(Consumers)
      BY <2>a DEF Joined
    <3> QED
      BY <2>a, <3>1 DEF Exited, Joined, Carrying
  <2>2. queue = <<>>
    BY <2>a, <2>1 DEF Drained
  <2>3. NoEvent \notin MeasuredEvents
    BY DEF MeasuredEvents, Measured, NoEvent
  <2>4. /\ DOMAIN ev = Producers /\ DOMAIN AtWork = Consumers /\ DOMAIN Taken = Producers
        /\ queue \in Seq(Events)
    BY <2>a DEF TypeOK, Taken, AtWork
  <2>5. Count(ev, MeasuredEvents) = 0 /\ Count(AtWork, MeasuredEvents) = 0
    <3>1. \A c \in DOMAIN AtWork : AtWork[c] \notin MeasuredEvents
      BY <2>1, <2>3 DEF AtWork
    <3> QED
      BY <2>1, <2>3, <2>4, <3>1, CountNone
  <2>6. Count(Taken, MeasuredEvents) = 0
    <3>1. \A p \in DOMAIN Taken : Taken[p] \notin MeasuredEvents
      BY <2>1, <2>3 DEF Taken
    <3> QED
      BY <3>1, CountNone
  <2>7. Count(queue, MeasuredEvents) = 0
    BY <2>2, <2>4, CountSeqType
  <2>8. accepted \in Nat /\ completed \in Nat /\ generated \in Nat /\ dropped_ingress \in Nat
    BY <2>a DEF RunTypeOK
  <2>9. accepted = completed
    BY <2>a, <2>5, <2>6, <2>7, <2>8 DEF DeliveryBalanced
  <2>10. /\ config_policy = "Drop" => generated = accepted + dropped_ingress
         /\ config_policy = "Block" =>
              dropped_ingress = 0 /\ generated <= accepted + Cardinality(Producers)
    BY <2>a, <2>5, <2>8 DEF IngressBalanced
  <2> QED
    BY <2>2, <2>9, <2>10
<1> QED
  BY <1>1, QueueInvariance, PipelineInvariance, PTL
=============================================================================
