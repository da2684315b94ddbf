---------------------------- MODULE HarnessProofs ----------------------------
(***************************************************************************)
(* What holds of Harness for every number of producers, every capacity and *)
(* wait strategy, every warmup and every number of events.                 *)
(***************************************************************************)
EXTENDS Harness, GlobalLockQueueProofs

USE CapacitiesAssumption, StrategyAssumption, MaxEventsAssumption, ScopesAssumption,
    ThreadsAssumption, ConsumerAssumption, WarmupAssumption, FlagAssumption

-----------------------------------------------------------------------------
(* The harness uses the queue as it is meant to be used                    *)

\* Raising the one flag is a Stop of the queue's owner, or was done before.
LEMMA RaiseIsStop ==
  ASSUME TypeOK, RaiseStop
  PROVE  Stop \/ UNCHANGED vars
<1>1. stop \in [Flags -> BOOLEAN] /\ Flags = {"push", "pop"}
  BY DEF TypeOK, Flags
<1>2. CASE \A f \in Flags : stop[f]
  BY <1>1, <1>2 DEF RaiseStop, vars
<1>3. CASE \E f \in Flags : ~stop[f]
  <2>1. stop' = [f \in Flags |-> stop[f] \/ f \in {"push", "pop"}]
    BY <1>1 DEF RaiseStop
  <2> QED
    BY <1>1, <1>3, <2>1 DEF RaiseStop, Stop
<1> QED
  BY <1>2, <1>3

\* Every step of the harness is a step of the queue or leaves it alone.
LEMMA QueueStep == TypeOK /\ [HarnessNext]_allVars => [Next]_vars
<1> SUFFICES ASSUME TypeOK, [HarnessNext]_allVars PROVE Next \/ UNCHANGED vars
  OBVIOUS
<1>1. ASSUME NEW p \in Producers, Produce(p) \/ ProducerPush(p) \/ CountPush(p)
      PROVE  Next
  BY <1>1 DEF Produce, ProducerPush, CountPush, Next, PushStep
<1>2. CASE ConsumerPop \/ CountPop
  BY <1>2 DEF ConsumerPop, CountPop, Next, PopStep
<1>3. CASE MainStep
  BY <1>3, RaiseIsStop DEF MainStep, CloseQueue, JoinProducers, JoinConsumer, Next
<1>4. ASSUME NEW p \in Producers, LeaveProducer(p) PROVE UNCHANGED vars
  BY <1>4 DEF LeaveProducer, Exit
<1>5. CASE LeaveConsumer
  BY <1>5 DEF LeaveConsumer, Exit
<1>6. CASE Expire \/ Wakeup \/ Done \/ UNCHANGED allVars
  BY <1>6 DEF Expire, Wakeup, Done, allVars, Next
<1> QED
  BY <1>1, <1>2, <1>3, <1>4, <1>5, <1>6 DEF HarnessNext, ProducerStep, ConsumerStep

\* The queue's inductive invariant holds in the harness too.
LEMMA QueueInvariance == HarnessSpec => []IInv
<1>1. HarnessInit => IInv
  BY InvInit DEF HarnessInit
<1>2. IInv /\ [HarnessNext]_allVars => IInv'
  BY QueueStep, InvStep DEF IInv
<1> QED
  BY <1>1, <1>2, PTL DEF HarnessSpec

\* What the producers and the consumer see in the harness is the FIFO that
\* IEventQueue promises.
THEOREM QueueAsPromised == HarnessSpec => Contract
<1>1. HarnessInit => Init
  BY DEF HarnessInit
<1>2. IInv /\ [HarnessNext]_allVars => [Next]_vars
  BY QueueStep DEF IInv
<1>3. HarnessSpec => Spec
  BY <1>1, <1>2, QueueInvariance, PTL DEF HarnessSpec, Spec
<1> QED
  BY <1>3, Refinement

-----------------------------------------------------------------------------
(* The inductive invariant                                                 *)

\* Types; what the counters count is bounded by the balances below.
RunTypeOK ==
  /\ config_policy \in {"Block", "Drop"} /\ expired \in BOOLEAN
  /\ main \in {"sleep", "close", "join_producers", "join_consumer", "done"}
  /\ exited \subseteq Producers \cup Consumers
  /\ produced \in Nat /\ consumed \in Nat /\ dropped \in Nat

\* Only a call under way carries an event, and it has the configured policy.
Carrying ==
  /\ \A p \in Producers :
       /\ IF ppc[p] = "idle" THEN ev[p] = NoEvent ELSE policy[p] = config_policy
       /\ ppc[p] = "spin" => wait_strategy = "SpinYield"
  /\ cpc[Consumer] # "ok" => out[Consumer] = NoEvent

\* The main thread alone raises the flags and closes the queue; in a Block run
\* push refuses nothing before it does.
Stopping ==
  /\ stop = [f \in Flags |-> main # "sleep"]
  /\ closed = (main \notin {"sleep", "close"})
  /\ \A p \in Producers : ppc[p] = "no" /\ config_policy = "Block" => main # "sleep"

\* Main has joined whom it is past joining, and a thread ends after its last call.
Joined ==
  /\ main \in {"join_consumer", "done"} => Producers \subseteq exited
  /\ main = "done" => Consumer \in exited
  /\ \A p \in Producers : p \in exited => ppc[p] = "idle"
  /\ Consumer \in exited => cpc[Consumer] = "no"

\* The pushes that may still insert their event.
Pushing == {"enter", "parked", "woken", "spin"}

\* push looks at the flag before it looks for room.
StopFirst == config_policy = "Block" /\ wait_strategy = "ConditionVariable" /\ capacity # 0

\* A consumer that was refused found the queue empty with the flag up; since then
\* only pushes that were under way may have inserted, each of them once.
Late ==
  cpc[Consumer] = "no" =>
    /\ main # "sleep"
    /\ Len(queue) + Count(ppc, Pushing) <= Cardinality(Producers)
    /\ StopFirst => queue = <<>>

\* The events that count, and those of the pushes that are about to count them.
MeasuredEvents == {e \in 0 .. MaxEvents : Measured(e)}
Taken == [p \in Producers |-> IF ppc[p] = "ok" THEN ev[p] ELSE NoEvent]

\* An accepted event is on its way to the counter, in the queue, with the
\* consumer, or consumed.
DeliveryBalanced ==
  produced + Count(Taken, MeasuredEvents)
    = consumed + Count(queue, MeasuredEvents) + Count(out, MeasuredEvents)

\* A created event is being pushed, produced or dropped; but for the one of each
\* producer that a Block run refuses once the flag is up.
ProductionBalanced ==
  LET pushing == Count(ev, MeasuredEvents)
  IN  /\ produced + dropped + pushing <= MeasuredCreated
      /\ config_policy = "Drop" => MeasuredCreated = produced + dropped + pushing
      /\ config_policy = "Block" =>
           /\ dropped = 0
           /\ MeasuredCreated <= produced + Cardinality(Producers)
           /\ main = "sleep" => MeasuredCreated = produced + pushing

HarnessInv ==
  RunTypeOK /\ Carrying /\ Stopping /\ Joined /\ Late /\ DeliveryBalanced /\ ProductionBalanced

-----------------------------------------------------------------------------
(* Steps and what they leave alone                                         *)

\* A step that belongs to no call: the main thread's, the clock's, a wakeup, a
\* thread that ends.
Quiet ==
  /\ UNCHANGED <<queue, push_attempts, ev, policy, out, counters>>
  /\ Stirred(Producers, ppc, ppc') /\ Stirred(Consumers, cpc, cpc')

\* The kinds of steps.
LEMMA Kinds ==
  ASSUME TypeOK, [HarnessNext]_allVars
  PROVE  \/ \E p \in Producers : Produce(p) \/ CountPush(p)
         \/ \E p \in Producers : ProducerPush(p) /\ PushOutcome(p)
         \/ PopCall(Consumer) /\ UNCHANGED runVars
         \/ PopOutcome(Consumer) /\ UNCHANGED runVars
         \/ CountPop
         \/ Quiet
<1>a. ppc \in [Producers -> Places] /\ cpc \in [Consumers -> Places]
  BY Types
<1>1. ASSUME NEW p \in Producers, ProducerPush(p) PROVE PushOutcome(p)
  BY <1>1, PushLooks DEF ProducerPush
<1>2. ASSUME ConsumerPop, ~PopCall(Consumer) PROVE PopOutcome(Consumer) /\ UNCHANGED runVars
  BY <1>2, PopLooks DEF ConsumerPop
<1>3. ASSUME Close, UNCHANGED counters PROVE Quiet
  <2>1. Stirred(Producers, ppc, ppc') /\ Stirred(Consumers, cpc, cpc')
    BY <1>a, <1>3, NotifiedAll DEF Close, Stirred
  <2> QED
    BY <1>3, <2>1 DEF Close, Quiet
<1>4. CASE Wakeup
  <2>1. Stirred(Producers, ppc, ppc') /\ Stirred(Consumers, cpc, cpc')
    BY <1>a, <1>4 DEF Wakeup, SpuriousWakeup, ParkedIn, Stirred
  <2> QED
    BY <1>4, <2>1 DEF Wakeup, SpuriousWakeup, Quiet, runVars
<1>5. ASSUME UNCHANGED <<queue, pushVars, popVars, counters>> PROVE Quiet
  BY <1>5 DEF Quiet, Stirred, pushVars, popVars
<1>6. ASSUME NEW p \in Producers, LeaveProducer(p) PROVE Quiet
  BY <1>5, <1>6 DEF LeaveProducer, Exit, vars
<1>7. CASE LeaveConsumer
  BY <1>5, <1>7 DEF LeaveConsumer, Exit, vars
<1>8. CASE MainStep
  <2>1. CASE CloseQueue
    BY <1>3, <2>1 DEF CloseQueue
  <2>2. CASE RaiseStop \/ JoinProducers \/ JoinConsumer
    BY <1>5, <2>2 DEF RaiseStop, JoinProducers, JoinConsumer, vars
  <2> QED
    BY <1>8, <2>1, <2>2 DEF MainStep
<1>9. CASE Expire \/ Done \/ UNCHANGED allVars
  BY <1>5, <1>9 DEF Expire, Done, allVars, vars, runVars
<1> QED
  BY <1>1, <1>2, <1>4, <1>6, <1>7, <1>8, <1>9 DEF HarnessNext, ProducerStep, ConsumerStep, ConsumerPop

\* The configuration stays, threads stay gone, the main thread goes its way and
\* waits for the threads it joins.
LEMMA MainGoesOn ==
  ASSUME [HarnessNext]_allVars
  PROVE  /\ UNCHANGED <<capacity, wait_strategy, config_policy>>
         /\ exited \subseteq exited'
         /\ \/ main' = main /\ UNCHANGED <<stop, closed>>
            \/ main = "sleep" /\ main' = "close" /\ RaiseStop
            \/ main = "close" /\ main' = "join_producers" /\ CloseQueue
            \/ main = "join_producers" /\ main' = "join_consumer" /\ JoinProducers
            \/ main = "join_consumer" /\ main' = "done" /\ JoinConsumer
<1>1. ASSUME NEW p \in Producers, Produce(p) \/ CountPush(p)
      PROVE  UNCHANGED <<config, config_policy, exited, main, stop, closed>>
  BY <1>1 DEF Produce, CountPush, PushCall, PushReturn, runVars
<1>2. ASSUME NEW p \in Producers, ProducerPush(p)
      PROVE  UNCHANGED <<config, config_policy, exited, main, stop, closed>>
  BY <1>2 DEF ProducerPush, EnterPush, ResumePush, RelockPush, runVars
<1>3. CASE ConsumerPop
  <2>1. UNCHANGED <<config, config_policy, exited, main, stop, closed>>
    BY <1>3 DEF ConsumerPop, PopCall, EnterPop, ResumePop, RelockPop, runVars
  <2> QED
    BY <2>1 DEF config
<1>4. CASE CountPop
  <2>1. UNCHANGED <<config, config_policy, exited, main, stop, closed>>
    BY <1>4 DEF CountPop, PopReturn
  <2> QED
    BY <2>1 DEF config
<1>5. ASSUME NEW t, Exit(t)
      PROVE  UNCHANGED <<config, config_policy, main, stop, closed>> /\ exited \subseteq exited'
  BY <1>5 DEF Exit, vars
<1>6. CASE Expire \/ Wakeup \/ Done \/ UNCHANGED allVars
  <2>1. UNCHANGED <<config, config_policy, exited, main, stop, closed>>
    BY <1>6 DEF Expire, Wakeup, SpuriousWakeup, Done, allVars, runVars, vars
  <2> QED
    BY <2>1 DEF config
<1>7. CASE RaiseStop
  BY <1>7 DEF RaiseStop, config
<1>8. CASE CloseQueue
  BY <1>8 DEF CloseQueue, Close, config
<1>9. CASE JoinProducers
  BY <1>9 DEF JoinProducers, vars, config
<1>10. CASE JoinConsumer
  BY <1>10 DEF JoinConsumer, vars, config
<1> QED
  BY <1>1, <1>2, <1>3, <1>4, <1>5, <1>6, <1>7, <1>8, <1>9, <1>10
  DEF HarnessNext, ProducerStep, ConsumerStep, MainStep, LeaveProducer, LeaveConsumer, config

-----------------------------------------------------------------------------
(* Order: who is still there when                                          *)

\* Types are kept.
LEMMA RunTypeStep == RunTypeOK /\ [HarnessNext]_allVars => RunTypeOK'
<1> SUFFICES ASSUME RunTypeOK, [HarnessNext]_allVars PROVE RunTypeOK'
  OBVIOUS
<1> USE DEF RunTypeOK
<1>1. ASSUME UNCHANGED runVars PROVE RunTypeOK'
  BY <1>1 DEF runVars, counters
<1>2. ASSUME NEW p \in Producers, Produce(p) \/ ProducerPush(p) PROVE RunTypeOK'
  BY <1>1, <1>2 DEF Produce, ProducerPush
<1>3. ASSUME NEW p \in Producers, CountPush(p) PROVE RunTypeOK'
  <2>1. produced' \in Nat /\ dropped' \in Nat
    BY <1>3 DEF CountPush, CountIf
  <2> QED
    BY <1>3, <2>1 DEF CountPush
<1>4. CASE ConsumerPop
  BY <1>1, <1>4 DEF ConsumerPop
<1>5. CASE CountPop
  <2>1. consumed' \in Nat
    BY <1>5 DEF CountPop, CountIf
  <2> QED
    BY <1>5, <2>1 DEF CountPop
<1>6. ASSUME NEW t \in Producers \cup Consumers, Exit(t) PROVE RunTypeOK'
  BY <1>6 DEF Exit, counters
<1>7. CASE MainStep \/ Expire
  BY <1>7 DEF MainStep, RaiseStop, CloseQueue, JoinProducers, JoinConsumer, Expire, counters
<1>8. CASE Wakeup \/ Done \/ UNCHANGED allVars
  BY <1>1, <1>8 DEF Wakeup, Done, allVars
<1> QED
  BY <1>2, <1>3, <1>4, <1>5, <1>6, <1>7, <1>8
  DEF HarnessNext, ProducerStep, ConsumerStep, LeaveProducer, LeaveConsumer

\* A call takes its event up when it begins and lays it down when it returns.
LEMMA CarryingStep == IInv /\ HarnessInv /\ [HarnessNext]_allVars => Carrying'
<1> SUFFICES ASSUME IInv, HarnessInv, [HarnessNext]_allVars PROVE Carrying'
  OBVIOUS
<1>a. /\ TypeOK /\ Carrying
      /\ config_policy' = config_policy /\ wait_strategy' = wait_strategy
      /\ ppc \in [Producers -> Places] /\ cpc \in [Consumers -> Places]
      /\ ev \in [Producers -> 0 .. MaxEvents] /\ policy \in [Producers -> {"Block", "Drop"}]
      /\ out \in [Consumers -> 0 .. MaxEvents] /\ Consumer \in Consumers
      /\ wait_strategy \in {"ConditionVariable", "SpinYield"}
  BY Types, MainGoesOn DEF IInv, HarnessInv, TypeOK
<1> USE DEF Carrying, NoEvent
<1>1. ASSUME NEW p \in Producers, Produce(p) PROVE Carrying'
  <2>1. /\ ppc' = [ppc EXCEPT ![p] = "enter"] /\ UNCHANGED <<cpc, out>>
        /\ policy'[p] = config_policy
        /\ \A q \in Producers \ {p} : policy'[q] = policy[q] /\ ev'[q] = ev[q]
    BY <1>a, <1>1 DEF Produce, PushCall, popVars
  <2> QED
    BY <1>a, <2>1
<1>2. ASSUME NEW p \in Producers, CountPush(p) PROVE Carrying'
  <2>1. /\ ppc' = [ppc EXCEPT ![p] = "idle"] /\ UNCHANGED <<cpc, out>>
        /\ ev' = [ev EXCEPT ![p] = NoEvent] /\ policy' = [policy EXCEPT ![p] = "Block"]
    BY <1>2 DEF CountPush, PushReturn, popVars
  <2> QED
    BY <1>a, <2>1
<1>3. ASSUME NEW p \in Producers, ProducerPush(p), PushOutcome(p) PROVE Carrying'
  <2>1. /\ UNCHANGED <<ev, policy, out>> /\ Stirred(Consumers, cpc, cpc')
        /\ ppc[p] # "idle" /\ ppc'[p] # "idle" /\ \A q \in Producers \ {p} : ppc'[q] = ppc[q]
    BY <1>a, <1>3, PushEffect
  <2>2. ppc'[p] = "spin" => wait_strategy = "SpinYield"
    <3>1. CASE ppc[p] = "spin"
      BY <1>a, <3>1
    <3>2. CASE ppc[p] # "spin" /\ wait_strategy = "ConditionVariable"
      <4>1. EnterPush(p) \/ ResumePush(p)
        BY <1>3, <3>2 DEF ProducerPush, RelockPush
      <4> QED
        BY <1>a, <3>2, <4>1 DEF EnterPush, ResumePush, BlockWait, Accept, Hold
    <3> QED
      BY <1>a, <3>1, <3>2
  <2> QED
    BY <1>a, <2>1, <2>2 DEF Stirred
<1>4. CASE PopCall(Consumer) \/ CountPop
  <2>1. /\ UNCHANGED <<ppc, ev, policy>>
        /\ cpc'[Consumer] # "ok"
        /\ out'[Consumer] = NoEvent
    BY <1>a, <1>4 DEF PopCall, CountPop, PopReturn, pushVars
  <2> QED
    BY <1>a, <2>1
<1>5. CASE PopOutcome(Consumer)
  <2>1. /\ UNCHANGED <<ev, policy>> /\ Stirred(Producers, ppc, ppc')
        /\ cpc[Consumer] # "ok" /\ (cpc'[Consumer] = "ok" \/ out' = out)
    BY <1>a, <1>5, PopEffect
  <2> QED
    BY <1>a, <2>1 DEF Stirred
<1>6. CASE Quiet
  BY <1>a, <1>6 DEF Quiet, Stirred
<1> QED
  BY <1>a, <1>1, <1>2, <1>3, <1>4, <1>5, <1>6, Kinds

\* Only the main thread raises the flag and closes the queue.
LEMMA StoppingStep == IInv /\ HarnessInv /\ [HarnessNext]_allVars => Stopping'
<1> SUFFICES ASSUME IInv, HarnessInv, [HarnessNext]_allVars PROVE Stopping'
  OBVIOUS
<1>a. TypeOK /\ RunTypeOK /\ Carrying /\ Stopping /\ config_policy' = config_policy
  BY MainGoesOn DEF IInv, HarnessInv
<1>b. main # "sleep" => main' # "sleep"
  BY MainGoesOn
<1>1. stop' = [f \in Flags |-> main' # "sleep"] /\ closed' = (main' \notin {"sleep", "close"})
  <2>1. CASE main' = main /\ UNCHANGED <<stop, closed>>
    BY <1>a, <2>1 DEF Stopping
  <2>2. CASE main = "sleep" /\ main' = "close" /\ RaiseStop
    BY <1>a, <2>2 DEF Stopping, RaiseStop
  <2>3. CASE main = "close" /\ main' = "join_producers" /\ CloseQueue
    BY <1>a, <2>3 DEF Stopping, CloseQueue, Close
  <2>4. CASE \/ main = "join_producers" /\ main' = "join_consumer" /\ JoinProducers
             \/ main = "join_consumer" /\ main' = "done" /\ JoinConsumer
    BY <1>a, <2>4 DEF Stopping, JoinProducers, JoinConsumer, vars
  <2> QED
    BY <2>1, <2>2, <2>3, <2>4, MainGoesOn
<1>2. ASSUME NEW p \in Producers, ppc'[p] = "no", config_policy = "Block" PROVE main' # "sleep"
  <2>t. ppc \in [Producers -> Places]
    BY <1>a, Types
  <2>1. ASSUME NEW q \in Producers, Produce(q) \/ CountPush(q) PROVE ppc[p] = "no"
    BY <1>2, <2>1, <2>t DEF Produce, CountPush, PushCall, PushReturn
  <2>2. ASSUME NEW q \in Producers, PushOutcome(q) PROVE ppc[p] = "no" \/ main # "sleep"
    <3>1. CASE q = p
      <4>1. closed \/ stop["push"] \/ policy[p] = "Drop"
        BY <1>a, <1>2, <2>2, <3>1, PushEffect
      <4>2. policy[p] = "Block"
        BY <1>a, <1>2, <2>2, <3>1, PushEffect DEF Carrying
      <4> QED
        BY <1>a, <4>1, <4>2 DEF Stopping, Flags
    <3>2. CASE q # p
      BY <1>a, <1>2, <2>2, <3>2, PushEffect
    <3> QED
      BY <3>1, <3>2
  <2>3. ASSUME Stirred(Producers, ppc, ppc') PROVE ppc[p] = "no"
    BY <1>2, <2>3 DEF Stirred
  <2>4. CASE PopCall(Consumer) \/ CountPop
    BY <1>a, <1>b, <1>2, <2>4 DEF Stopping, PopCall, CountPop, PopReturn, pushVars
  <2>5. ASSUME PopOutcome(Consumer) PROVE ppc[p] = "no"
    BY <1>a, <2>3, <2>5, PopEffect
  <2>6. ASSUME Quiet PROVE ppc[p] = "no"
    BY <2>3, <2>6 DEF Quiet
  <2>7. CASE ppc[p] = "no" \/ main # "sleep"
    BY <1>a, <1>b, <1>2, <2>7 DEF Stopping
  <2> QED
    BY <1>a, <2>1, <2>2, <2>4, <2>5, <2>6, <2>7, Kinds
<1> QED
  BY <1>a, <1>1, <1>2 DEF Stopping

\* A thread that is gone makes no call, and is gone only after its last one.
LEMMA JoinedStep == IInv /\ HarnessInv /\ [HarnessNext]_allVars => Joined'
<1> SUFFICES ASSUME IInv, HarnessInv, [HarnessNext]_allVars PROVE Joined'
  OBVIOUS
<1>a. /\ TypeOK /\ RunTypeOK /\ Joined /\ Consumer \in Consumers
      /\ ppc \in [Producers -> Places] /\ cpc \in [Consumers -> Places]
  BY Types DEF IInv, HarnessInv
<1>1. main' \in {"join_consumer", "done"} => Producers \subseteq exited'
  BY <1>a, MainGoesOn DEF Joined, JoinProducers
<1>2. main' = "done" => Consumer \in exited'
  BY <1>a, MainGoesOn DEF Joined, JoinConsumer
<1> DEFINE Kept == /\ \A p \in Producers : p \in exited /\ ppc[p] = "idle" => ppc'[p] = "idle"
                   /\ cpc[Consumer] = "no" => cpc'[Consumer] = "no"
<1>3. Kept
  <2>1. ASSUME NEW p \in Producers, Produce(p) \/ CountPush(p) PROVE Kept
    BY <1>a, <2>1 DEF Produce, CountPush, PushCall, PushReturn, popVars
  <2>2. ASSUME NEW p \in Producers, PushOutcome(p) PROVE Kept
    BY <1>a, <2>2, PushEffect DEF Stirred
  <2>3. ASSUME PopCall(Consumer) \/ CountPop PROVE Kept
    BY <1>a, <2>3 DEF PopCall, CountPop, PopReturn, pushVars
  <2>4. ASSUME PopOutcome(Consumer) PROVE Kept
    BY <1>a, <2>4, PopEffect DEF Stirred
  <2>5. ASSUME Quiet PROVE Kept
    BY <2>5 DEF Quiet, Stirred
  <2> QED
    BY <1>a, <2>1, <2>2, <2>3, <2>4, <2>5, Kinds
<1>4. ASSUME NEW t \in exited', t \notin exited
      PROVE  (t \in Producers /\ ppc'[t] = "idle") \/ (t = Consumer /\ cpc'[t] = "no")
  <2>1. (\E p \in Producers : LeaveProducer(p)) \/ LeaveConsumer
    BY <1>4 DEF HarnessNext, Produce, ProducerStep, ProducerPush, CountPush, ConsumerStep, ConsumerPop,
       CountPop, MainStep, RaiseStop, CloseQueue, JoinProducers, JoinConsumer, Expire, Wakeup, Done,
       allVars, runVars
  <2> QED
    BY <1>4, <2>1 DEF LeaveProducer, LeaveConsumer, Exit, vars, pushVars, popVars
<1> QED
  BY <1>a, <1>1, <1>2, <1>3, <1>4 DEF Joined

\* With the flag up, a blocking push that waits on a condition variable inserts
\* nothing: it looks at the flag first.
LEMMA StopBeforeRoom ==
  ASSUME NEW p \in Producers, EnterPush(p) \/ ResumePush(p) \/ RelockPush(p), stop["push"],
         policy[p] = "Block", wait_strategy = "ConditionVariable", capacity # 0, ppc[p] # "spin"
  PROVE  queue' = queue
BY DEF EnterPush, ResumePush, RelockPush, BlockWait, Hold

\* After the consumer was refused, each push under way inserts at most its event.
LEMMA LateStep == IInv /\ HarnessInv /\ [HarnessNext]_allVars => Late'
<1> SUFFICES ASSUME IInv, HarnessInv, [HarnessNext]_allVars, cpc'[Consumer] = "no"
             PROVE  /\ main' # "sleep"
                    /\ Len(queue') + Count(ppc', Pushing) <= Cardinality(Producers)
                    /\ StopFirst' => queue' = <<>>
  BY DEF Late, Pushing
<1>a. /\ TypeOK /\ Carrying /\ Stopping /\ Late /\ Consumer \in Consumers
      /\ ppc \in [Producers -> Places] /\ cpc \in [Consumers -> Places]
      /\ queue \in Seq(Events) /\ IsFiniteSet(Producers) /\ DOMAIN ppc = Producers
  BY Types DEF IInv, HarnessInv
<1>b. ppc' \in [Producers -> Places] /\ DOMAIN ppc' = Producers
  <2>1. TypeOK'
    BY <1>a, QueueStep, InvStep DEF IInv
  <2> QED
    BY <2>1 DEF TypeOK, Places
<1>c. (main # "sleep" => main' # "sleep") /\ (StopFirst' <=> StopFirst)
  BY MainGoesOn DEF StopFirst
<1>n. Count(ppc, Pushing) \in Nat /\ Cardinality(Producers) \in Nat /\ Len(queue) \in Nat
  <2>1. Count(ppc, Pushing) \in Nat
    BY <1>a, CountType
  <2> QED
    BY <1>a, <2>1, FS_CardinalityType
<1>d. ASSUME cpc[Consumer] = "no"
      PROVE  /\ main # "sleep" /\ stop["push"]
             /\ Len(queue) + Count(ppc, Pushing) <= Cardinality(Producers)
             /\ StopFirst => queue = <<>>
  BY <1>a, <1>d DEF Late, Stopping, Flags
<1>1. ASSUME NEW p \in Producers, Produce(p) PROVE FALSE
  <2>1. cpc' = cpc /\ ~stop["push"]
    BY <1>1 DEF Produce, PushCall, popVars
  <2> QED
    BY <1>d, <2>1
<1>2. ASSUME NEW p \in Producers, CountPush(p)
      PROVE  /\ main' # "sleep"
             /\ Len(queue') + Count(ppc', Pushing) <= Cardinality(Producers)
             /\ StopFirst' => queue' = <<>>
  <2>1. cpc' = cpc /\ queue' = queue /\ ppc[p] \in {"ok", "no"} /\ ppc' = [ppc EXCEPT ![p] = "idle"]
    BY <1>2 DEF CountPush, PushReturn, popVars
  <2>2. \A t \in DOMAIN ppc : ppc'[t] \in Pushing => ppc[t] \in Pushing
    BY <1>a, <2>1 DEF Pushing
  <2>3. Count(ppc', Pushing) <= Count(ppc, Pushing) /\ Count(ppc', Pushing) \in Nat
    BY <1>a, <1>b, <2>2, CountWithin, CountType
  <2> QED
    BY <1>c, <1>d, <1>n, <2>1, <2>3
<1>3. ASSUME NEW p \in Producers, ProducerPush(p), PushOutcome(p)
      PROVE  /\ main' # "sleep"
             /\ Len(queue') + Count(ppc', Pushing) <= Cardinality(Producers)
             /\ StopFirst' => queue' = <<>>
  <2>1. cpc[Consumer] = "no"
    BY <1>a, <1>3, PushEffect DEF Stirred
  <2>2. /\ ppc[p] \in Pushing /\ ppc' = [ppc EXCEPT ![p] = ppc'[p]]
        /\ \/ ppc'[p] = "ok" /\ queue' = Append(queue, ev[p])
           \/ queue' = queue /\ ppc'[p] \in {"no", "spin", "parked"}
    <3>1. ppc[p] \in Pushing
      BY <1>3 DEF PushOutcome, Pushing
    <3>2. ppc' = [ppc EXCEPT ![p] = ppc'[p]]
      BY <1>a, <1>b, <1>3, PushEffect
    <3> QED
      BY <1>a, <1>3, <3>1, <3>2, PushEffect
  <2>3. Count(ppc', Pushing) = Count(ppc, Pushing) + One(ppc'[p], Pushing) - 1
    <3>1. Count([ppc EXCEPT ![p] = ppc'[p]], Pushing)
            = Count(ppc, Pushing) + One(ppc'[p], Pushing) - One(ppc[p], Pushing)
      BY <1>a, CountMove
    <3>2. One(ppc[p], Pushing) = 1
      BY <2>2 DEF One
    <3> QED
      BY <2>2, <3>1, <3>2
  <2>4. /\ One(ppc'[p], Pushing) \in {0, 1}
        /\ ppc'[p] = "ok" => One(ppc'[p], Pushing) = 0
    BY DEF One, Pushing
  <2>5. StopFirst => queue' = <<>>
    <3> SUFFICES ASSUME StopFirst PROVE queue' = <<>>
      OBVIOUS
    <3>1. policy[p] = "Block" /\ ppc[p] # "spin"
      BY <1>a, <2>2 DEF Carrying, StopFirst, Pushing
    <3>2. queue' = queue
      BY <1>3, <1>d, <2>1, <3>1, StopBeforeRoom DEF StopFirst, ProducerPush
    <3> QED
      BY <1>d, <2>1, <3>2
  <2>6. CASE ppc'[p] = "ok" /\ queue' = Append(queue, ev[p])
    <3>1. Len(queue') = Len(queue) + 1
      BY <1>a, <2>6
    <3> QED
      BY <1>c, <1>d, <1>n, <2>1, <2>3, <2>4, <2>5, <2>6, <3>1
  <2>7. CASE queue' = queue
    BY <1>c, <1>d, <1>n, <2>1, <2>3, <2>4, <2>5, <2>7
  <2> QED
    BY <2>2, <2>6, <2>7
<1>4. ASSUME PopCall(Consumer) \/ CountPop PROVE FALSE
  <2>1. cpc'[Consumer] \in {"enter", "idle"}
    BY <1>a, <1>4 DEF PopCall, CountPop, PopReturn
  <2> QED
    BY <2>1
<1>5. ASSUME PopOutcome(Consumer)
      PROVE  /\ main' # "sleep"
             /\ Len(queue') + Count(ppc', Pushing) <= Cardinality(Producers)
             /\ StopFirst' => queue' = <<>>
  <2>1. queue' = <<>> /\ (closed \/ stop["pop"])
    BY <1>a, <1>5, PopEffect
  <2>2. main # "sleep"
    BY <1>a, <2>1 DEF Stopping, Flags
  <2>3. Count(ppc', Pushing) <= Cardinality(Producers) /\ Count(ppc', Pushing) \in Nat
    BY <1>a, <1>b, CountBound, CountType
  <2>4. Len(queue') = 0
    BY <2>1
  <2> QED
    BY <1>c, <1>n, <2>1, <2>2, <2>3, <2>4
<1>6. ASSUME Quiet
      PROVE  /\ main' # "sleep"
             /\ Len(queue') + Count(ppc', Pushing) <= Cardinality(Producers)
             /\ StopFirst' => queue' = <<>>
  <2>1. cpc[Consumer] = "no" /\ queue' = queue
    BY <1>a, <1>6 DEF Quiet, Stirred
  <2>2. \A t \in DOMAIN ppc : ppc'[t] \in Pushing => ppc[t] \in Pushing
    BY <1>a, <1>6 DEF Quiet, Stirred, Pushing
  <2>3. Count(ppc', Pushing) <= Count(ppc, Pushing) /\ Count(ppc', Pushing) \in Nat
    BY <1>a, <1>b, <2>2, CountWithin, CountType
  <2> QED
    BY <1>c, <1>d, <1>n, <2>1, <2>3
<1> QED
  BY <1>a, <1>1, <1>2, <1>3, <1>4, <1>5, <1>6, Kinds

-----------------------------------------------------------------------------
(* The books are balanced                                                  *)

\* Counting an event or not is adding it to the measured ones or not.
LEMMA Measures ==
  ASSUME NEW e \in 0 .. MaxEvents
  PROVE  /\ One(e, MeasuredEvents) \in {0, 1} /\ One(NoEvent, MeasuredEvents) = 0
         /\ \A n \in Nat : CountIf(Measured(e), n) = n + One(e, MeasuredEvents)
<1>1. e \in MeasuredEvents <=> Measured(e)
  BY DEF MeasuredEvents
<1>2. NoEvent \notin MeasuredEvents
  BY DEF MeasuredEvents, Measured, NoEvent
<1>3. CASE Measured(e)
  BY <1>1, <1>2, <1>3 DEF One, CountIf
<1>4. CASE ~Measured(e)
  BY <1>1, <1>2, <1>4 DEF One, CountIf
<1> QED
  BY <1>3, <1>4

\* The counts are of finitely many events.
LEMMA CountTypes ==
  ASSUME TypeOK
  PROVE  /\ Taken \in [Producers -> 0 .. MaxEvents]
         /\ Count(Taken, MeasuredEvents) \in Nat /\ Count(ev, MeasuredEvents) \in Nat
         /\ Count(out, MeasuredEvents) \in Nat /\ Count(queue, MeasuredEvents) \in Nat
<1>1. /\ ev \in [Producers -> 0 .. MaxEvents] /\ out \in [Consumers -> 0 .. MaxEvents]
      /\ queue \in Seq(Events)
  BY DEF TypeOK
<1>2. Taken \in [Producers -> 0 .. MaxEvents]
  BY <1>1 DEF Taken, NoEvent
<1> QED
  BY <1>1, <1>2, CountType, CountSeqType

\* Creating an event creates a measured one, or not.
LEMMA CreatedMore ==
  ASSUME TypeOK, NEW p \in Producers, PushCall(p)
  PROVE  /\ push_attempts' \in 0 .. MaxEvents /\ MeasuredCreated \in Nat
         /\ MeasuredCreated' = MeasuredCreated + One(push_attempts', MeasuredEvents)
<1>1. push_attempts \in Nat /\ push_attempts' = push_attempts + 1 /\ push_attempts' \in 0 .. MaxEvents
  BY DEF TypeOK, PushCall
<1>2. MeasuredCreated \in Nat
  BY <1>1 DEF MeasuredCreated
<1>3. MeasuredCreated' = CountIf(Measured(push_attempts'), MeasuredCreated)
  BY <1>1 DEF MeasuredCreated, CountIf, Measured
<1> QED
  BY <1>1, <1>2, <1>3, Measures

\* A push, its loop and its return keep the delivery balanced.
LEMMA PushDelivers ==
  ASSUME TypeOK, RunTypeOK, Offering, NEW p \in Producers, DeliveryBalanced,
         Produce(p) \/ CountPush(p) \/ (ProducerPush(p) /\ PushOutcome(p))
  PROVE  DeliveryBalanced'
<1> DEFINE M == MeasuredEvents
<1>g. DeliveryBalanced' <=> produced' + Count(Taken', M) = consumed' + Count(queue', M) + Count(out', M)
  BY DEF DeliveryBalanced, MeasuredEvents, Measured
<1>a. /\ ppc \in [Producers -> Places] /\ ev \in [Producers -> 0 .. MaxEvents]
      /\ Taken \in [Producers -> 0 .. MaxEvents]
      /\ queue \in Seq(Events) /\ IsFiniteSet(Producers)
  BY Types, CountTypes DEF TypeOK
<1>b. produced + Count(Taken, M) = consumed + Count(queue, M) + Count(out, M)
  BY DEF DeliveryBalanced
<1>c. One(ev[p], M) \in {0, 1} /\ One(NoEvent, M) = 0 /\ One(Taken[p], M) \in {0, 1}
  BY <1>a, Measures
<1>n. /\ Count(Taken, M) \in Nat /\ Count(out, M) \in Nat /\ Count(queue, M) \in Nat
      /\ produced \in Nat /\ consumed \in Nat
  BY CountTypes DEF RunTypeOK
<1>d. \A to : Count([Taken EXCEPT ![p] = to], M) = Count(Taken, M) + One(to, M) - One(Taken[p], M)
  BY <1>a, CountMove
<1>1. CASE Produce(p)
  <2>1. UNCHANGED <<produced, consumed, queue, out>>
    BY <1>1 DEF Produce, PushCall, popVars, runVars, counters
  <2>2. Taken' = Taken
    BY <1>a, <1>1 DEF Produce, PushCall, Taken
  <2> QED
    BY <1>b, <1>g, <2>1, <2>2
<1>2. CASE CountPush(p)
  <2>1. UNCHANGED <<consumed, queue, out>>
    BY <1>2 DEF CountPush, PushReturn, popVars
  <2>2. Taken' = [Taken EXCEPT ![p] = NoEvent]
    BY <1>a, <1>2 DEF CountPush, PushReturn, Taken
  <2>3. produced' = produced + One(Taken[p], M)
    <3>1. CASE ppc[p] = "ok"
      <4>1. produced' = CountIf(Measured(ev[p]), produced) /\ Taken[p] = ev[p]
        BY <1>2, <3>1 DEF CountPush, CountIf, Taken
      <4> QED
        BY <1>a, <1>n, <4>1, Measures
    <3>2. CASE ppc[p] # "ok"
      <4>1. produced' = produced /\ Taken[p] = NoEvent
        BY <1>2, <3>2 DEF CountPush, CountIf, Taken
      <4> QED
        BY <1>n, <1>c, <4>1
    <3> QED
      BY <3>1, <3>2
  <2>4. Count(Taken', M) = Count(Taken, M) + One(NoEvent, M) - One(Taken[p], M)
    BY <1>d, <2>2
  <2> QED
    BY <1>b, <1>c, <1>g, <1>n, <2>1, <2>3, <2>4
<1>3. CASE ProducerPush(p) /\ PushOutcome(p)
  <2>1. UNCHANGED <<produced, consumed, out, ev>>
    BY <1>3, PushEffect DEF ProducerPush, runVars, counters
  <2>2. ppc[p] # "ok" /\ \A q \in Producers \ {p} : ppc'[q] = ppc[q]
    BY <1>3, PushEffect
  <2>3. Taken[p] = NoEvent
    BY <2>2 DEF Taken
  <2>4. CASE ppc'[p] = "ok" /\ queue' = Append(queue, ev[p])
    <3>1. Taken' = [Taken EXCEPT ![p] = ev[p]]
      BY <1>a, <2>1, <2>2, <2>4 DEF Taken
    <3>2. Count(Taken', M) = Count(Taken, M) + One(ev[p], M) - One(Taken[p], M)
      BY <1>d, <3>1
    <3>3. One(Taken[p], M) = 0
      BY <1>c, <2>3
    <3>4. Count(queue', M) = Count(queue, M) + One(ev[p], M)
      <4>1. ev[p] \in Events
        BY <1>3, PushEffect DEF Offering
      <4> QED
        BY <1>a, <2>4, <4>1, CountAppend
    <3> QED
      BY <1>b, <1>c, <1>g, <1>n, <2>1, <3>2, <3>3, <3>4
  <2>5. CASE queue' = queue /\ ppc'[p] \in {"no", "spin", "parked"}
    <3>1. Taken' = Taken
      BY <1>a, <2>1, <2>2, <2>5 DEF Taken
    <3> QED
      BY <1>b, <1>g, <2>1, <2>5, <3>1
  <2> QED
    BY <1>3, <2>4, <2>5, PushEffect
<1> QED
  BY <1>1, <1>2, <1>3

\* So do a pop and the counting of its event.
LEMMA PopDelivers ==
  ASSUME TypeOK, RunTypeOK, Carrying, DeliveryBalanced,
         ((PopCall(Consumer) \/ PopOutcome(Consumer)) /\ UNCHANGED runVars) \/ CountPop
  PROVE  DeliveryBalanced'
<1> DEFINE M == MeasuredEvents
           c == Consumer
<1>g. DeliveryBalanced' <=> produced' + Count(Taken', M) = consumed' + Count(queue', M) + Count(out', M)
  BY DEF DeliveryBalanced, MeasuredEvents, Measured
<1>a. /\ out \in [Consumers -> 0 .. MaxEvents] /\ c \in Consumers
      /\ queue \in Seq(Events) /\ IsFiniteSet(Consumers)
  BY DEF TypeOK
<1>b. produced + Count(Taken, M) = consumed + Count(queue, M) + Count(out, M)
  BY DEF DeliveryBalanced
<1>c. One(out[c], M) \in {0, 1} /\ One(NoEvent, M) = 0
  BY <1>a, Measures
<1>n. /\ Count(Taken, M) \in Nat /\ Count(out, M) \in Nat /\ Count(queue, M) \in Nat
      /\ produced \in Nat /\ consumed \in Nat
  BY CountTypes DEF RunTypeOK
<1>d. \A to : Count([out EXCEPT ![c] = to], M) = Count(out, M) + One(to, M) - One(out[c], M)
  BY <1>a, CountMove
<1>1. CASE PopCall(c) /\ UNCHANGED runVars
  <2>1. UNCHANGED <<produced, consumed, queue, out, ppc, ev>>
    BY <1>1 DEF PopCall, runVars, counters, pushVars
  <2>2. Taken' = Taken
    BY <2>1 DEF Taken
  <2> QED
    BY <1>b, <1>g, <2>1, <2>2
<1>2. CASE PopOutcome(c) /\ UNCHANGED runVars
  <2>1. UNCHANGED <<produced, consumed, ev>>
    BY <1>a, <1>2, PopEffect DEF runVars, counters
  <2>2. Stirred(Producers, ppc, ppc') /\ cpc[c] # "ok"
    BY <1>a, <1>2, PopEffect
  <2>3. Taken' = Taken
    BY <2>1, <2>2 DEF Taken, Stirred
  <2>4. One(out[c], M) = 0
    BY <1>c, <2>2 DEF Carrying
  <2>5. CASE queue # <<>> /\ queue' = Tail(queue) /\ out' = [out EXCEPT ![c] = Head(queue)]
    <3>1. Count(queue, M) = Count(queue', M) + One(Head(queue), M)
      BY <1>a, <2>5, CountTail
    <3>2. Count(out', M) = Count(out, M) + One(Head(queue), M) - One(out[c], M)
      BY <1>d, <2>5
    <3>3. Count(queue', M) \in Nat /\ One(Head(queue), M) \in {0, 1}
      <4>1. queue' \in Seq(Events) /\ Head(queue) \in Events
        BY <1>a, <2>5
      <4>2. Count(queue', M) \in Nat
        BY <4>1, CountSeqType
      <4>3. Head(queue) \in 0 .. MaxEvents
        BY <4>1 DEF Events
      <4> QED
        BY <4>2, <4>3, Measures
    <3> QED
      BY <1>b, <1>g, <1>n, <2>1, <2>3, <2>4, <3>1, <3>2, <3>3
  <2>6. CASE UNCHANGED <<queue, out>>
    BY <1>b, <1>g, <2>1, <2>3, <2>6
  <2> QED
    BY <1>a, <1>2, <2>5, <2>6, PopEffect
<1>3. CASE CountPop
  <2>1. UNCHANGED <<produced, queue, ppc, ev>>
    BY <1>3 DEF CountPop, PopReturn, pushVars
  <2>2. Taken' = Taken
    BY <2>1 DEF Taken
  <2>3. Count(out', M) = Count(out, M) + One(NoEvent, M) - One(out[c], M)
    BY <1>3, <1>d DEF CountPop, PopReturn
  <2>4. consumed' = consumed + One(out[c], M)
    <3>1. consumed' = CountIf(Measured(out[c]), consumed)
      BY <1>3 DEF CountPop
    <3> QED
      BY <1>a, <1>n, <3>1, Measures
  <2> QED
    BY <1>b, <1>c, <1>g, <1>n, <2>1, <2>2, <2>3, <2>4
<1> QED
  BY <1>1, <1>2, <1>3

\* Whoever moves, every accepted event is somewhere, and only once.
LEMMA DeliveryStep == IInv /\ HarnessInv /\ [HarnessNext]_allVars => DeliveryBalanced'
<1> SUFFICES ASSUME IInv, HarnessInv, [HarnessNext]_allVars PROVE DeliveryBalanced'
  OBVIOUS
<1>a. TypeOK /\ RunTypeOK /\ Carrying /\ DeliveryBalanced /\ Offering
  BY DEF IInv, HarnessInv
<1>1. CASE Quiet
  <2>1. UNCHANGED <<produced, consumed, queue, out, ev>> /\ Stirred(Producers, ppc, ppc')
    BY <1>1 DEF Quiet, counters
  <2>2. Taken' = Taken
    BY <2>1 DEF Taken, Stirred
  <2> QED
    BY <1>a, <2>1, <2>2 DEF DeliveryBalanced, MeasuredEvents, Measured
<1> QED
  BY <1>a, <1>1, PushDelivers, PopDelivers, Kinds

\* Under either policy the books of the producers are balanced.
LEMMA ProductionStep == IInv /\ HarnessInv /\ [HarnessNext]_allVars => ProductionBalanced'
<1> SUFFICES ASSUME IInv, HarnessInv, [HarnessNext]_allVars PROVE ProductionBalanced'
  OBVIOUS
<1> DEFINE M == MeasuredEvents
           pushing == Count(ev, M)
           P == Cardinality(Producers)
<1>g. ProductionBalanced' <=>
        /\ produced' + dropped' + Count(ev', M) <= MeasuredCreated'
        /\ config_policy' = "Drop" => MeasuredCreated' = produced' + dropped' + Count(ev', M)
        /\ config_policy' = "Block" =>
             /\ dropped' = 0
             /\ MeasuredCreated' <= produced' + P
             /\ main' = "sleep" => MeasuredCreated' = produced' + Count(ev', M)
  BY DEF ProductionBalanced, MeasuredEvents, Measured
<1>a. TypeOK /\ RunTypeOK /\ Carrying /\ Stopping /\ ProductionBalanced
  BY DEF IInv, HarnessInv
<1>b. ppc \in [Producers -> Places] /\ ev \in [Producers -> 0 .. MaxEvents] /\ IsFiniteSet(Producers)
  BY <1>a, Types DEF TypeOK
<1>n. /\ pushing \in Nat /\ P \in Nat /\ pushing <= P
      /\ produced \in Nat /\ dropped \in Nat /\ MeasuredCreated \in Nat
      /\ config_policy \in {"Block", "Drop"}
  <2>1. pushing <= P /\ P \in Nat
    BY <1>b, CountBound
  <2>2. MeasuredCreated \in Nat
    BY <1>a DEF TypeOK, MeasuredCreated
  <2> QED
    BY <1>a, <2>1, <2>2, CountTypes DEF RunTypeOK
<1>c. config_policy' = config_policy /\ (main # "sleep" => main' # "sleep")
  BY MainGoesOn
<1>e. /\ produced + dropped + pushing <= MeasuredCreated
      /\ config_policy = "Drop" => MeasuredCreated = produced + dropped + pushing
      /\ config_policy = "Block" =>
           /\ dropped = 0
           /\ MeasuredCreated <= produced + P
           /\ main = "sleep" => MeasuredCreated = produced + pushing
  BY <1>a DEF ProductionBalanced
<1>d. \A p \in Producers : \A to : Count([ev EXCEPT ![p] = to], M) = pushing + One(to, M) - One(ev[p], M)
  <2>1. DOMAIN ev = Producers
    BY <1>b
  <2> QED
    BY <1>b, <2>1, CountMove
<1>1. ASSUME UNCHANGED <<ev, push_attempts, produced, dropped>> PROVE ProductionBalanced'
  <2>1. MeasuredCreated' = MeasuredCreated
    BY <1>1 DEF MeasuredCreated
  <2> QED
    BY <1>c, <1>e, <1>g, <1>1, <2>1
<1>2. ASSUME NEW p \in Producers, Produce(p) PROVE ProductionBalanced'
  <2>1. main = "sleep" /\ ppc[p] = "idle" /\ UNCHANGED <<produced, dropped, main>>
    BY <1>a, <1>2 DEF Produce, PushCall, Stopping, Flags, runVars, counters
  <2>2. /\ push_attempts' \in 0 .. MaxEvents
        /\ MeasuredCreated' = MeasuredCreated + One(push_attempts', M)
    BY <1>a, <1>2, CreatedMore DEF Produce
  <2>3. One(ev[p], M) = 0 /\ One(push_attempts', M) \in {0, 1}
    <3>1. ev[p] = NoEvent
      BY <1>a, <2>1 DEF Carrying
    <3> QED
      BY <1>b, <2>2, <3>1, Measures
  <2>4. Count(ev', M) = pushing + One(push_attempts', M) - One(ev[p], M)
    <3>1. ev' = [ev EXCEPT ![p] = push_attempts']
      BY <1>2 DEF Produce, PushCall
    <3> QED
      BY <1>d, <3>1
  <2>5. Count(ev', M) <= P
    <3>1. IsFiniteSet(DOMAIN ev') /\ DOMAIN ev' = Producers
      BY <1>b, <1>2 DEF Produce, PushCall
    <3> QED
      BY <3>1, CountBound
  <2> QED
    BY <1>c, <1>e, <1>g, <1>n, <2>1, <2>2, <2>3, <2>4, <2>5
<1>3. ASSUME NEW p \in Producers, CountPush(p) PROVE ProductionBalanced'
  <2>1. /\ ppc[p] \in {"ok", "no"} /\ UNCHANGED <<push_attempts, main>>
        /\ ev' = [ev EXCEPT ![p] = NoEvent]
    BY <1>3 DEF CountPush, PushReturn
  <2>2. One(ev[p], M) \in {0, 1} /\ One(NoEvent, M) = 0
    BY <1>b, Measures
  <2>3. Count(ev', M) = pushing + One(NoEvent, M) - One(ev[p], M)
    BY <1>d, <2>1
  <2>4. MeasuredCreated' = MeasuredCreated
    BY <2>1 DEF MeasuredCreated
  <2>5. CASE ppc[p] = "ok"
    <3>1. produced' = CountIf(Measured(ev[p]), produced) /\ dropped' = dropped
      BY <1>3, <2>5 DEF CountPush, CountIf
    <3>2. produced' = produced + One(ev[p], M)
      BY <1>b, <1>n, <3>1, Measures
    <3> QED
      BY <1>c, <1>e, <1>g, <1>n, <2>1, <2>2, <2>3, <2>4, <3>1, <3>2
  <2>6. CASE ppc[p] = "no" /\ config_policy = "Drop"
    <3>1. dropped' = CountIf(Measured(ev[p]), dropped) /\ produced' = produced
      BY <1>3, <2>6 DEF CountPush, CountIf
    <3>2. dropped' = dropped + One(ev[p], M)
      BY <1>b, <1>n, <3>1, Measures
    <3> QED
      BY <1>c, <1>e, <1>g, <1>n, <2>1, <2>2, <2>3, <2>4, <2>6, <3>1, <3>2
  <2>7. CASE ppc[p] = "no" /\ config_policy = "Block"
    <3>1. UNCHANGED <<produced, dropped>>
      BY <1>3, <2>7 DEF CountPush, CountIf
    <3>2. main # "sleep"
      BY <1>a, <2>7 DEF Stopping
    <3> QED
      BY <1>c, <1>e, <1>g, <1>n, <2>1, <2>2, <2>3, <2>4, <2>7, <3>1, <3>2
  <2> QED
    BY <1>n, <2>1, <2>5, <2>6, <2>7
<1>4. ASSUME NEW p \in Producers, ProducerPush(p), PushOutcome(p) PROVE ProductionBalanced'
  <2>1. UNCHANGED <<ev, push_attempts, produced, dropped>>
    BY <1>4 DEF ProducerPush, PushOutcome, runVars, counters
  <2> QED
    BY <1>1, <2>1
<1>5. CASE ((PopCall(Consumer) \/ PopOutcome(Consumer)) /\ UNCHANGED runVars) \/ CountPop
  <2>1. UNCHANGED <<ev, push_attempts, produced, dropped>>
    BY <1>5 DEF PopCall, PopOutcome, CountPop, PopReturn, pushVars, runVars, counters
  <2> QED
    BY <1>1, <2>1
<1>6. CASE Quiet
  BY <1>1, <1>6 DEF Quiet, counters
<1> QED
  BY <1>a, <1>2, <1>3, <1>4, <1>5, <1>6, Kinds

\* At the start there is nothing to account for.
LEMMA HarnessInvInit == HarnessInit => HarnessInv
<1> SUFFICES ASSUME HarnessInit PROVE HarnessInv
  OBVIOUS
<1>1. TypeOK /\ Flags = {"push", "pop"} /\ Consumer \in Consumers
  BY InvInit DEF HarnessInit, IInv, Flags
<1>2. RunTypeOK
  BY DEF HarnessInit, RunTypeOK
<1>3. /\ queue = <<>> /\ closed = FALSE /\ stop = [f \in Flags |-> FALSE] /\ push_attempts = 0
      /\ ppc = [p \in Producers |-> "idle"] /\ ev = [p \in Producers |-> NoEvent]
      /\ cpc = [c \in Consumers |-> "idle"] /\ out = [c \in Consumers |-> NoEvent]
      /\ main = "sleep" /\ exited = {}
      /\ produced = 0 /\ consumed = 0 /\ dropped = 0
  BY DEF HarnessInit, Init
<1>4. Carrying /\ Stopping /\ Joined /\ Late
  BY <1>1, <1>3 DEF Carrying, Stopping, Joined, Late
<1>5. NoEvent \notin MeasuredEvents
  BY DEF MeasuredEvents, Measured, NoEvent
<1>6. /\ Count(ev, MeasuredEvents) = 0 /\ Count(out, MeasuredEvents) = 0
      /\ Count(Taken, MeasuredEvents) = 0 /\ Count(queue, MeasuredEvents) = 0
  <2>1. Count(ev, MeasuredEvents) = 0 /\ Count(out, MeasuredEvents) = 0
    BY <1>3, <1>5, CountNone
  <2>2. Count(Taken, MeasuredEvents) = 0
    BY <1>3, <1>5, CountNone DEF Taken
  <2>3. Count(queue, MeasuredEvents) = 0
    BY <1>1, <1>3, CountSeqType DEF TypeOK
  <2> QED
    BY <2>1, <2>2, <2>3
<1>7. Cardinality(Producers) \in Nat /\ MeasuredCreated = 0
  BY <1>3, FS_CardinalityType DEF MeasuredCreated
<1>8. DeliveryBalanced /\ ProductionBalanced
  BY <1>3, <1>6, <1>7 DEF DeliveryBalanced, ProductionBalanced
<1> QED
  BY <1>2, <1>4, <1>8 DEF HarnessInv

\* Every step keeps it.
LEMMA HarnessInvStep == IInv /\ HarnessInv /\ [HarnessNext]_allVars => HarnessInv'
BY RunTypeStep, CarryingStep, StoppingStep, JoinedStep, LateStep, DeliveryStep, ProductionStep
DEF HarnessInv

-----------------------------------------------------------------------------
(* The theorems                                                            *)

\* The accounting invariant holds in every run of the harness, with any number of
\* producers.
THEOREM HarnessInvariance == HarnessSpec => []HarnessInv
BY QueueInvariance, HarnessInvInit, HarnessInvStep, PTL DEF HarnessSpec

\* Every variable keeps its type, and nothing is counted before it was created.
THEOREM HarnessTypeCorrect == HarnessSpec => []HarnessTypeOK
<1>1. IInv /\ HarnessInv => HarnessTypeOK
  <2> SUFFICES ASSUME IInv, HarnessInv PROVE HarnessTypeOK
    OBVIOUS
  <2> DEFINE M == MeasuredEvents
  <2>a. TypeOK /\ RunTypeOK /\ DeliveryBalanced /\ ProductionBalanced
    BY DEF IInv, HarnessInv
  <2>1. produced + dropped + Count(ev, M) <= MeasuredCreated
    BY <2>a DEF ProductionBalanced
  <2>2. produced + Count(Taken, M) = consumed + Count(queue, M) + Count(out, M)
    BY <2>a DEF DeliveryBalanced
  <2>3. Count(Taken, M) <= Count(ev, M)
    <3>1. ev \in [Producers -> 0 .. MaxEvents] /\ IsFiniteSet(Producers) /\ NoEvent \notin M
      BY <2>a DEF TypeOK, MeasuredEvents, Measured, NoEvent
    <3>2. DOMAIN Taken = DOMAIN ev /\ \A p \in DOMAIN ev : Taken[p] \in M => ev[p] \in M
      BY <3>1 DEF Taken
    <3>3. IsFiniteSet(DOMAIN ev)
      BY <3>1
    <3> QED
      BY <3>2, <3>3, CountWithin
  <2>4. /\ Count(ev, M) \in Nat /\ Count(Taken, M) \in Nat /\ Count(queue, M) \in Nat
        /\ Count(out, M) \in Nat
    BY <2>a, CountTypes
  <2>5. produced \in Nat /\ consumed \in Nat /\ dropped \in Nat /\ MeasuredCreated \in Nat
    BY <2>a DEF RunTypeOK, TypeOK, MeasuredCreated
  <2>6. produced <= MeasuredCreated /\ consumed <= MeasuredCreated /\ dropped <= MeasuredCreated
    BY <2>1, <2>2, <2>3, <2>4, <2>5
  <2>7. {produced, consumed, dropped} \subseteq 0 .. MeasuredCreated
    BY <2>5, <2>6
  <2> QED
    BY <2>a, <2>7 DEF RunTypeOK, HarnessTypeOK
<1> QED
  BY <1>1, QueueInvariance, HarnessInvariance, PTL

\* What runScenario reports adds up: an event that was produced was consumed or is
\* left in the queue, at most one of each producer, and none where push looks at
\* the flag first; and nothing else is unaccounted for.
THEOREM HarnessAccounted == HarnessSpec => []Accounted
<1>1. IInv /\ HarnessInv => Accounted
  <2> SUFFICES ASSUME IInv, HarnessInv, main = "done"
               PROVE  /\ produced = consumed + MeasuredLeft
                      /\ Len(queue) <= Cardinality(Producers)
                      /\ StopFirst => queue = <<>>
                      /\ IF config_policy = "Drop" THEN MeasuredCreated = produced + dropped
                         ELSE dropped = 0 /\ MeasuredCreated <= produced + Cardinality(Producers)
    BY DEF Accounted, StopFirst
  <2> DEFINE M == MeasuredEvents
  <2>a. /\ TypeOK /\ RunTypeOK /\ Carrying /\ Joined /\ Late
        /\ DeliveryBalanced /\ ProductionBalanced /\ Consumer \in Consumers
    BY DEF IInv, HarnessInv
  <2>1. /\ \A p \in Producers : ppc[p] = "idle" /\ ev[p] = NoEvent
        /\ cpc[Consumer] = "no" /\ out[Consumer] = NoEvent
    <3>1. Producers \subseteq exited /\ Consumer \in exited
      BY <2>a DEF Joined
    <3> QED
      BY <2>a, <3>1 DEF Joined, Carrying
  <2>2. NoEvent \notin M
    BY DEF MeasuredEvents, Measured, NoEvent
  <2>3. /\ DOMAIN ev = Producers /\ DOMAIN out = {Consumer} /\ queue \in Seq(Events)
    BY <2>a DEF TypeOK
  <2>4. Count(ev, M) = 0 /\ Count(out, M) = 0
    BY <2>1, <2>2, <2>3, CountNone
  <2>5. Count(Taken, M) = 0
    <3>1. \A p \in DOMAIN Taken : Taken[p] \notin M
      BY <2>1, <2>2 DEF Taken
    <3> QED
      BY <3>1, CountNone
  <2>6. Count(queue, M) = MeasuredLeft
    <3>1. \A i \in DOMAIN queue : queue[i] \in M <=> Measured(queue[i])
      BY <2>3 DEF MeasuredEvents, Events
    <3>2. At(queue, M) = {i \in DOMAIN queue : Measured(queue[i])}
      BY <3>1 DEF At
    <3> QED
      BY <3>2 DEF Count, MeasuredLeft
  <2>7. /\ produced \in Nat /\ consumed \in Nat /\ dropped \in Nat /\ MeasuredCreated \in Nat
        /\ config_policy \in {"Block", "Drop"} /\ Count(queue, M) \in Nat
    BY <2>a, CountTypes DEF RunTypeOK, TypeOK, MeasuredCreated
  <2>8. produced = consumed + MeasuredLeft
    BY <2>a, <2>4, <2>5, <2>6, <2>7 DEF DeliveryBalanced
  <2>9. Len(queue) <= Cardinality(Producers) /\ (StopFirst => queue = <<>>)
    <3>1. Len(queue) + Count(ppc, Pushing) <= Cardinality(Producers) /\ (StopFirst => queue = <<>>)
      BY <2>a, <2>1 DEF Late
    <3>2. Len(queue) \in Nat /\ Cardinality(Producers) \in Nat /\ Count(ppc, Pushing) = 0
      <4>1. \A p \in DOMAIN ppc : ppc[p] \notin Pushing
        BY <2>a, <2>1 DEF TypeOK, Pushing
      <4> QED
        BY <2>3, <4>1, CountNone, FS_CardinalityType
    <3> QED
      BY <3>1, <3>2
  <2>10. IF config_policy = "Drop" THEN MeasuredCreated = produced + dropped
         ELSE dropped = 0 /\ MeasuredCreated <= produced + Cardinality(Producers)
    BY <2>a, <2>4, <2>7 DEF ProductionBalanced
  <2> QED
    BY <2>8, <2>9, <2>10
<1> QED
  BY <1>1, QueueInvariance, HarnessInvariance, PTL
=============================================================================
