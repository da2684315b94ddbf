------------------------------- MODULE Harness -------------------------------
(***************************************************************************)
(* runScenario (harness.cpp) over GlobalLockQueue: producers push, one     *)
(* consumer pops, and all of them watch one stop flag.  The main thread    *)
(* sleeps until the deadline, raises the flag and closes the queue, and    *)
(* only then joins the producers and the consumer.                         *)
(***************************************************************************)
EXTENDS GlobalLockQueue

CONSTANTS
  Consumer,  \* the one consumer thread that validateScenarioConfig allows
  Warmup     \* events 1 .. Warmup are created before measuring starts

ASSUME ConsumerAssumption == Consumers = {Consumer} /\ Consumer \notin Producers
ASSUME WarmupAssumption   == Warmup \in Nat
\* The main thread raises the flags of all calls at once: they are one.
ASSUME FlagAssumption     == {"push", "pop"} \in StopScopes

VARIABLES
  config_policy,   \* config.policy
  expired,         \* measure_end has passed
  main,            \* what the main thread is about to do
  exited,          \* the producer and consumer threads that have ended
  produced, consumed, dropped   \* RunState

counters == <<produced, consumed, dropped>>
runVars  == <<config_policy, expired, main, exited, counters>>
allVars  == <<vars, runVars>>

\* The events are numbered in the order of their creation.
Measured(e)   == e > Warmup
CountIf(b, n) == IF b THEN n + 1 ELSE n

HarnessInit ==
  /\ Init
  /\ config_policy \in {"Block", "Drop"}
  /\ expired = FALSE /\ main = "sleep" /\ exited = {}
  /\ produced = 0 /\ consumed = 0 /\ dropped = 0

-----------------------------------------------------------------------------
(* A producer                                                              *)

\* The loop condition, the deadline and the next event.
Produce(p) ==
  /\ p \notin exited /\ ~stop["push"] /\ ~expired
  /\ PushCall(p)
  /\ policy'[p] = config_policy
  /\ UNCHANGED runVars

ProducerPush(p) ==
  /\ EnterPush(p) \/ ResumePush(p) \/ RelockPush(p)
  /\ UNCHANGED runVars

CountPush(p) ==
  /\ PushReturn(p)
  /\ produced' = CountIf(ppc[p] = "ok" /\ Measured(ev[p]), produced)
  /\ dropped' = CountIf(ppc[p] = "no" /\ config_policy = "Drop" /\ Measured(ev[p]), dropped)
  /\ UNCHANGED <<config_policy, expired, main, exited, consumed>>

Exit(t) ==
  /\ exited' = exited \cup {t}
  /\ UNCHANGED <<vars, config_policy, expired, main, counters>>

LeaveProducer(p) ==
  /\ p \notin exited /\ ppc[p] = "idle"
  /\ stop["push"] \/ expired
  /\ Exit(p)

-----------------------------------------------------------------------------
(* The consumer                                                            *)

ConsumerPop ==
  /\ PopCall(Consumer) \/ EnterPop(Consumer) \/ ResumePop(Consumer) \/ RelockPop(Consumer)
  /\ UNCHANGED runVars

\* Mutant of CountPop: the events of the warmup are counted too.
CountEveryPop ==
  /\ PopReturn(Consumer)
  /\ consumed' = consumed + 1
  /\ UNCHANGED <<config_policy, expired, main, exited, produced, dropped>>

CountPop ==
  /\ PopReturn(Consumer)
  /\ consumed' = CountIf(Measured(out[Consumer]), consumed)
  /\ UNCHANGED <<config_policy, expired, main, exited, produced, dropped>>

LeaveConsumer == Consumer \notin exited /\ cpc[Consumer] = "no" /\ Exit(Consumer)

-----------------------------------------------------------------------------
(* The main thread, the clock and the condition variables                  *)

Expire ==
  /\ ~expired
  /\ expired' = TRUE
  /\ UNCHANGED <<vars, config_policy, main, exited, counters>>

\* One flag is every push's and every pop's.
RaiseStop ==
  /\ main = "sleep" /\ expired
  /\ stop' = [f \in Flags |-> TRUE]
  /\ main' = "close"
  /\ UNCHANGED <<config, queue, closed, pushVars, popVars, config_policy, expired, exited, counters>>

\* Mutant of CloseQueue: the stop flag alone is to end the run.
CloseNothing ==
  /\ main = "close"
  /\ main' = "join_producers"
  /\ UNCHANGED <<vars, config_policy, expired, exited, counters>>

CloseQueue ==
  /\ main = "close"
  /\ Close
  /\ main' = "join_producers"
  /\ UNCHANGED <<config_policy, expired, exited, counters>>

JoinProducers ==
  /\ main = "join_producers" /\ Producers \subseteq exited
  /\ main' = "join_consumer"
  /\ UNCHANGED <<vars, config_policy, expired, exited, counters>>

JoinConsumer ==
  /\ main = "join_consumer" /\ Consumer \in exited
  /\ main' = "done"
  /\ UNCHANGED <<vars, config_policy, expired, exited, counters>>

Wakeup == SpuriousWakeup /\ UNCHANGED runVars

Done == main = "done" /\ UNCHANGED allVars

ProducerStep(p) == ProducerPush(p) \/ CountPush(p) \/ LeaveProducer(p)
ConsumerStep    == ConsumerPop \/ CountPop \/ LeaveConsumer
MainStep        == RaiseStop \/ CloseQueue \/ JoinProducers \/ JoinConsumer

HarnessNext ==
  \/ \E p \in Producers : Produce(p) \/ ProducerStep(p)
  \/ ConsumerStep \/ MainStep \/ Expire \/ Wakeup \/ Done

\* Threads are scheduled and the deadline passes; no event need be produced, and a
\* parked thread is owed no spurious wakeup.
HarnessSpec ==
  /\ HarnessInit /\ [][HarnessNext]_allVars
  /\ \A p \in Producers : WF_allVars(ProducerStep(p))
  /\ WF_allVars(ConsumerStep) /\ WF_allVars(MainStep) /\ WF_allVars(Expire)

-----------------------------------------------------------------------------
(* Properties                                                              *)

MeasuredLeft    == Cardinality({i \in DOMAIN queue : Measured(queue[i])})
MeasuredCreated == IF push_attempts > Warmup THEN push_attempts - Warmup ELSE 0

\* Type of what the harness adds to the queue; nothing is consumed before it
\* was created.
HarnessTypeOK ==
  /\ TypeOK
  /\ config_policy \in {"Block", "Drop"} /\ expired \in BOOLEAN
  /\ main \in {"sleep", "close", "join_producers", "join_consumer", "done"}
  /\ exited \subseteq Producers \cup Consumers
  /\ {produced, consumed, dropped} \subseteq 0 .. MeasuredCreated

\* When runScenario returns, what was produced was consumed or is left in the
\* queue.  Each producer leaves at most one event, the one it was pushing when the
\* flag went up, and none where push looks at the flag before it looks for room.
\* Under Drop every event is produced or dropped; under Block at most one of each
\* producer is neither.
Accounted ==
  main = "done" =>
    /\ produced = consumed + MeasuredLeft
    /\ Len(queue) <= Cardinality(Producers)
    /\ config_policy = "Block" /\ wait_strategy = "ConditionVariable" /\ capacity # 0
         => queue = <<>>
    /\ IF config_policy = "Drop" THEN MeasuredCreated = produced + dropped
       ELSE dropped = 0 /\ MeasuredCreated <= produced + Cardinality(Producers)

\* A Drop run ends with its queue empty: "종료 시점에 큐가 비워져 produced == consumed"
\* (test_scenario.cpp:57).  A push that looked at the flag before it was raised may
\* insert after the consumer has left.
DropDrained == main = "done" /\ config_policy = "Drop" => produced = consumed

\* Raising the flag and closing the queue release every thread: runScenario returns.
Terminates == <>(main = "done")
=============================================================================
