--------------------------- MODULE GlobalLockQueue ---------------------------
(***************************************************************************)
(* GlobalLockQueue (queues.cpp): a deque under one mutex, with a condition *)
(* variable for each side, or with spinning that gives the mutex up.       *)
(*                                                                         *)
(* A step is what a thread does between taking the mutex and giving it up, *)
(* by unlocking it, by returning or by waiting.  A thread in a wait is     *)
(* "parked" until a notification, or nothing at all, makes it "woken"; it  *)
(* then takes the mutex again and evaluates its predicate again.           *)
(***************************************************************************)
EXTENDS Naturals, Sequences, FiniteSets

CONSTANTS
  Producers, Consumers,
  Capacities,      \* the capacities the queue is built with; 0 is unbounded
  WaitStrategies,  \* the resolved wait strategies it is built with
  MaxEvents,       \* bound: the producers call push for events 1 .. MaxEvents
  StopScopes       \* the sets of stop flags the threads' owner may set together

ASSUME CapacitiesAssumption == Capacities \subseteq Nat
ASSUME StrategyAssumption   == WaitStrategies \subseteq {"ConditionVariable", "SpinYield"}
ASSUME MaxEventsAssumption  == MaxEvents \in Nat
ASSUME ScopesAssumption     == StopScopes \subseteq SUBSET {"push", "pop"}
ASSUME ThreadsAssumption    == IsFiniteSet(Producers) /\ IsFiniteSet(Consumers)

VARIABLES
  capacity, wait_strategy,
  queue, closed,
  push_attempts, ppc, ev, policy,   \* the calls of push
  cpc, out,                         \* the calls of pop
  stop

config   == <<capacity, wait_strategy>>
pushVars == <<push_attempts, ppc, ev, policy>>
popVars  == <<cpc, out>>
vars == <<config, queue, closed, pushVars, popVars, stop>>

Flags   == {"push", "pop"}
NoEvent == 0
Events  == 1 .. MaxEvents

Init ==
  /\ capacity \in Capacities /\ wait_strategy \in WaitStrategies
  /\ queue = <<>> /\ closed = FALSE
  /\ push_attempts = 0
  /\ ppc = [p \in Producers |-> "idle"]
  /\ ev = [p \in Producers |-> NoEvent]
  /\ policy = [p \in Producers |-> "Block"]
  /\ cpc = [c \in Consumers |-> "idle"]
  /\ out = [c \in Consumers |-> NoEvent]
  /\ stop = [f \in Flags |-> FALSE]

ParkedIn(pc) == {t \in DOMAIN pc : pc[t] = "parked"}

\* notify_one wakes some waiting thread, if any; notify_all wakes them all.
NotifyOne(pc) ==
  IF ParkedIn(pc) = {} THEN {pc} ELSE {[pc EXCEPT ![t] = "woken"] : t \in ParkedIn(pc)}
NotifyAll(pc) == [t \in DOMAIN pc |-> IF pc[t] = "parked" THEN "woken" ELSE pc[t]]

\* Mutant of HasRoom: one event too many.
HasRoomForOneMore == Len(queue) <= capacity

HasRoom == Len(queue) < capacity

-----------------------------------------------------------------------------
(* push                                                                    *)

PushCall(p) ==
  /\ ppc[p] = "idle"
  /\ push_attempts < MaxEvents
  /\ push_attempts' = push_attempts + 1
  /\ ev' = [ev EXCEPT ![p] = push_attempts']
  /\ \E b \in {"Block", "Drop"} : policy' = [policy EXCEPT ![p] = b]
  /\ ppc' = [ppc EXCEPT ![p] = "enter"]
  /\ UNCHANGED <<config, queue, closed, popVars, stop>>

\* Mutant of Accept: no consumer is notified.
AcceptSilent(p) ==
  /\ queue' = Append(queue, ev[p])
  /\ ppc' = [ppc EXCEPT ![p] = "ok"]
  /\ cpc' = cpc

\* The end of every push that succeeds: one consumer is notified.
Accept(p) ==
  /\ queue' = Append(queue, ev[p])
  /\ ppc' = [ppc EXCEPT ![p] = "ok"]
  /\ cpc' \in NotifyOne(cpc)

\* A push that stays in push, or returns false, at pc.
Hold(p, pc) ==
  /\ ppc' = [ppc EXCEPT ![p] = pc]
  /\ UNCHANGED <<queue, cpc>>

\* Mutant of BlockWait: the predicate's room comes before closed_ and the stop flag.
BlockWaitRoomFirst(p) ==
  IF HasRoom THEN Accept(p)
  ELSE IF closed \/ stop["push"] THEN Hold(p, "no") ELSE Hold(p, "parked")

\* The wait on not_full_cv_: its predicate, then the look at closed_ and the stop flag.
BlockWait(p) ==
  IF closed \/ stop["push"] THEN Hold(p, "no")
  ELSE IF HasRoom THEN Accept(p) ELSE Hold(p, "parked")

\* The spinning loop looks at closed_ and the stop flag only while there is no room.
BlockSpin(p) ==
  IF HasRoom THEN Accept(p)
  ELSE IF closed \/ stop["push"] THEN Hold(p, "no") ELSE Hold(p, "spin")

EnterPush(p) ==
  /\ ppc[p] = "enter"
  /\ IF closed THEN Hold(p, "no")
     ELSE IF capacity = 0 THEN Accept(p)
     ELSE IF policy[p] = "Drop" THEN (IF HasRoom THEN Accept(p) ELSE Hold(p, "no"))
     ELSE IF wait_strategy = "ConditionVariable" THEN BlockWait(p) ELSE BlockSpin(p)
  /\ UNCHANGED <<config, closed, push_attempts, ev, policy, out, stop>>

ResumePush(p) ==
  /\ ppc[p] = "woken"
  /\ BlockWait(p)
  /\ UNCHANGED <<config, closed, push_attempts, ev, policy, out, stop>>

RelockPush(p) ==
  /\ ppc[p] = "spin"
  /\ BlockSpin(p)
  /\ UNCHANGED <<config, closed, push_attempts, ev, policy, out, stop>>

PushReturn(p) ==
  /\ ppc[p] \in {"ok", "no"}
  /\ ppc' = [ppc EXCEPT ![p] = "idle"]
  /\ ev' = [ev EXCEPT ![p] = NoEvent]
  /\ policy' = [policy EXCEPT ![p] = "Block"]
  /\ UNCHANGED <<config, queue, closed, push_attempts, popVars, stop>>

-----------------------------------------------------------------------------
(* pop                                                                     *)

PopCall(c) ==
  /\ cpc[c] = "idle"
  /\ cpc' = [cpc EXCEPT ![c] = "enter"]
  /\ UNCHANGED <<config, queue, closed, pushVars, out, stop>>

\* Mutants of TryPop: closed_ before the queue; no producer is notified.
TryPopClosedFirst(c, waiting) ==
  IF queue # <<>> /\ ~closed
    THEN /\ out' = [out EXCEPT ![c] = Head(queue)]
         /\ queue' = Tail(queue)
         /\ cpc' = [cpc EXCEPT ![c] = "ok"]
         /\ ppc' \in NotifyOne(ppc)
    ELSE /\ cpc' = [cpc EXCEPT ![c] = IF closed \/ stop["pop"] THEN "no" ELSE waiting]
         /\ UNCHANGED <<out, queue, ppc>>

TryPopSilent(c, waiting) ==
  IF queue # <<>>
    THEN /\ out' = [out EXCEPT ![c] = Head(queue)]
         /\ queue' = Tail(queue)
         /\ cpc' = [cpc EXCEPT ![c] = "ok"]
         /\ ppc' = ppc
    ELSE /\ cpc' = [cpc EXCEPT ![c] = IF closed \/ stop["pop"] THEN "no" ELSE waiting]
         /\ UNCHANGED <<out, queue, ppc>>

\* With events in the queue pop hands one out, whether or not it is closed;
\* without, the wait on not_empty_cv_ and the spinning loop differ in where it stays.
TryPop(c, waiting) ==
  IF queue # <<>>
    THEN /\ out' = [out EXCEPT ![c] = Head(queue)]
         /\ queue' = Tail(queue)
         /\ cpc' = [cpc EXCEPT ![c] = "ok"]
         /\ ppc' \in NotifyOne(ppc)
    ELSE /\ cpc' = [cpc EXCEPT ![c] = IF closed \/ stop["pop"] THEN "no" ELSE waiting]
         /\ UNCHANGED <<out, queue, ppc>>

EnterPop(c) ==
  /\ cpc[c] = "enter"
  /\ TryPop(c, IF wait_strategy = "ConditionVariable" THEN "parked" ELSE "spin")
  /\ UNCHANGED <<config, closed, push_attempts, ev, policy, stop>>

ResumePop(c) ==
  /\ cpc[c] = "woken"
  /\ TryPop(c, "parked")
  /\ UNCHANGED <<config, closed, push_attempts, ev, policy, stop>>

RelockPop(c) ==
  /\ cpc[c] = "spin"
  /\ TryPop(c, "spin")
  /\ UNCHANGED <<config, closed, push_attempts, ev, policy, stop>>

\* Consumers loop "while (queue.pop(ev, stop))": after false there is no next call.
PopReturn(c) ==
  /\ cpc[c] = "ok"
  /\ cpc' = [cpc EXCEPT ![c] = "idle"]
  /\ out' = [out EXCEPT ![c] = NoEvent]
  /\ UNCHANGED <<config, queue, closed, pushVars, stop>>

-----------------------------------------------------------------------------
(* The thread that owns the queue, and the condition variables             *)

Close ==
  /\ ~closed
  /\ closed' = TRUE
  /\ cpc' = NotifyAll(cpc) /\ ppc' = NotifyAll(ppc)
  /\ UNCHANGED <<config, queue, push_attempts, ev, policy, out, stop>>

\* The stop flags belong to the callers: setting one notifies nobody.
Stop ==
  /\ \E S \in StopScopes : /\ \E f \in S : ~stop[f]
                           /\ stop' = [f \in Flags |-> stop[f] \/ f \in S]
  /\ UNCHANGED <<config, queue, closed, pushVars, popVars>>

SpuriousWakeup ==
  /\ \/ \E p \in ParkedIn(ppc) : ppc' = [ppc EXCEPT ![p] = "woken"] /\ cpc' = cpc
     \/ \E c \in ParkedIn(cpc) : cpc' = [cpc EXCEPT ![c] = "woken"] /\ ppc' = ppc
  /\ UNCHANGED <<config, queue, closed, push_attempts, ev, policy, out, stop>>

\* Every thread has returned from its last call.
Finished ==
  /\ closed
  /\ \A c \in Consumers : cpc[c] = "no"
  /\ push_attempts = MaxEvents /\ \A p \in Producers : ppc[p] = "idle"
  /\ UNCHANGED vars

PushStep(p) == EnterPush(p) \/ ResumePush(p) \/ RelockPush(p) \/ PushReturn(p)
PopStep(c)  == PopCall(c) \/ EnterPop(c) \/ ResumePop(c) \/ RelockPop(c) \/ PopReturn(c)

Next ==
  \/ \E p \in Producers : PushCall(p) \/ PushStep(p)
  \/ \E c \in Consumers : PopStep(c)
  \/ Close \/ Stop \/ SpuriousWakeup \/ Finished

Spec == Init /\ [][Next]_vars

-----------------------------------------------------------------------------
(* The queue as its callers see it                                         *)

PushPhase ==
  [p \in Producers |->
    CASE ppc[p] = "idle" -> "idle"
      [] ppc[p] = "ok"   -> "accepted"
      [] ppc[p] = "no"   -> "refused"
      [] OTHER           -> policy[p]]

PopPhase ==
  [c \in Consumers |->
    CASE cpc[c] = "idle" -> "idle"
      [] cpc[c] = "ok"   -> "delivered"
      [] cpc[c] = "no"   -> "refused"
      [] OTHER           -> "calling"]

EQ == INSTANCE EventQueue WITH push <- PushPhase, arg <- ev, pop <- PopPhase

\* Whichever wait strategy is used, the deque is the FIFO IEventQueue promises.
Contract == EQ!Spec

-----------------------------------------------------------------------------
(* Invariants and action properties                                        *)

\* Type of the members and of every thread's call; a bounded queue never holds more
\* events than its capacity, whichever of its three ways to insert was taken.
TypeOK ==
  /\ capacity \in Capacities /\ wait_strategy \in WaitStrategies
  /\ queue \in Seq(Events) /\ (capacity # 0 => Len(queue) <= capacity)
  /\ closed \in BOOLEAN
  /\ push_attempts \in 0 .. MaxEvents
  /\ ppc \in [Producers -> {"idle", "enter", "parked", "woken", "spin", "ok", "no"}]
  /\ ev \in [Producers -> 0 .. MaxEvents]
  /\ policy \in [Producers -> {"Block", "Drop"}]
  /\ cpc \in [Consumers -> {"idle", "enter", "parked", "woken", "spin", "ok", "no"}]
  /\ out \in [Consumers -> 0 .. MaxEvents]
  /\ stop \in [Flags -> BOOLEAN]

WokenIn(pc) == {t \in DOMAIN pc : pc[t] = "woken"}

\* notify_one loses no wakeup: while a consumer is parked, every event has a
\* woken consumer to take it; while a producer is parked, every free place has
\* a woken producer to fill it, as long as producers are not told to stop; and
\* nobody stays parked on a closed queue.
NoLostWakeup ==
  /\ ParkedIn(cpc) # {} => ~closed /\ Len(queue) <= Cardinality(WokenIn(cpc))
  /\ ParkedIn(ppc) # {} =>
       /\ ~closed
       /\ stop["push"] \/ capacity - Len(queue) <= Cardinality(WokenIn(ppc))

\* pop answers false only when the queue is empty at that moment, closed or
\* not: the drain that the benchmarks count on when they join their consumers.
DrainsBeforeRefusing ==
  [][\A c \in Consumers : cpc[c] # "no" /\ cpc'[c] = "no" => queue = <<>>]_vars
=============================================================================
