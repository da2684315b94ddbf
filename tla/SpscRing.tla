------------------------------- MODULE SpscRing -------------------------------
(***************************************************************************)
(* SpscRingQueue (queues.cpp): a ring of Capacity + 1 cells between one    *)
(* producer and one consumer thread, synchronised only by the two atomic   *)
(* indices.  Every step is one access to state the threads share; a write  *)
(* or a read of a cell is a step of its own, so the two threads may reach  *)
(* for cells at the same time.                                             *)
(***************************************************************************)
EXTENDS Naturals, Sequences

CONSTANTS
  Capacity,    \* the constructor's capacity
  MaxEvents,   \* bound: the producer calls push for events 1 .. MaxEvents
  StopScopes   \* the sets of stop flags the threads' owner may set together

ASSUME CapacityAssumption  == Capacity \in Nat \ {0}
ASSUME MaxEventsAssumption == MaxEvents \in Nat
ASSUME ScopesAssumption    == StopScopes \subseteq SUBSET {"push", "pop"}

VARIABLES
  buffer, head, tail, closed,                        \* the queue's members
  push_attempts, push_success, push_fail, pop_success, max_observed_depth,
  ppc, ev, policy, seen_head,                        \* the call of push
  cpc, out,                               \* the call of pop
  stop                                               \* the callers' stop flags

queueVars == <<buffer, head, tail>>
pushStats == <<push_attempts, push_success, push_fail, max_observed_depth>>
pushVars  == <<ppc, ev, policy, seen_head>>
popVars   == <<cpc, out>>
vars == <<queueVars, pushStats, pushVars, popVars, pop_success, closed, stop>>

NoEvent == 0
Flags   == {"push", "pop"}

RingCapacity == Capacity + 1
Cells        == 0 .. Capacity

\* Mutant of nextIndex: the index does not wrap.
nextIndexNoWrap(idx) == idx + 1

nextIndex(idx) == IF idx + 1 = RingCapacity THEN 0 ELSE idx + 1

\* The cells from index a up to, not including, index b.
Distance(a, b) == IF b >= a THEN b - a ELSE RingCapacity - a + b
CellAt(a, i)   == IF a + i < RingCapacity THEN a + i ELSE a + i - RingCapacity

Init ==
  /\ buffer = [i \in Cells |-> NoEvent]
  /\ head = 0 /\ tail = 0
  /\ closed = FALSE
  /\ push_attempts = 0 /\ push_success = 0 /\ push_fail = 0
  /\ pop_success = 0 /\ max_observed_depth = 0
  /\ ppc = "idle" /\ ev = NoEvent /\ policy = "Block" /\ seen_head = 0
  /\ cpc = "idle" /\ out = NoEvent
  /\ stop = [f \in Flags |-> FALSE]

-----------------------------------------------------------------------------
(* push                                                                    *)

PushCall ==
  /\ ppc = "idle"
  /\ push_attempts < MaxEvents
  /\ push_attempts' = push_attempts + 1
  /\ ev' = push_attempts + 1
  /\ policy' \in {"Block", "Drop"}
  /\ ppc' = "check"
  /\ UNCHANGED <<queueVars, push_success, push_fail, max_observed_depth,
                 seen_head, popVars, pop_success, closed, stop>>

\* closed and the stop flag never fall, so loading both is one step.
CheckClosed ==
  /\ ppc = "check"
  /\ IF closed \/ stop["push"]
       THEN ppc' = "no"   /\ push_fail' = push_fail + 1
       ELSE ppc' = "load" /\ push_fail' = push_fail
  /\ UNCHANGED <<queueVars, push_attempts, push_success, max_observed_depth,
                 ev, policy, seen_head, popVars, pop_success, closed, stop>>

\* Mutants of LoadHead: the ring is never full; a dropped event is not counted.
LoadHeadNeverFull ==
  /\ ppc = "load"
  /\ seen_head' = head
  /\ ppc' = "write"
  /\ UNCHANGED <<queueVars, pushStats, ev, policy, popVars, pop_success, closed, stop>>

LoadHeadUncounted ==
  /\ ppc = "load"
  /\ seen_head' = head
  /\ ppc' = IF nextIndex(tail) # head THEN "write"
            ELSE IF policy = "Drop" THEN "no" ELSE "check"
  /\ UNCHANGED <<queueVars, pushStats, ev, policy, popVars, pop_success, closed, stop>>

\* tail belongs to the producer; head is loaded once and used until the call ends.
LoadHead ==
  /\ ppc = "load"
  /\ seen_head' = head
  /\ IF nextIndex(tail) # head
       THEN ppc' = "write" /\ push_fail' = push_fail
       ELSE IF policy = "Drop"
              THEN ppc' = "no"    /\ push_fail' = push_fail + 1
              ELSE ppc' = "check" /\ push_fail' = push_fail
  /\ UNCHANGED <<queueVars, push_attempts, push_success, max_observed_depth,
                 ev, policy, popVars, pop_success, closed, stop>>

\* Mutant of WriteCell: the event goes one cell too far.
WriteCellAhead ==
  /\ ppc = "write"
  /\ buffer' = [buffer EXCEPT ![nextIndex(tail)] = ev]
  /\ ppc' = "publish"
  /\ UNCHANGED <<head, tail, pushStats, ev, policy, seen_head, popVars,
                 pop_success, closed, stop>>

WriteCell ==
  /\ ppc = "write"
  /\ buffer' = [buffer EXCEPT ![tail] = ev]
  /\ ppc' = "publish"
  /\ UNCHANGED <<head, tail, pushStats, ev, policy, seen_head, popVars,
                 pop_success, closed, stop>>

PublishTail ==
  /\ ppc = "publish"
  /\ tail' = nextIndex(tail)
  /\ ppc' = "account"
  /\ UNCHANGED <<buffer, head, pushStats, ev, policy, seen_head, popVars,
                 pop_success, closed, stop>>

\* Mutant of RecordedDepth: a wrapped depth is taken modulo the capacity.
RecordedDepthShort(next, h) == IF next > h THEN next - h ELSE Capacity - h + next

\* The depth recorded uses the head loaded before the cell was written.
RecordedDepth(next, h) == IF next > h THEN next - h ELSE RingCapacity - h + next

Account ==
  /\ ppc = "account"
  /\ LET depth == RecordedDepth(tail, seen_head)
     IN  max_observed_depth' =
           IF depth > max_observed_depth THEN depth ELSE max_observed_depth
  /\ push_success' = push_success + 1
  /\ ppc' = "ok"
  /\ UNCHANGED <<queueVars, push_attempts, push_fail, ev, policy, seen_head,
                 popVars, pop_success, closed, stop>>

PushReturn ==
  /\ ppc \in {"ok", "no"}
  /\ ppc' = "idle" /\ ev' = NoEvent /\ policy' = "Block"
  /\ UNCHANGED <<queueVars, pushStats, seen_head, popVars, pop_success, closed, stop>>

-----------------------------------------------------------------------------
(* pop                                                                     *)

PopCall ==
  /\ cpc = "idle"
  /\ cpc' = "load"
  /\ UNCHANGED <<queueVars, pushStats, pushVars, out, pop_success,
                 closed, stop>>

LoadTail ==
  /\ cpc = "load"
  /\ cpc' = IF head # tail THEN "read" ELSE "check"
  /\ UNCHANGED <<queueVars, pushStats, pushVars, out, pop_success, closed, stop>>

CheckStop ==
  /\ cpc = "check"
  /\ cpc' = IF closed \/ stop["pop"] THEN "no" ELSE "load"
  /\ UNCHANGED <<queueVars, pushStats, pushVars, out, pop_success,
                 closed, stop>>

ReadCell ==
  /\ cpc = "read"
  /\ out' = buffer[head]
  /\ cpc' = "advance"
  /\ UNCHANGED <<queueVars, pushStats, pushVars, pop_success,
                 closed, stop>>

AdvanceHead ==
  /\ cpc = "advance"
  /\ head' = nextIndex(head)
  /\ cpc' = "count"
  /\ UNCHANGED <<buffer, tail, pushStats, pushVars, out,
                 pop_success, closed, stop>>

CountPop ==
  /\ cpc = "count"
  /\ pop_success' = pop_success + 1
  /\ cpc' = "ok"
  /\ UNCHANGED <<queueVars, pushStats, pushVars, out, closed, stop>>

\* Consumers loop "while (queue.pop(ev, stop))": after false there is no next call.
PopReturn ==
  /\ cpc = "ok"
  /\ cpc' = "idle"
  /\ out' = NoEvent
  /\ UNCHANGED <<queueVars, pushStats, pushVars, pop_success,
                 closed, stop>>

-----------------------------------------------------------------------------
(* The thread that owns the queue                                          *)

Close ==
  /\ ~closed
  /\ closed' = TRUE
  /\ UNCHANGED <<queueVars, pushStats, pushVars, popVars, pop_success, stop>>

Stop ==
  /\ \E S \in StopScopes : /\ \E f \in S : ~stop[f]
                           /\ stop' = [f \in Flags |-> stop[f] \/ f \in S]
  /\ UNCHANGED <<queueVars, pushStats, pushVars, popVars, pop_success, closed>>

\* Both threads have returned from their last call.
Finished ==
  /\ closed
  /\ cpc = "no"
  /\ ppc = "idle" /\ push_attempts = MaxEvents
  /\ UNCHANGED vars

PushStep == CheckClosed \/ LoadHead \/ WriteCell \/ PublishTail \/ Account \/ PushReturn
PopStep  == PopCall \/ LoadTail \/ CheckStop \/ ReadCell \/ AdvanceHead \/ CountPop \/ PopReturn

Next == PushCall \/ PushStep \/ PopStep \/ Close \/ Stop \/ Finished

Spec == Init /\ [][Next]_vars

-----------------------------------------------------------------------------
(* The queue as its callers see it                                         *)

Depth  == Distance(head, tail)
Window == [i \in 1 .. Depth |-> buffer[CellAt(head, i - 1)]]

PushPhase ==
  [p \in {"producer"} |->
    CASE ppc = "idle"              -> "idle"
      [] ppc \in {"account", "ok"} -> "accepted"
      [] ppc = "no"                -> "refused"
      [] OTHER                     -> policy]

PopPhase ==
  [c \in {"consumer"} |->
    CASE cpc = "idle"            -> "idle"
      [] cpc \in {"count", "ok"} -> "delivered"
      [] cpc = "no"              -> "refused"
      [] OTHER                   -> "calling"]

Handed == [c \in {"consumer"} |-> IF cpc \in {"count", "ok"} THEN out ELSE NoEvent]

EQ == INSTANCE EventQueue WITH
  Producers <- {"producer"}, Consumers <- {"consumer"}, Events <- 1 .. MaxEvents,
  capacity <- Capacity, queue <- Window,
  push <- PushPhase, arg <- [p \in {"producer"} |-> ev],
  pop <- PopPhase, out <- Handed

\* The ring implements the contract of IEventQueue: events come out once, in
\* the order push accepted them, and neither call answers false without cause.
Contract == EQ!Spec

-----------------------------------------------------------------------------
(* Invariants                                                              *)

\* Type of every variable of the queue and of the two calls.
TypeOK ==
  /\ buffer \in [Cells -> 0 .. MaxEvents]
  /\ head \in Cells /\ tail \in Cells /\ closed \in BOOLEAN
  /\ push_attempts \in 0 .. MaxEvents
  /\ push_success \in Nat /\ push_fail \in Nat /\ pop_success \in Nat
  /\ max_observed_depth \in Nat
  /\ ppc \in {"idle", "check", "load", "write", "publish", "account", "ok", "no"}
  /\ ev \in 0 .. MaxEvents /\ policy \in {"Block", "Drop"} /\ seen_head \in Cells
  /\ cpc \in {"idle", "load", "check", "read", "advance", "count", "ok", "no"}
  /\ out \in 0 .. MaxEvents
  /\ stop \in [Flags -> BOOLEAN]

\* The producer never writes the cell the consumer is reading: the plain
\* accesses to buffer_ in push and pop are ordered by the indices alone.
CellRaceFree == ~(ppc = "write" /\ cpc = "read" /\ head = tail)

\* max_observed_depth, computed from an old head, never exceeds the capacity
\* and never falls short of the depth a completed push left behind.
DepthBounded ==
  /\ max_observed_depth <= Capacity
  /\ ppc # "account" => Depth <= max_observed_depth

UndecidedPush == IF ppc \in {"idle", "ok", "no"} THEN 0 ELSE 1
UncountedPush == IF ppc = "account" THEN 1 ELSE 0
UncountedPop  == IF cpc = "count" THEN 1 ELSE 0

\* The counters tell the depth: each call of push is counted once as success
\* or failure, and what was pushed and not popped is what the ring holds.
StatsBalance ==
  /\ push_attempts = push_success + push_fail + UndecidedPush
  /\ push_success + UncountedPush = pop_success + UncountedPop + Depth
=============================================================================
