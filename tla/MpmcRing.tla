------------------------------- MODULE MpmcRing -------------------------------
(***************************************************************************)
(* MpmcRingQueue (queues.cpp): a ring of capacity cells shared by many     *)
(* producers and consumers.  slots_available_ and items_ decide who may    *)
(* enter, tail_mu_ and head_mu_ who moves an index; no lock is common to   *)
(* both sides, so only the semaphores keep a writer off a reader's cell.   *)
(* A try_acquire may fail although the semaphore is not zero.              *)
(***************************************************************************)
EXTENDS Naturals, Sequences, FiniteSets

CONSTANTS
  Producers, Consumers,
  Capacities,  \* the capacities the ring is built with; the constructor rejects 0
  MaxEvents,   \* bound: the producers call push for events 1 .. MaxEvents
  StopScopes   \* the sets of stop flags the threads' owner may set together

ASSUME CapacitiesAssumption == Capacities \subseteq Nat \ {0}
ASSUME MaxEventsAssumption  == MaxEvents \in Nat
ASSUME ScopesAssumption     == StopScopes \subseteq SUBSET {"push", "pop"}

VARIABLES
  capacity, buffer, head, tail, depth, max_observed_depth,
  items, slots_available, closed,
  tail_mu, head_mu,                 \* the holder of each mutex, or Nobody
  push_attempts, ppc, ev, policy,   \* the calls of push
  cpc, out,                         \* the calls of pop
  stop

ring     == <<buffer, head, tail, depth, max_observed_depth>>
tokens   == <<items, slots_available>>
locks    == <<tail_mu, head_mu>>
pushVars == <<push_attempts, ppc, ev, policy>>
popVars  == <<cpc, out>>
vars == <<capacity, ring, tokens, closed, locks, pushVars, popVars, stop>>

Flags   == {"push", "pop"}
Nobody  == "nobody"
NoEvent == 0
Events  == 1 .. MaxEvents
Cells   == 0 .. capacity - 1

\* Finitely many threads share the queue, and none of them is nobody.
ASSUME ThreadsAssumption ==
  IsFiniteSet(Producers) /\ IsFiniteSet(Consumers) /\ Nobody \notin Producers \cup Consumers

\* Mutant of nextIndex: the index does not wrap.
nextIndexNoWrap(idx) == idx + 1

nextIndex(idx) == IF idx + 1 = capacity THEN 0 ELSE idx + 1

Init ==
  /\ capacity \in Capacities
  /\ buffer = [i \in Cells |-> NoEvent]
  /\ head = 0 /\ tail = 0 /\ depth = 0 /\ max_observed_depth = 0
  /\ items = 0 /\ slots_available = capacity
  /\ closed = FALSE /\ tail_mu = Nobody /\ head_mu = Nobody
  /\ push_attempts = 0
  /\ ppc = [p \in Producers |-> "idle"]
  /\ ev = [p \in Producers |-> NoEvent]
  /\ policy = [p \in Producers |-> "Block"]
  /\ cpc = [c \in Consumers |-> "idle"]
  /\ out = [c \in Consumers |-> NoEvent]
  /\ stop = [f \in Flags |-> FALSE]

PushAt(p, pc) == ppc' = [ppc EXCEPT ![p] = pc]
PopAt(c, pc)  == cpc' = [cpc EXCEPT ![c] = pc]

-----------------------------------------------------------------------------
(* push                                                                    *)

PushCall(p) ==
  /\ ppc[p] = "idle"
  /\ push_attempts < MaxEvents
  /\ push_attempts' = push_attempts + 1
  /\ ev' = [ev EXCEPT ![p] = push_attempts']
  /\ \E b \in {"Block", "Drop"} : policy' = [policy EXCEPT ![p] = b]
  /\ PushAt(p, "slot")
  /\ UNCHANGED <<capacity, ring, tokens, closed, locks, popVars, stop>>

AcquireSlot(p) ==
  /\ ppc[p] = "slot"
  /\ slots_available > 0
  /\ slots_available' = slots_available - 1
  /\ PushAt(p, "check")
  /\ UNCHANGED <<capacity, ring, items, closed, locks, push_attempts, ev, policy,
                 popVars, stop>>

\* Mutant of MissSlot: the answer of try_acquire is ignored.
MissSlotIgnored(p) ==
  /\ ppc[p] = "slot"
  /\ PushAt(p, "check")
  /\ UNCHANGED <<capacity, ring, tokens, closed, locks, push_attempts, ev, policy,
                 popVars, stop>>

MissSlot(p) ==
  /\ ppc[p] = "slot"
  /\ PushAt(p, IF policy[p] = "Drop" THEN "no" ELSE "full")
  /\ UNCHANGED <<capacity, ring, tokens, closed, locks, push_attempts, ev, policy,
                 popVars, stop>>

CheckFull(p) ==
  /\ ppc[p] = "full"
  /\ PushAt(p, IF closed \/ stop["push"] THEN "no" ELSE "slot")
  /\ UNCHANGED <<capacity, ring, tokens, closed, locks, push_attempts, ev, policy,
                 popVars, stop>>

\* The last look at closed_: it is not looked at again under the lock.
CheckClosed(p) ==
  /\ ppc[p] = "check"
  /\ PushAt(p, IF closed \/ stop["push"] THEN "undo" ELSE "lock")
  /\ UNCHANGED <<capacity, ring, tokens, closed, locks, push_attempts, ev, policy,
                 popVars, stop>>

\* Mutant of Undo: the slot is not given back.
UndoLeaks(p) ==
  /\ ppc[p] = "undo"
  /\ PushAt(p, "no")
  /\ UNCHANGED <<capacity, ring, tokens, closed, locks, push_attempts, ev, policy,
                 popVars, stop>>

Undo(p) ==
  /\ ppc[p] = "undo"
  /\ slots_available' = slots_available + 1
  /\ PushAt(p, "no")
  /\ UNCHANGED <<capacity, ring, items, closed, locks, push_attempts, ev, policy,
                 popVars, stop>>

LockTail(p) ==
  /\ ppc[p] = "lock"
  /\ tail_mu = Nobody
  /\ tail_mu' = p
  /\ PushAt(p, "store")
  /\ UNCHANGED <<capacity, ring, tokens, closed, head_mu, push_attempts, ev, policy,
                 popVars, stop>>

\* Mutant of Store: the maximum is taken of the depth before the push.
StoreOldDepth(p) ==
  /\ ppc[p] = "store"
  /\ buffer' = [buffer EXCEPT ![tail] = ev[p]]
  /\ tail' = nextIndex(tail)
  /\ depth' = depth + 1
  /\ max_observed_depth' = IF depth > max_observed_depth THEN depth ELSE max_observed_depth
  /\ tail_mu' = Nobody
  /\ PushAt(p, "signal")
  /\ UNCHANGED <<capacity, head, tokens, closed, head_mu, push_attempts, ev, policy,
                 popVars, stop>>

Store(p) ==
  /\ ppc[p] = "store"
  /\ buffer' = [buffer EXCEPT ![tail] = ev[p]]
  /\ tail' = nextIndex(tail)
  /\ depth' = depth + 1
  /\ max_observed_depth' = IF depth' > max_observed_depth THEN depth' ELSE max_observed_depth
  /\ tail_mu' = Nobody
  /\ PushAt(p, "signal")
  /\ UNCHANGED <<capacity, head, tokens, closed, head_mu, push_attempts, ev, policy,
                 popVars, stop>>

ReleaseItem(p) ==
  /\ ppc[p] = "signal"
  /\ items' = items + 1
  /\ PushAt(p, "ok")
  /\ UNCHANGED <<capacity, ring, slots_available, closed, locks, push_attempts, ev,
                 policy, popVars, stop>>

PushReturn(p) ==
  /\ ppc[p] \in {"ok", "no"}
  /\ PushAt(p, "idle")
  /\ ev' = [ev EXCEPT ![p] = NoEvent]
  /\ policy' = [policy EXCEPT ![p] = "Block"]
  /\ UNCHANGED <<capacity, ring, tokens, closed, locks, push_attempts, popVars, stop>>

-----------------------------------------------------------------------------
(* pop                                                                     *)

PopCall(c) ==
  /\ cpc[c] = "idle"
  /\ PopAt(c, "take")
  /\ UNCHANGED <<capacity, ring, tokens, closed, locks, pushVars, out, stop>>

AcquireItem(c) ==
  /\ cpc[c] = "take"
  /\ items > 0
  /\ items' = items - 1
  /\ PopAt(c, "lock")
  /\ UNCHANGED <<capacity, ring, slots_available, closed, locks, pushVars, out, stop>>

\* Mutant of MissItem: an empty pop answers false without looking at closed_.
MissItemGivesUp(c) ==
  /\ cpc[c] = "take"
  /\ PopAt(c, "no")
  /\ UNCHANGED <<capacity, ring, tokens, closed, locks, pushVars, out, stop>>

MissItem(c) ==
  /\ cpc[c] = "take"
  /\ PopAt(c, "empty")
  /\ UNCHANGED <<capacity, ring, tokens, closed, locks, pushVars, out, stop>>

CheckEmpty(c) ==
  /\ cpc[c] = "empty"
  /\ PopAt(c, IF closed \/ stop["pop"] THEN "no" ELSE "take")
  /\ UNCHANGED <<capacity, ring, tokens, closed, locks, pushVars, out, stop>>

LockHead(c) ==
  /\ cpc[c] = "lock"
  /\ head_mu = Nobody
  /\ head_mu' = c
  /\ PopAt(c, "load")
  /\ UNCHANGED <<capacity, ring, tokens, closed, tail_mu, pushVars, out, stop>>

Load(c) ==
  /\ cpc[c] = "load"
  /\ out' = [out EXCEPT ![c] = buffer[head]]
  /\ head' = nextIndex(head)
  /\ depth' = depth - 1
  /\ head_mu' = Nobody
  /\ PopAt(c, "give")
  /\ UNCHANGED <<capacity, buffer, tail, max_observed_depth, tokens, closed, tail_mu,
                 pushVars, stop>>

ReleaseSlot(c) ==
  /\ cpc[c] = "give"
  /\ slots_available' = slots_available + 1
  /\ PopAt(c, "ok")
  /\ UNCHANGED <<capacity, ring, items, closed, locks, pushVars, out, stop>>

\* Consumers loop "while (queue.pop(ev, stop))": after false there is no next call.
PopReturn(c) ==
  /\ cpc[c] = "ok"
  /\ out' = [out EXCEPT ![c] = NoEvent]
  /\ PopAt(c, "idle")
  /\ UNCHANGED <<capacity, ring, tokens, closed, locks, pushVars, stop>>

-----------------------------------------------------------------------------
(* The thread that owns the queue                                          *)

Close ==
  /\ ~closed
  /\ closed' = TRUE
  /\ UNCHANGED <<capacity, ring, tokens, locks, pushVars, popVars, stop>>

Stop ==
  /\ \E S \in StopScopes : /\ \E f \in S : ~stop[f]
                           /\ stop' = [f \in Flags |-> stop[f] \/ f \in S]
  /\ UNCHANGED <<capacity, ring, tokens, closed, locks, pushVars, popVars>>

\* Every thread has returned from its last call.
Finished ==
  /\ closed
  /\ \A c \in Consumers : cpc[c] = "no"
  /\ push_attempts = MaxEvents /\ \A p \in Producers : ppc[p] = "idle"
  /\ UNCHANGED vars

PushStep(p) ==
  \/ AcquireSlot(p) \/ MissSlot(p) \/ CheckFull(p) \/ CheckClosed(p) \/ Undo(p)
  \/ LockTail(p) \/ Store(p) \/ ReleaseItem(p) \/ PushReturn(p)

PopStep(c) ==
  \/ PopCall(c) \/ AcquireItem(c) \/ MissItem(c) \/ CheckEmpty(c) \/ LockHead(c)
  \/ Load(c) \/ ReleaseSlot(c) \/ PopReturn(c)

Next ==
  \/ \E p \in Producers : PushCall(p) \/ PushStep(p)
  \/ \E c \in Consumers : PopStep(c)
  \/ Close \/ Stop \/ Finished

Spec == Init /\ [][Next]_vars

-----------------------------------------------------------------------------
(* The queue as its callers see it                                         *)

CellAt(i) == IF head + i < capacity THEN head + i ELSE head + i - capacity
Window    == [i \in 1 .. depth |-> buffer[CellAt(i - 1)]]

PushPhase ==
  [p \in Producers |->
    CASE ppc[p] = "idle"             -> "idle"
      [] ppc[p] \in {"signal", "ok"} -> "accepted"
      [] ppc[p] = "no"               -> "refused"
      [] OTHER                       -> policy[p]]

PopPhase ==
  [c \in Consumers |->
    CASE cpc[c] = "idle"           -> "idle"
      [] cpc[c] \in {"give", "ok"} -> "delivered"
      [] cpc[c] = "no"             -> "refused"
      [] OTHER                     -> "calling"]

EQ == INSTANCE EventQueue WITH
  queue <- Window, push <- PushPhase, arg <- ev, pop <- PopPhase

\* Several producers and consumers in the ring at once still make one FIFO:
\* every accepted event comes out of exactly one pop, oldest first.
Contract == EQ!Spec

-----------------------------------------------------------------------------
(* Invariants                                                              *)

\* Type of the members and of every thread's call.
TypeOK ==
  /\ capacity \in Capacities
  /\ buffer \in [Cells -> 0 .. MaxEvents] /\ head \in Cells /\ tail \in Cells
  /\ depth \in Nat /\ max_observed_depth \in Nat
  /\ items \in Nat /\ slots_available \in Nat /\ closed \in BOOLEAN
  /\ tail_mu \in Producers \cup {Nobody} /\ head_mu \in Consumers \cup {Nobody}
  /\ push_attempts \in 0 .. MaxEvents
  /\ ppc \in [Producers -> {"idle", "slot", "full", "check", "undo", "lock", "store",
                            "signal", "ok", "no"}]
  /\ ev \in [Producers -> 0 .. MaxEvents]
  /\ policy \in [Producers -> {"Block", "Drop"}]
  /\ cpc \in [Consumers -> {"idle", "take", "empty", "lock", "load", "give", "ok", "no"}]
  /\ out \in [Consumers -> 0 .. MaxEvents]
  /\ stop \in [Flags -> BOOLEAN]

PushersAt(S) == Cardinality({p \in Producers : ppc[p] \in S})
PoppersAt(S) == Cardinality({c \in Consumers : cpc[c] \in S})

\* items_ and slots_available_ together with the calls under way account for
\* every cell; a push that gives its slot back after close() loses none.
TokensConserved ==
  /\ items + PoppersAt({"lock", "load"}) + PushersAt({"signal"}) = depth
  /\ slots_available + PushersAt({"check", "undo", "lock", "store"}) + depth
       + PoppersAt({"give"}) = capacity

\* A push about to write finds a free cell, a pop about to read finds a full
\* one, and when both are at it they are not at the same cell.
CellSafe ==
  /\ (\E p \in Producers : ppc[p] = "store") => depth < capacity
  /\ (\E c \in Consumers : cpc[c] = "load") => depth > 0
  /\ (\E p \in Producers, c \in Consumers : ppc[p] = "store" /\ cpc[c] = "load")
       => head # tail

\* depth_ is moved under two different mutexes, and still it is the distance
\* between the indices, and its maximum respects the capacity.
DepthExact ==
  /\ CellAt(depth) = tail \/ (depth = capacity /\ head = tail)
  /\ depth <= max_observed_depth
  /\ max_observed_depth <= capacity
=============================================================================
