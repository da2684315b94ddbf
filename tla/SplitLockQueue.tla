---------------------------- MODULE SplitLockQueue ----------------------------
(***************************************************************************)
(* SplitLockLinkedQueue (queues.cpp): a linked list with a dummy node at   *)
(* its head, one mutex for the tail, one for the head, and two counting    *)
(* semaphores: items_ lets a consumer in, slots_ lets a producer in.       *)
(*                                                                         *)
(* Nodes are numbered in the order they are linked; node 0 is the dummy.   *)
(* A try_acquire may fail although the semaphore is not zero, as the       *)
(* standard allows.                                                        *)
(***************************************************************************)
EXTENDS Naturals, Sequences, FiniteSets

CONSTANTS
  Producers, Consumers,
  Capacities,  \* the capacities the queue is built with; 0 is unbounded
  MaxEvents,   \* bound: the producers call push for events 1 .. MaxEvents
  StopScopes   \* the sets of stop flags the threads' owner may set together

ASSUME CapacitiesAssumption == Capacities \subseteq Nat
ASSUME MaxEventsAssumption  == MaxEvents \in Nat
ASSUME ScopesAssumption     == StopScopes \subseteq SUBSET {"push", "pop"}

VARIABLES
  capacity,
  values,     \* the values of the nodes linked so far: node k holds values[k]
  head, tail, \* the nodes head_ and tail_ point to
  freed,      \* the nodes deleted
  items, slots, depth, max_observed_depth, closed,
  tail_mu,    \* the producer holding tail_mu_, or Nobody
  push_attempts, ppc, ev, policy,   \* the calls of push
  cpc, old_head, out,               \* the calls of pop
  stop

tokens    == <<items, slots>>
list      == <<values, head, tail, freed>>
depths    == <<depth, max_observed_depth>>
pushVars  == <<push_attempts, ppc, ev, policy>>
popVars   == <<cpc, old_head, out>>
vars == <<capacity, list, tokens, depths, closed, tail_mu, pushVars, popVars, stop>>

Flags   == {"push", "pop"}
Nobody  == "nobody"
NoEvent == 0
Events  == 1 .. MaxEvents

\* Finitely many threads share the queue, and none of them is nobody.
ASSUME ThreadsAssumption ==
  IsFiniteSet(Producers) /\ IsFiniteSet(Consumers) /\ Nobody \notin Producers \cup Consumers

Init ==
  /\ capacity \in Capacities
  /\ values = <<>> /\ head = 0 /\ tail = 0 /\ freed = {}
  /\ items = 0 /\ slots = capacity /\ depth = 0 /\ max_observed_depth = 0
  /\ closed = FALSE /\ tail_mu = Nobody
  /\ push_attempts = 0
  /\ ppc = [p \in Producers |-> "idle"]
  /\ ev = [p \in Producers |-> NoEvent]
  /\ policy = [p \in Producers |-> "Block"]
  /\ cpc = [c \in Consumers |-> "idle"]
  /\ old_head = [c \in Consumers |-> 0]
  /\ out = [c \in Consumers |-> NoEvent]
  /\ stop = [f \in Flags |-> FALSE]

PushAt(p, pc) == ppc' = [ppc EXCEPT ![p] = pc]
PopAt(c, pc)  == cpc' = [cpc EXCEPT ![c] = pc]

-----------------------------------------------------------------------------
(* push                                                                    *)

PushCall(p) ==
  /\ ppc[p] = "idle"
  /\ push_attempts < MaxEvents
  /\ push_attempts' = push_attempts + 1
  /\ ev' = [ev EXCEPT ![p] = push_attempts']
  /\ \E b \in {"Block", "Drop"} : policy' = [policy EXCEPT ![p] = b]
  /\ PushAt(p, "check")
  /\ UNCHANGED <<capacity, list, tokens, depths, closed, tail_mu, popVars, stop>>

\* The stop flag plays no part until the queue has been found full.
CheckClosed(p) ==
  /\ ppc[p] = "check"
  /\ PushAt(p, IF closed THEN "no" ELSE IF capacity = 0 THEN "lock" ELSE "slot")
  /\ UNCHANGED <<capacity, list, tokens, depths, closed, tail_mu, push_attempts,
                 ev, policy, popVars, stop>>

AcquireSlot(p) ==
  /\ ppc[p] = "slot"
  /\ slots > 0
  /\ slots' = slots - 1
  /\ PushAt(p, "lock")
  /\ UNCHANGED <<capacity, list, items, depths, closed, tail_mu, push_attempts,
                 ev, policy, popVars, stop>>

\* Mutant of MissSlot: every policy gives up on a full queue.
MissSlotDrops(p) ==
  /\ ppc[p] = "slot"
  /\ PushAt(p, "no")
  /\ UNCHANGED <<capacity, list, tokens, depths, closed, tail_mu, push_attempts,
                 ev, policy, popVars, stop>>

MissSlot(p) ==
  /\ ppc[p] = "slot"
  /\ PushAt(p, IF policy[p] = "Drop" THEN "no" ELSE "full")
  /\ UNCHANGED <<capacity, list, tokens, depths, closed, tail_mu, push_attempts,
                 ev, policy, popVars, stop>>

CheckFull(p) ==
  /\ ppc[p] = "full"
  /\ PushAt(p, IF closed \/ stop["push"] THEN "no" ELSE "slot")
  /\ UNCHANGED <<capacity, list, tokens, depths, closed, tail_mu, push_attempts,
                 ev, policy, popVars, stop>>

\* Takes tail_mu_ and looks at closed_ once more.
LockTail(p) ==
  /\ ppc[p] = "lock"
  /\ tail_mu = Nobody
  /\ tail_mu' = p
  /\ PushAt(p, IF closed THEN "undo" ELSE "link")
  /\ UNCHANGED <<capacity, list, tokens, depths, closed, push_attempts, ev, policy,
                 popVars, stop>>

\* Mutant of Undo: the reserved slot is not given back.
UndoLeaks(p) ==
  /\ ppc[p] = "undo"
  /\ tail_mu' = Nobody
  /\ PushAt(p, "no")
  /\ UNCHANGED <<capacity, list, tokens, depths, closed, push_attempts, ev, policy,
                 popVars, stop>>

Undo(p) ==
  /\ ppc[p] = "undo"
  /\ slots' = IF capacity = 0 THEN slots ELSE slots + 1
  /\ tail_mu' = Nobody
  /\ PushAt(p, "no")
  /\ UNCHANGED <<capacity, list, items, depths, closed, push_attempts, ev, policy,
                 popVars, stop>>

\* tail_->next = node: a consumer that reads the next of the last node sees it now.
Link(p) ==
  /\ ppc[p] = "link"
  /\ values' = Append(values, ev[p])
  /\ PushAt(p, "move")
  /\ UNCHANGED <<capacity, head, tail, freed, tokens, depths, closed, tail_mu,
                 push_attempts, ev, policy, popVars, stop>>

\* Mutant of MoveTail: the maximum is taken of the depth before the push.
MoveTailOldDepth(p) ==
  /\ ppc[p] = "move"
  /\ tail' = Len(values)
  /\ depth' = depth + 1
  /\ max_observed_depth' = IF depth > max_observed_depth THEN depth ELSE max_observed_depth
  /\ tail_mu' = Nobody
  /\ PushAt(p, "signal")
  /\ UNCHANGED <<capacity, values, head, freed, tokens, closed, push_attempts, ev, policy,
                 popVars, stop>>

MoveTail(p) ==
  /\ ppc[p] = "move"
  /\ tail' = Len(values)
  /\ depth' = depth + 1
  /\ max_observed_depth' = IF depth' > max_observed_depth THEN depth' ELSE max_observed_depth
  /\ tail_mu' = Nobody
  /\ PushAt(p, "signal")
  /\ UNCHANGED <<capacity, values, head, freed, tokens, closed, push_attempts, ev, policy,
                 popVars, stop>>

\* Mutant of ReleaseItem: the item is linked and never announced.
ReleaseItemLost(p) ==
  /\ ppc[p] = "signal"
  /\ PushAt(p, "ok")
  /\ UNCHANGED <<capacity, list, tokens, depths, closed, tail_mu, push_attempts,
                 ev, policy, popVars, stop>>

ReleaseItem(p) ==
  /\ ppc[p] = "signal"
  /\ items' = items + 1
  /\ PushAt(p, "ok")
  /\ UNCHANGED <<capacity, list, slots, depths, closed, tail_mu, push_attempts,
                 ev, policy, popVars, stop>>

PushReturn(p) ==
  /\ ppc[p] \in {"ok", "no"}
  /\ PushAt(p, "idle")
  /\ ev' = [ev EXCEPT ![p] = NoEvent]
  /\ policy' = [policy EXCEPT ![p] = "Block"]
  /\ UNCHANGED <<capacity, list, tokens, depths, closed, tail_mu, push_attempts,
                 popVars, stop>>

-----------------------------------------------------------------------------
(* pop                                                                     *)

PopCall(c) ==
  /\ cpc[c] = "idle"
  /\ PopAt(c, "take")
  /\ UNCHANGED <<capacity, list, tokens, depths, closed, tail_mu, pushVars, old_head,
                 out, stop>>

\* Mutant of AcquireItem: a pop does not wait for an item.
AcquireItemUnguarded(c) ==
  /\ cpc[c] = "take"
  /\ items' = items - 1
  /\ PopAt(c, "unlink")
  /\ UNCHANGED <<capacity, list, slots, depths, closed, tail_mu, pushVars, old_head,
                 out, stop>>

AcquireItem(c) ==
  /\ cpc[c] = "take"
  /\ items > 0
  /\ items' = items - 1
  /\ PopAt(c, "unlink")
  /\ UNCHANGED <<capacity, list, slots, depths, closed, tail_mu, pushVars, old_head,
                 out, stop>>

MissItem(c) ==
  /\ cpc[c] = "take"
  /\ PopAt(c, "empty")
  /\ UNCHANGED <<capacity, list, tokens, depths, closed, tail_mu, pushVars, old_head,
                 out, stop>>

CheckEmpty(c) ==
  /\ cpc[c] = "empty"
  /\ PopAt(c, IF closed \/ stop["pop"] THEN "no" ELSE "take")
  /\ UNCHANGED <<capacity, list, tokens, depths, closed, tail_mu, pushVars, old_head,
                 out, stop>>

\* The section under head_mu_.  Its null branch answers true with nothing in out.
Unlink(c) ==
  /\ cpc[c] = "unlink"
  /\ IF head = Len(values)
       THEN /\ PopAt(c, IF closed \/ stop["pop"] THEN "no" ELSE "ok")
            /\ UNCHANGED <<head, depth, old_head, out>>
       ELSE /\ old_head' = [old_head EXCEPT ![c] = head]
            /\ out' = [out EXCEPT ![c] = values[head + 1]]
            /\ head' = head + 1
            /\ depth' = depth - 1
            /\ PopAt(c, "delete")
  /\ UNCHANGED <<capacity, values, tail, freed, tokens, max_observed_depth, closed,
                 tail_mu, pushVars, stop>>

\* Mutant of Release: the new head is deleted in place of the old one.
ReleaseNewHead(c) ==
  /\ cpc[c] = "delete"
  /\ freed' = freed \cup {old_head[c] + 1}
  /\ slots' = IF capacity = 0 THEN slots ELSE slots + 1
  /\ PopAt(c, "ok")
  /\ UNCHANGED <<capacity, values, head, tail, items, depths, closed, tail_mu,
                 pushVars, old_head, out, stop>>

\* old_head is deleted outside the lock, then the slot is given back.
Release(c) ==
  /\ cpc[c] = "delete"
  /\ freed' = freed \cup {old_head[c]}
  /\ slots' = IF capacity = 0 THEN slots ELSE slots + 1
  /\ PopAt(c, "ok")
  /\ UNCHANGED <<capacity, values, head, tail, items, depths, closed, tail_mu,
                 pushVars, old_head, out, stop>>

\* Consumers loop "while (queue.pop(ev, stop))": after false there is no next call.
PopReturn(c) ==
  /\ cpc[c] = "ok"
  /\ out' = [out EXCEPT ![c] = NoEvent]
  /\ old_head' = [old_head EXCEPT ![c] = 0]
  /\ PopAt(c, "idle")
  /\ UNCHANGED <<capacity, list, tokens, depths, closed, tail_mu, pushVars, stop>>

-----------------------------------------------------------------------------
(* The thread that owns the queue                                          *)

\* close() takes no lock.
Close ==
  /\ ~closed
  /\ closed' = TRUE
  /\ UNCHANGED <<capacity, list, tokens, depths, tail_mu, pushVars, popVars, stop>>

Stop ==
  /\ \E S \in StopScopes : /\ \E f \in S : ~stop[f]
                           /\ stop' = [f \in Flags |-> stop[f] \/ f \in S]
  /\ UNCHANGED <<capacity, list, tokens, depths, closed, tail_mu, pushVars, popVars>>

\* Every thread has returned from its last call.
Finished ==
  /\ closed
  /\ \A c \in Consumers : cpc[c] = "no"
  /\ push_attempts = MaxEvents /\ \A p \in Producers : ppc[p] = "idle"
  /\ UNCHANGED vars

PushStep(p) ==
  \/ CheckClosed(p) \/ AcquireSlot(p) \/ MissSlot(p) \/ CheckFull(p) \/ LockTail(p)
  \/ Undo(p) \/ Link(p) \/ MoveTail(p) \/ ReleaseItem(p) \/ PushReturn(p)

PopStep(c) ==
  \/ PopCall(c) \/ AcquireItem(c) \/ MissItem(c) \/ CheckEmpty(c)
  \/ Unlink(c) \/ Release(c) \/ PopReturn(c)

Next ==
  \/ \E p \in Producers : PushCall(p) \/ PushStep(p)
  \/ \E c \in Consumers : PopStep(c)
  \/ Close \/ Stop \/ Finished

Spec == Init /\ [][Next]_vars

\* Every call under way is scheduled, and try_acquire does not miss for ever.
FairSpec ==
  /\ Spec
  /\ \A p \in Producers : WF_vars(PushStep(p)) /\ SF_vars(AcquireSlot(p))
  /\ \A c \in Consumers : WF_vars(PopStep(c)) /\ SF_vars(AcquireItem(c))

-----------------------------------------------------------------------------
(* The queue as its callers see it                                         *)

Linked == SubSeq(values, head + 1, Len(values))

PushPhase ==
  [p \in Producers |->
    CASE ppc[p] = "idle"                      -> "idle"
      [] ppc[p] \in {"move", "signal", "ok"}  -> "accepted"
      [] ppc[p] = "no"                        -> "refused"
      [] OTHER                                -> policy[p]]

PopPhase ==
  [c \in Consumers |->
    CASE cpc[c] = "idle"                     -> "idle"
      [] cpc[c] \in {"delete", "ok"} -> "delivered"
      [] cpc[c] = "no"                       -> "refused"
      [] OTHER                               -> "calling"]

EQ == INSTANCE EventQueue WITH
  queue <- Linked, push <- PushPhase, arg <- ev,
  pop <- PopPhase

\* Across both mutexes the list is one FIFO: every accepted event comes out of
\* exactly one pop, in the order the events were linked.
Contract == EQ!Spec

-----------------------------------------------------------------------------
(* Invariants                                                              *)

\* Type of the members and of every thread's call.
TypeOK ==
  /\ capacity \in Capacities
  /\ values \in Seq(Events) /\ head \in Nat /\ tail \in Nat /\ freed \subseteq Nat
  /\ items \in Nat /\ slots \in Nat /\ depth \in Nat /\ max_observed_depth \in Nat
  /\ closed \in BOOLEAN /\ tail_mu \in Producers \cup {Nobody}
  /\ ppc \in [Producers -> {"idle", "check", "slot", "full", "lock", "undo", "link",
                            "move", "signal", "ok", "no"}]
  /\ push_attempts \in 0 .. MaxEvents /\ ev \in [Producers -> 0 .. MaxEvents]
  /\ policy \in [Producers -> {"Block", "Drop"}]
  /\ cpc \in [Consumers -> {"idle", "take", "empty", "unlink", "delete", "ok", "no"}]
  /\ old_head \in [Consumers -> Nat] /\ out \in [Consumers -> 0 .. MaxEvents]
  /\ stop \in [Flags -> BOOLEAN]

PushersAt(S) == Cardinality({p \in Producers : ppc[p] \in S})
PoppersAt(S) == Cardinality({c \in Consumers : cpc[c] \in S})

\* No token is lost or made up on any path, the refusals included: what items_
\* and slots_ hold, the calls under way and the list account for each other.
TokensConserved ==
  /\ items + PoppersAt({"unlink"}) + PushersAt({"signal"}) = tail - head
  /\ capacity # 0 =>
       slots + PushersAt({"lock", "undo", "link"}) + (Len(values) - head)
             + PoppersAt({"delete"}) = capacity

\* With no lock in common, a pop never reads the next pointer a push is
\* writing, never finds it null, and nobody touches or deletes a deleted node.
ListSafe ==
  /\ (\E c \in Consumers : cpc[c] = "unlink") => head < tail
  /\ freed \cap (head .. Len(values)) = {}
  /\ \A c \in Consumers :
       cpc[c] = "delete" =>
         /\ old_head[c] \notin freed \cup {head}
         /\ \A d \in Consumers \ {c} : cpc[d] = "delete" => old_head[d] # old_head[c]

\* depth_, counted down outside tail_mu_, is the length of the list, and the
\* maximum it leaves behind respects the capacity.
DepthExact ==
  /\ depth = tail - head
  /\ depth <= max_observed_depth
  /\ capacity # 0 => max_observed_depth <= capacity

-----------------------------------------------------------------------------
(* Liveness                                                                *)

\* The producers push finitely often, so the queue comes to rest: pushes return
\* unless they wait for consumers that were told to stop; an accepted event is
\* handed out unless every consumer has left; after close() they all leave.
Settles ==
  LET gone == \A c \in Consumers : cpc[c] = "no"
  IN  []<>(/\ \/ \A p \in Producers : ppc[p] \in {"idle", "ok", "no"}
              \/ stop["pop"] /\ ~closed
           /\ Linked = <<>> \/ gone
           /\ closed => gone)
=============================================================================
