------------------------- MODULE SplitLockQueueProofs -------------------------
(***************************************************************************)
(* What holds of SplitLockQueue for every finite set of producers and      *)
(* consumers, every capacity, bounded or not, and every number of pushes.  *)
(***************************************************************************)
EXTENDS SplitLockQueue, Counting, FiniteSetTheorems, SequenceTheorems, TLAPS

USE CapacitiesAssumption, MaxEventsAssumption, ScopesAssumption, ThreadsAssumption

-----------------------------------------------------------------------------
(* Threads at given places                                                 *)

\* A count is a natural number, and positive as soon as a thread is there.
LEMMA CountType ==
  ASSUME NEW pc, IsFiniteSet(DOMAIN pc), NEW S
  PROVE  /\ Count(pc, S) \in Nat
         /\ \A t \in DOMAIN pc : pc[t] \in S => Count(pc, S) > 0
<1>1. IsFiniteSet(At(pc, S)) /\ Count(pc, S) \in Nat
  BY FS_Subset, FS_CardinalityType DEF At, Count
<1>2. At(pc, S) # {} => Count(pc, S) # 0
  BY <1>1, FS_EmptySet DEF Count
<1> QED
  BY <1>1, <1>2 DEF At

\* No thread is anywhere: the count is zero.
LEMMA CountNone ==
  ASSUME NEW pc, NEW S, \A t \in DOMAIN pc : pc[t] \notin S
  PROVE  Count(pc, S) = 0
<1>1. At(pc, S) = {}
  BY DEF At
<1> QED
  BY <1>1, FS_EmptySet DEF Count

\* One thread moves: it leaves the count of where it was and enters that of
\* where it goes.
LEMMA CountMove ==
  ASSUME NEW pc, IsFiniteSet(DOMAIN pc), NEW S, NEW t \in DOMAIN pc, NEW to
  PROVE  Count([pc EXCEPT ![t] = to], S) = Count(pc, S) + One(to, S) - One(pc[t], S)
<1> DEFINE new == [pc EXCEPT ![t] = to]
<1> USE DEF One
<1>1. IsFiniteSet(At(pc, S)) /\ Count(pc, S) \in Nat
  BY FS_Subset, CountType DEF At
<1>2. CASE pc[t] \in S /\ to \notin S
  <2>1. At(new, S) = At(pc, S) \ {t} /\ t \in At(pc, S)
    BY <1>2 DEF At
  <2> QED
    <3>1. Cardinality(At(pc, S) \ {t}) = Cardinality(At(pc, S)) - 1
      BY <1>1, <2>1, FS_RemoveElement, Zenon
    <3>2. Count(new, S) = Count(pc, S) - 1
      BY <2>1, <3>1 DEF Count
    <3> QED
      BY <1>1, <1>2, <3>2
<1>3. CASE pc[t] \notin S /\ to \in S
  <2>1. At(new, S) = At(pc, S) \cup {t} /\ t \notin At(pc, S)
    BY <1>3 DEF At
  <2> QED
    <3>1. Count(new, S) = Count(pc, S) + 1
      BY <1>1, <2>1, FS_AddElement DEF Count
    <3> QED
      BY <1>1, <1>3, <3>1
<1>4. CASE pc[t] \in S <=> to \in S
  <2>1. At(new, S) = At(pc, S)
    BY <1>4 DEF At
  <2> QED
    <3>1. Count(new, S) = Count(pc, S)
      BY <2>1 DEF Count
    <3> QED
      BY <1>1, <1>4, <3>1
<1> QED
  BY <1>2, <1>3, <1>4

-----------------------------------------------------------------------------
(* The inductive invariant                                                 *)

\* The calls that hold a slot, an item, or owe one to the other side.
HoldsSlot == {"lock", "undo", "link"}
OwesItem  == {"signal"}
HoldsItem == {"unlink"}
OwesSlot  == {"delete"}

\* Only the holder of tail_mu_ is in its section.
Locked == \A p \in Producers : ppc[p] \in {"undo", "link", "move"} => tail_mu = p

\* A push that has been called has an event to offer; it looks for a slot only
\* in a bounded queue, and is on its way back only when the queue is closed.
Offering ==
  \A p \in Producers : /\ ppc[p] # "idle" => ev[p] \in Events
                       /\ ppc[p] \in {"slot", "full"} => capacity # 0
                       /\ ppc[p] = "undo" => closed

\* tail_ is the last node, but for the push that has linked one and not moved it.
TailLast ==
  /\ (\E p \in Producers : ppc[p] = "move") => Len(values) = tail + 1
  /\ (\A p \in Producers : ppc[p] # "move") => Len(values) = tail

\* TokensConserved, with its sets of threads counted by Count.
Balanced ==
  /\ items + Count(cpc, HoldsItem) + Count(ppc, OwesItem) = tail - head
  /\ capacity # 0 =>
       slots + Count(ppc, HoldsSlot) + (Len(values) - head) + Count(cpc, OwesSlot) = capacity

\* What is deleted or about to be lies before the head, each node with one owner.
Behind ==
  /\ \A n \in freed : n < head
  /\ \A c \in Consumers : cpc[c] = "delete" =>
       /\ old_head[c] < head /\ old_head[c] \notin freed
       /\ \A d \in Consumers \ {c} : cpc[d] = "delete" => old_head[d] # old_head[c]

IInv == TypeOK /\ Locked /\ Offering /\ TailLast /\ Balanced /\ Behind /\ DepthExact

\* TokensConserved, which TLC checks on an instance, is the balance proved here.
LEMMA BalancedIsConserved == TypeOK => (TokensConserved <=> Balanced)
<1> SUFFICES ASSUME TypeOK PROVE TokensConserved <=> Balanced
  OBVIOUS
<1>1. DOMAIN ppc = Producers /\ DOMAIN cpc = Consumers
  BY DEF TypeOK
<1> QED
  BY <1>1 DEF TokensConserved, Balanced, PushersAt, PoppersAt, Count, At,
     HoldsSlot, OwesItem, HoldsItem, OwesSlot

\* Counts are natural numbers, and a thread at work is counted.
LEMMA Counts ==
  ASSUME TypeOK
  PROVE  /\ IsFiniteSet(DOMAIN ppc) /\ IsFiniteSet(DOMAIN cpc)
         /\ DOMAIN ppc = Producers /\ DOMAIN cpc = Consumers
         /\ Count(ppc, HoldsSlot) \in Nat /\ Count(ppc, OwesItem) \in Nat
         /\ Count(cpc, HoldsItem) \in Nat /\ Count(cpc, OwesSlot) \in Nat
         /\ \A p \in Producers : ppc[p] \in HoldsSlot => Count(ppc, HoldsSlot) > 0
         /\ \A c \in Consumers : cpc[c] \in HoldsItem => Count(cpc, HoldsItem) > 0
<1>1. DOMAIN ppc = Producers /\ DOMAIN cpc = Consumers
  BY DEF TypeOK
<1> QED
  BY <1>1, CountType

\* What the balance says to a call: a push that holds a slot has room, a pop
\* that holds an item has a node behind the dummy, already passed by tail_.
LEMMA Room ==
  ASSUME TypeOK, TailLast, Balanced
  PROVE  /\ capacity \in Nat /\ Len(values) \in Nat /\ head \in Nat /\ tail \in Nat
         /\ head <= tail /\ tail <= Len(values)
         /\ capacity # 0 => Len(values) - head <= capacity
         /\ \A p \in Producers :
              ppc[p] \in HoldsSlot => capacity = 0 \/ Len(values) - head < capacity
         /\ \A c \in Consumers : cpc[c] \in HoldsItem => head < tail
<1>1. /\ capacity \in Nat /\ Len(values) \in Nat /\ head \in Nat /\ tail \in Nat
      /\ items \in Nat /\ slots \in Nat
  BY DEF TypeOK
<1>2. tail <= Len(values)
  BY <1>1 DEF TailLast
<1>3. /\ items + Count(cpc, HoldsItem) + Count(ppc, OwesItem) = tail - head
      /\ capacity # 0 =>
           slots + Count(ppc, HoldsSlot) + (Len(values) - head) + Count(cpc, OwesSlot) = capacity
  BY DEF Balanced
<1>4. /\ Count(ppc, HoldsSlot) \in Nat /\ Count(ppc, OwesItem) \in Nat
      /\ Count(cpc, HoldsItem) \in Nat /\ Count(cpc, OwesSlot) \in Nat
      /\ \A p \in Producers : ppc[p] \in HoldsSlot => Count(ppc, HoldsSlot) > 0
      /\ \A c \in Consumers : cpc[c] \in HoldsItem => Count(cpc, HoldsItem) > 0
  BY Counts
<1>5. head <= tail /\ \A c \in Consumers : cpc[c] \in HoldsItem => head < tail
  BY <1>1, <1>3, <1>4
<1>6. /\ capacity # 0 => Len(values) - head <= capacity
      /\ \A p \in Producers :
           ppc[p] \in HoldsSlot => capacity = 0 \/ Len(values) - head < capacity
  BY <1>1, <1>3, <1>4
<1> QED
  BY <1>1, <1>2, <1>5, <1>6

\* A producer moves from one place of push to another.
LEMMA PusherMoves ==
  ASSUME TypeOK, NEW p \in Producers, NEW pc, PushAt(p, pc)
  PROVE  /\ Count(ppc', HoldsSlot) = Count(ppc, HoldsSlot) + One(pc, HoldsSlot) - One(ppc[p], HoldsSlot)
         /\ Count(ppc', OwesItem) = Count(ppc, OwesItem) + One(pc, OwesItem) - One(ppc[p], OwesItem)
BY Counts, CountMove DEF PushAt

\* A consumer moves from one place of pop to another.
LEMMA PopperMoves ==
  ASSUME TypeOK, NEW c \in Consumers, NEW pc, PopAt(c, pc)
  PROVE  /\ Count(cpc', HoldsItem) = Count(cpc, HoldsItem) + One(pc, HoldsItem) - One(cpc[c], HoldsItem)
         /\ Count(cpc', OwesSlot) = Count(cpc, OwesSlot) + One(pc, OwesSlot) - One(cpc[c], OwesSlot)
BY Counts, CountMove DEF PopAt

\* Which places of a call count in the balance.
LEMMA Ones ==
  /\ \A pc : pc \in {"lock", "undo", "link"} => One(pc, HoldsSlot) = 1
  /\ \A pc : pc \in {"idle", "check", "slot", "full", "move", "signal", "ok", "no"} => One(pc, HoldsSlot) = 0
  /\ One("signal", OwesItem) = 1
  /\ \A pc : pc \in {"idle", "check", "slot", "full", "lock", "undo", "link", "move", "ok", "no"} => One(pc, OwesItem) = 0
  /\ One("unlink", HoldsItem) = 1
  /\ \A pc : pc \in {"idle", "take", "empty", "delete", "ok", "no"} => One(pc, HoldsItem) = 0
  /\ One("delete", OwesSlot) = 1
  /\ \A pc : pc \in {"idle", "take", "empty", "unlink", "ok", "no"} => One(pc, OwesSlot) = 0
BY DEF One, HoldsSlot, OwesItem, HoldsItem, OwesSlot

-----------------------------------------------------------------------------
(* The inductive invariant is one                                          *)

\* Before the first call the list is its dummy and every slot is free.
LEMMA InvInit == Init => IInv
<1> SUFFICES ASSUME Init PROVE IInv
  OBVIOUS
<1>1. closed \in BOOLEAN /\ stop \in [Flags -> BOOLEAN]
  BY DEF Init, Flags
<1>2. TypeOK
  BY <1>1 DEF Init, TypeOK, NoEvent
<1>3. /\ \A p \in Producers : ppc[p] = "idle"
      /\ \A c \in Consumers : cpc[c] = "idle"
  BY DEF Init
<1>4. Locked /\ Offering /\ Behind
  BY <1>3 DEF Init, Locked, Offering, Behind
<1>5. /\ Len(values) = 0 /\ tail = 0 /\ head = 0 /\ items = 0 /\ slots = capacity /\ freed = {}
      /\ depth = 0 /\ max_observed_depth = 0 /\ capacity \in Nat
  BY DEF Init
<1>6. TailLast
  BY <1>3, <1>5 DEF TailLast
<1>7. \A S \in {HoldsSlot, OwesItem} : Count(ppc, S) = 0
  BY CountNone DEF Init, HoldsSlot, OwesItem
<1>8. \A S \in {HoldsItem, OwesSlot} : Count(cpc, S) = 0
  BY CountNone DEF Init, HoldsItem, OwesSlot
<1>9. Balanced
  BY <1>5, <1>7, <1>8 DEF Balanced
<1>10. DepthExact
  BY <1>5 DEF DepthExact
<1> QED
  BY <1>2, <1>4, <1>6, <1>9, <1>10 DEF IInv

\* Neither end of the list, nor a slot, nor an item moves but in these steps.
LEMMA Frame ==
  ASSUME [Next]_vars
  PROVE  /\ capacity' = capacity /\ (closed => closed')
         /\ (\A p \in Producers : ~Link(p)) => values' = values
         /\ (\A p \in Producers : ~MoveTail(p)) => tail' = tail
         /\ (\A c \in Consumers : ~Unlink(c)) => head' = head
BY DEF Next, PushStep, PopStep, PushCall, CheckClosed, AcquireSlot, MissSlot, CheckFull,
   LockTail, Undo, Link, MoveTail, ReleaseItem, PushReturn, PopCall, AcquireItem, MissItem,
   CheckEmpty, Unlink, Release, PopReturn, Close, Stop, Finished, vars, list

\* A pop that holds an item always finds a node: the null branch is never taken.
LEMMA UnlinkTakes ==
  ASSUME IInv, NEW c \in Consumers, Unlink(c)
  PROVE  /\ head < tail /\ tail <= Len(values) /\ cpc[c] = "unlink"
         /\ values[head + 1] \in Events /\ depth > 0
         /\ old_head' = [old_head EXCEPT ![c] = head]
         /\ out' = [out EXCEPT ![c] = values[head + 1]]
         /\ head' = head + 1 /\ depth' = depth - 1
         /\ PopAt(c, "delete")
<1>1. cpc[c] = "unlink"
  BY DEF Unlink
<1>2. /\ head < tail /\ tail <= Len(values)
      /\ head \in Nat /\ tail \in Nat /\ Len(values) \in Nat
  BY <1>1, Room DEF IInv, HoldsItem
<1>3. values[head + 1] \in Events /\ depth > 0
  <2>1. values \in Seq(Events) /\ depth = tail - head
    BY DEF IInv, TypeOK, DepthExact
  <2>2. head + 1 \in 1 .. Len(values)
    BY <1>2
  <2> QED
    BY <1>2, <2>1, <2>2, ElementOfSeq
<1>4. head # Len(values)
  BY <1>2
<1> QED
  BY <1>1, <1>2, <1>3, <1>4 DEF Unlink

\* No step leaves the types: a pop that unlinks a node finds the depth positive.
LEMMA TypeStep == IInv /\ [Next]_vars => TypeOK'
<1> SUFFICES ASSUME IInv, [Next]_vars PROVE TypeOK'
  OBVIOUS
<1>a. /\ TypeOK /\ Offering /\ Flags = {"push", "pop"} /\ Len(values) \in Nat
  BY DEF IInv, TypeOK, Flags
<1> USE <1>a DEF TypeOK, tokens, list, depths, pushVars, popVars, NoEvent, PushAt, PopAt
<1>1. ASSUME NEW p \in Producers, PushCall(p) PROVE TypeOK'
  BY <1>1 DEF PushCall
<1>2. ASSUME NEW p \in Producers, CheckClosed(p) PROVE TypeOK'
  BY <1>2 DEF CheckClosed
<1>3. ASSUME NEW p \in Producers, AcquireSlot(p) PROVE TypeOK'
  BY <1>3 DEF AcquireSlot
<1>4. ASSUME NEW p \in Producers, MissSlot(p) PROVE TypeOK'
  BY <1>4 DEF MissSlot
<1>5. ASSUME NEW p \in Producers, CheckFull(p) PROVE TypeOK'
  BY <1>5 DEF CheckFull
<1>6. ASSUME NEW p \in Producers, LockTail(p) PROVE TypeOK'
  BY <1>6 DEF LockTail
<1>7. ASSUME NEW p \in Producers, Undo(p) PROVE TypeOK'
  BY <1>7 DEF Undo
<1>8. ASSUME NEW p \in Producers, Link(p) PROVE TypeOK'
  <2>1. values' \in Seq(Events)
    BY <1>8, AppendProperties DEF Link, Offering
  <2> QED
    BY <1>8, <2>1 DEF Link
<1>9. ASSUME NEW p \in Producers, MoveTail(p) PROVE TypeOK'
  BY <1>9 DEF MoveTail
<1>10. ASSUME NEW p \in Producers, ReleaseItem(p) PROVE TypeOK'
  BY <1>10 DEF ReleaseItem
<1>11. ASSUME NEW p \in Producers, PushReturn(p) PROVE TypeOK'
  BY <1>11 DEF PushReturn
<1>12. ASSUME NEW c \in Consumers, PopCall(c) PROVE TypeOK'
  BY <1>12 DEF PopCall
<1>13. ASSUME NEW c \in Consumers, AcquireItem(c) PROVE TypeOK'
  BY <1>13 DEF AcquireItem
<1>14. ASSUME NEW c \in Consumers, MissItem(c) PROVE TypeOK'
  BY <1>14 DEF MissItem
<1>15. ASSUME NEW c \in Consumers, CheckEmpty(c) PROVE TypeOK'
  BY <1>15 DEF CheckEmpty
<1>16. ASSUME NEW c \in Consumers, Unlink(c) PROVE TypeOK'
  <2>1. /\ head' = head + 1 /\ depth' = depth - 1 /\ depth > 0
        /\ old_head' = [old_head EXCEPT ![c] = head]
        /\ cpc' = [cpc EXCEPT ![c] = "delete"]
    BY <1>16, UnlinkTakes
  <2>2. out' \in [Consumers -> 0 .. MaxEvents]
    <3>1. values[head + 1] \in 0 .. MaxEvents
      BY <1>16, UnlinkTakes DEF Events
    <3> QED
      BY <1>16, <3>1, UnlinkTakes, ZenonT(30)
  <2>3. head' \in Nat /\ depth' \in Nat
    BY <2>1
  <2>4. /\ old_head' \in [Consumers -> Nat]
        /\ cpc' \in [Consumers -> {"idle", "take", "empty", "unlink", "delete", "ok", "no"}]
    BY <2>1
  <2> QED
    BY <1>16, <2>2, <2>3, <2>4 DEF Unlink
<1>17. ASSUME NEW c \in Consumers, Release(c) PROVE TypeOK'
  <2>1. freed' \subseteq Nat
    <3>1. old_head[c] \in Nat /\ freed \subseteq Nat
      OBVIOUS
    <3> QED
      BY <1>17, <3>1 DEF Release
  <2>2. slots' \in Nat
    BY <1>17 DEF Release
  <2> QED
    BY <1>17, <2>1, <2>2 DEF Release
<1>18. ASSUME NEW c \in Consumers, PopReturn(c) PROVE TypeOK'
  BY <1>18 DEF PopReturn
<1>19. CASE Close
  BY <1>19 DEF Close
<1>20. CASE Stop
  BY <1>20 DEF Stop
<1>21. CASE UNCHANGED vars
  BY <1>21 DEF vars
<1> QED
  BY <1>1, <1>2, <1>3, <1>4, <1>5, <1>6, <1>7, <1>8, <1>9, <1>10, <1>11, <1>12, <1>13,
     <1>14, <1>15, <1>16, <1>17, <1>18, <1>19, <1>20, <1>21
  DEF Next, PushStep, PopStep, Finished

\* tail_mu_ is taken only when nobody has it.
LEMMA LockedStep == IInv /\ [Next]_vars => Locked'
<1> SUFFICES ASSUME IInv, [Next]_vars PROVE Locked'
  OBVIOUS
<1>a. TypeOK /\ Locked
  BY DEF IInv
<1> USE <1>a DEF TypeOK, Locked, pushVars, PushAt
<1>1. ASSUME NEW p \in Producers, LockTail(p) PROVE Locked'
  BY <1>1 DEF LockTail
<1>2. ASSUME NEW p \in Producers, Undo(p) \/ MoveTail(p) PROVE Locked'
  <2>1. /\ tail_mu = p
        /\ \A q \in Producers : ppc'[q] \in {"undo", "link", "move"} => q # p /\ ppc'[q] = ppc[q]
    BY <1>2 DEF Undo, MoveTail
  <2> QED
    BY <2>1
<1>3. ASSUME NEW p \in Producers, Link(p) PROVE Locked'
  BY <1>3 DEF Link
<1>4. CASE \A p \in Producers : ~LockTail(p) /\ ~Undo(p) /\ ~MoveTail(p) /\ ~Link(p)
  <2>1. tail_mu' = tail_mu
    BY <1>4 DEF Next, PushStep, PopStep, PushCall, CheckClosed, AcquireSlot, MissSlot,
       CheckFull, ReleaseItem, PushReturn, PopCall, AcquireItem, MissItem, CheckEmpty, Unlink,
       Release, PopReturn, Close, Stop, Finished, vars
  <2>2. \A p \in Producers : ppc'[p] \in {"undo", "link", "move"} => ppc'[p] = ppc[p]
    BY <1>4 DEF Next, PushStep, PopStep, PushCall, CheckClosed, AcquireSlot, MissSlot,
       CheckFull, ReleaseItem, PushReturn, PopCall, AcquireItem, MissItem, CheckEmpty, Unlink,
       Release, PopReturn, Close, Stop, Finished, vars
  <2> QED
    BY <2>1, <2>2
<1> QED
  BY <1>1, <1>2, <1>3, <1>4

\* An event once offered stays, and so does the reason a push is where it is.
LEMMA OfferingStep == IInv /\ [Next]_vars => Offering'
<1> SUFFICES ASSUME IInv, [Next]_vars PROVE Offering'
  OBVIOUS
<1>a. TypeOK /\ Offering /\ capacity' = capacity /\ (closed => closed')
  BY Frame DEF IInv
<1>1. ASSUME NEW p \in Producers, PushCall(p) PROVE Offering'
  BY <1>a, <1>1 DEF PushCall, PushAt, Offering, TypeOK, Events
<1>2. ASSUME NEW p \in Producers, PushReturn(p) PROVE Offering'
  BY <1>a, <1>2 DEF PushReturn, PushAt, Offering, TypeOK
<1>3. CASE \A p \in Producers : ~PushCall(p) /\ ~PushReturn(p)
  <2>1. ev' = ev
    BY <1>3 DEF Next, PushStep, PopStep, CheckClosed, AcquireSlot, MissSlot, CheckFull,
       LockTail, Undo, Link, MoveTail, ReleaseItem, PopCall, AcquireItem, MissItem, CheckEmpty,
       Unlink, Release, PopReturn, Close, Stop, Finished, vars, pushVars
  <2>2. ASSUME NEW p \in Producers
        PROVE  /\ ppc'[p] # "idle" => ppc[p] # "idle"
               /\ ppc'[p] \in {"slot", "full"} => ppc[p] \in {"slot", "full"} \/ capacity # 0
               /\ ppc'[p] = "undo" => ppc[p] = "undo" \/ closed
    BY <1>a, <1>3 DEF Next, PushStep, PopStep, CheckClosed, AcquireSlot, MissSlot, CheckFull,
       LockTail, Undo, Link, MoveTail, ReleaseItem, PopCall, AcquireItem, MissItem, CheckEmpty,
       Unlink, Release, PopReturn, Close, Stop, Finished, vars, pushVars, PushAt, TypeOK
  <2> QED
    BY <1>a, <2>1, <2>2 DEF Offering
<1> QED
  BY <1>1, <1>2, <1>3

\* The node linked and not yet passed is the work of the one holder of tail_mu_.
LEMMA TailStep == IInv /\ [Next]_vars => TailLast'
<1> SUFFICES ASSUME IInv, [Next]_vars PROVE TailLast'
  OBVIOUS
<1>a. TypeOK /\ Locked /\ Offering /\ TailLast /\ Len(values) \in Nat /\ tail \in Nat
  BY DEF IInv, TypeOK
<1>1. ASSUME NEW p \in Producers, Link(p) PROVE TailLast'
  <2>1. \A q \in Producers : ppc[q] # "move"
    BY <1>a, <1>1 DEF Link, Locked
  <2>2. Len(values') = Len(values) + 1 /\ tail' = tail
    BY <1>a, <1>1, AppendProperties DEF Link, TypeOK, Offering
  <2>3. ppc'[p] = "move"
    BY <1>a, <1>1 DEF Link, PushAt, TypeOK
  <2> QED
    BY <1>a, <2>1, <2>2, <2>3 DEF TailLast
<1>2. ASSUME NEW p \in Producers, MoveTail(p) PROVE TailLast'
  <2>1. \A q \in Producers : ppc'[q] # "move"
    BY <1>a, <1>2 DEF MoveTail, PushAt, Locked, TypeOK
  <2> QED
    BY <1>2, <2>1 DEF MoveTail, TailLast
<1>3. CASE \A p \in Producers : ~Link(p) /\ ~MoveTail(p)
  <2>1. values' = values /\ tail' = tail
    BY <1>3, Frame
  <2>2. \A p \in Producers : ppc'[p] = "move" <=> ppc[p] = "move"
    BY <1>a, <1>3 DEF Next, PushStep, PopStep, PushCall, CheckClosed, AcquireSlot, MissSlot,
       CheckFull, LockTail, Undo, ReleaseItem, PushReturn, PopCall, AcquireItem, MissItem,
       CheckEmpty, Unlink, Release, PopReturn, Close, Stop, Finished, vars, pushVars, PushAt,
       TypeOK
  <2> QED
    BY <1>a, <2>1, <2>2 DEF TailLast
<1> QED
  BY <1>1, <1>2, <1>3

\* Whatever a call gives up it had, and whatever it takes it keeps or hands on.
LEMMA BalancedStep == IInv /\ [Next]_vars => Balanced'
<1> SUFFICES ASSUME IInv, [Next]_vars PROVE Balanced'
  OBVIOUS
<1>a. TypeOK /\ Balanced
  BY DEF IInv
<1>b. /\ capacity \in Nat /\ items \in Nat /\ slots \in Nat /\ head \in Nat /\ tail \in Nat /\ Len(values) \in Nat
      /\ Count(ppc, HoldsSlot) \in Nat /\ Count(ppc, OwesItem) \in Nat
      /\ Count(cpc, HoldsItem) \in Nat /\ Count(cpc, OwesSlot) \in Nat
  BY <1>a, Counts DEF TypeOK
<1> USE DEF Balanced, tokens, list, pushVars, popVars
<1>1. ASSUME NEW p \in Producers, PushCall(p) PROVE Balanced'
  BY <1>a, <1>b, <1>1, PusherMoves, Ones, SMTT(30) DEF PushCall
<1>2. ASSUME NEW p \in Producers, CheckClosed(p) PROVE Balanced'
  <2>1. CASE PushAt(p, "no") \/ PushAt(p, "slot")
    BY <1>a, <1>b, <1>2, <2>1, PusherMoves, Ones, SMTT(30) DEF CheckClosed
  <2>2. CASE PushAt(p, "lock") /\ capacity = 0
    BY <1>a, <1>b, <1>2, <2>2, PusherMoves, Ones, SMTT(30) DEF CheckClosed
  <2> QED
    BY <1>2, <2>1, <2>2 DEF CheckClosed
<1>3. ASSUME NEW p \in Producers, AcquireSlot(p) PROVE Balanced'
  BY <1>a, <1>b, <1>3, PusherMoves, Ones, SMTT(30) DEF AcquireSlot
<1>4. ASSUME NEW p \in Producers, MissSlot(p) PROVE Balanced'
  BY <1>a, <1>b, <1>4, PusherMoves, Ones, SMTT(30) DEF MissSlot
<1>5. ASSUME NEW p \in Producers, CheckFull(p) PROVE Balanced'
  BY <1>a, <1>b, <1>5, PusherMoves, Ones, SMTT(30) DEF CheckFull
<1>6. ASSUME NEW p \in Producers, LockTail(p) PROVE Balanced'
  BY <1>a, <1>b, <1>6, PusherMoves, Ones, SMTT(30) DEF LockTail
<1>7. ASSUME NEW p \in Producers, Undo(p) PROVE Balanced'
  <2>1. ppc[p] = "undo" /\ PushAt(p, "no")
    BY <1>7 DEF Undo
  <2>2. /\ Count(ppc', HoldsSlot) = Count(ppc, HoldsSlot) - 1
        /\ Count(ppc', OwesItem) = Count(ppc, OwesItem)
    <3>1. /\ One("no", HoldsSlot) = 0 /\ One("undo", HoldsSlot) = 1
          /\ One("no", OwesItem) = 0 /\ One("undo", OwesItem) = 0
      BY Ones
    <3>2. /\ Count(ppc', HoldsSlot) = Count(ppc, HoldsSlot) + 0 - 1
          /\ Count(ppc', OwesItem) = Count(ppc, OwesItem) + 0 - 0
      BY <1>a, <2>1, <3>1, PusherMoves
    <3> QED
      BY <1>b, <3>2
  <2>3. /\ UNCHANGED <<capacity, items, head, tail, values, cpc>>
        /\ capacity # 0 => slots' = slots + 1
    BY <1>7 DEF Undo
  <2>4. items' + Count(cpc', HoldsItem) + Count(ppc', OwesItem) = tail' - head'
    BY <1>a, <2>2, <2>3
  <2>5. capacity' # 0 => slots' + Count(ppc', HoldsSlot) + (Len(values') - head')
                              + Count(cpc', OwesSlot) = capacity'
    <3>1. capacity # 0 =>
            slots + Count(ppc, HoldsSlot) + (Len(values) - head) + Count(cpc, OwesSlot) = capacity
      BY <1>a
    <3>2. /\ capacity' = capacity /\ Len(values') = Len(values) /\ head' = head /\ cpc' = cpc
          /\ capacity # 0 => slots' = slots + 1
      BY <2>3
    <3> QED
      BY <1>b, <2>2, <3>1, <3>2
  <2> QED
    BY <2>4, <2>5
<1>8. ASSUME NEW p \in Producers, Link(p) PROVE Balanced'
  <2>1. Len(values') = Len(values) + 1
    BY <1>a, <1>8, AppendProperties DEF Link, TypeOK, IInv, Offering
  <2> QED
    BY <1>a, <1>b, <1>8, <2>1, PusherMoves, Ones, SMTT(30) DEF Link
<1>9. ASSUME NEW p \in Producers, MoveTail(p) PROVE Balanced'
  <2>1. tail' = tail + 1
    BY <1>9 DEF MoveTail, IInv, TailLast
  <2> QED
    BY <1>a, <1>b, <1>9, <2>1, PusherMoves, Ones, SMTT(30) DEF MoveTail
<1>10. ASSUME NEW p \in Producers, ReleaseItem(p) PROVE Balanced'
  BY <1>a, <1>b, <1>10, PusherMoves, Ones, SMTT(30) DEF ReleaseItem
<1>11. ASSUME NEW p \in Producers, PushReturn(p) PROVE Balanced'
  BY <1>a, <1>b, <1>11, PusherMoves, Ones, SMTT(30) DEF PushReturn
<1>12. ASSUME NEW c \in Consumers, PopCall(c) PROVE Balanced'
  BY <1>a, <1>b, <1>12, PopperMoves, Ones, SMTT(30) DEF PopCall
<1>13. ASSUME NEW c \in Consumers, AcquireItem(c) PROVE Balanced'
  <2>1. cpc[c] = "take" /\ items > 0 /\ PopAt(c, "unlink") /\ items' = items - 1
        /\ UNCHANGED <<capacity, slots, list, ppc>>
    BY <1>13 DEF AcquireItem
  <2>2. /\ Count(cpc', HoldsItem) = Count(cpc, HoldsItem) + 1
        /\ Count(cpc', OwesSlot) = Count(cpc, OwesSlot)
    BY <1>a, <1>b, <2>1, PopperMoves, Ones
  <2> QED
    BY <1>a, <1>b, <2>1, <2>2
<1>14. ASSUME NEW c \in Consumers, MissItem(c) PROVE Balanced'
  BY <1>a, <1>b, <1>14, PopperMoves, Ones, SMTT(30) DEF MissItem
<1>15. ASSUME NEW c \in Consumers, CheckEmpty(c) PROVE Balanced'
  BY <1>a, <1>b, <1>15, PopperMoves, Ones, SMTT(30) DEF CheckEmpty
<1>16. ASSUME NEW c \in Consumers, Unlink(c) PROVE Balanced'
  <2>1. cpc[c] = "unlink" /\ head' = head + 1 /\ PopAt(c, "delete")
    BY <1>16, UnlinkTakes
  <2>2. UNCHANGED <<capacity, items, slots, values, tail, ppc>>
    BY <1>16 DEF Unlink
  <2>3. /\ Count(cpc', HoldsItem) = Count(cpc, HoldsItem) - 1
        /\ Count(cpc', OwesSlot) = Count(cpc, OwesSlot) + 1
        /\ Count(ppc', HoldsSlot) = Count(ppc, HoldsSlot)
        /\ Count(ppc', OwesItem) = Count(ppc, OwesItem)
    <3>1. /\ One("delete", HoldsItem) = 0 /\ One("unlink", HoldsItem) = 1
          /\ One("delete", OwesSlot) = 1 /\ One("unlink", OwesSlot) = 0
      BY Ones
    <3>2. /\ Count(cpc', HoldsItem) = Count(cpc, HoldsItem) + 0 - 1
          /\ Count(cpc', OwesSlot) = Count(cpc, OwesSlot) + 1 - 0
      BY <1>a, <2>1, <3>1, PopperMoves
    <3> QED
      BY <1>b, <2>2, <3>2
  <2>4. items' + Count(cpc', HoldsItem) + Count(ppc', OwesItem) = tail' - head'
    <3>1. items' = items /\ tail' = tail /\ head' = head + 1
      BY <2>1, <2>2
    <3>2. items + Count(cpc, HoldsItem) + Count(ppc, OwesItem) = tail - head
      BY <1>a
    <3>3. items + (Count(cpc, HoldsItem) - 1) + Count(ppc, OwesItem) = tail - (head + 1)
      BY <1>b, <3>2
    <3> QED
      BY <2>3, <3>1, <3>3
  <2>5. capacity' # 0 => slots' + Count(ppc', HoldsSlot) + (Len(values') - head')
                              + Count(cpc', OwesSlot) = capacity'
    <3>1. /\ capacity' = capacity /\ slots' = slots /\ Len(values') = Len(values)
          /\ head' = head + 1
      BY <2>1, <2>2
    <3>2. capacity # 0 =>
            slots + Count(ppc, HoldsSlot) + (Len(values) - head) + Count(cpc, OwesSlot) = capacity
      BY <1>a
    <3>3. capacity # 0 =>
            slots + Count(ppc, HoldsSlot) + (Len(values) - (head + 1)) + (Count(cpc, OwesSlot) + 1)
              = capacity
      BY <1>b, <3>2
    <3> QED
      BY <2>3, <3>1, <3>3
  <2> QED
    BY <2>4, <2>5
<1>17. ASSUME NEW c \in Consumers, Release(c) PROVE Balanced'
  <2>1. capacity # 0 => slots' = slots + 1
    BY <1>17 DEF Release
  <2>2. cpc[c] = "delete" /\ PopAt(c, "ok") /\ UNCHANGED <<capacity, items, head, values, tail, ppc>>
    BY <1>17 DEF Release
  <2>3. /\ Count(cpc', HoldsItem) = Count(cpc, HoldsItem)
        /\ Count(cpc', OwesSlot) = Count(cpc, OwesSlot) - 1
        /\ Count(ppc', HoldsSlot) = Count(ppc, HoldsSlot)
        /\ Count(ppc', OwesItem) = Count(ppc, OwesItem)
    BY <1>a, <1>b, <2>2, PopperMoves, Ones
  <2> QED
    BY <1>a, <1>b, <2>1, <2>2, <2>3
<1>18. ASSUME NEW c \in Consumers, PopReturn(c) PROVE Balanced'
  BY <1>a, <1>b, <1>18, PopperMoves, Ones, SMTT(30) DEF PopReturn
<1>19. CASE Close \/ Stop \/ Finished \/ UNCHANGED vars
  BY <1>a, <1>19 DEF Close, Stop, Finished, vars
<1> QED
  BY <1>1, <1>2, <1>3, <1>4, <1>5, <1>6, <1>7, <1>8, <1>9, <1>10, <1>11, <1>12, <1>13,
     <1>14, <1>15, <1>16, <1>17, <1>18, <1>19
  DEF Next, PushStep, PopStep

\* A node has one owner from the pop that unlinks it to its deletion.
LEMMA BehindStep == IInv /\ [Next]_vars => Behind'
<1> SUFFICES ASSUME IInv, [Next]_vars PROVE Behind'
  OBVIOUS
<1>a. /\ TypeOK /\ Behind /\ head \in Nat /\ freed \subseteq Nat
      /\ cpc \in [Consumers -> {"idle", "take", "empty", "unlink", "delete", "ok", "no"}]
      /\ old_head \in [Consumers -> Nat]
  BY DEF IInv, TypeOK
<1>1. ASSUME NEW c \in Consumers, Unlink(c) PROVE Behind'
  <2>1. /\ head' = head + 1 /\ freed' = freed
        /\ \A d \in Consumers : /\ cpc'[d] = IF d = c THEN "delete" ELSE cpc[d]
                                /\ old_head'[d] = IF d = c THEN head ELSE old_head[d]
    BY <1>a, <1>1, UnlinkTakes DEF Unlink, PopAt
  <2>2. \A n \in Nat : n < head => n < head' /\ n # head
    BY <1>a, <2>1
  <2>3. head < head' /\ head \notin freed
    BY <1>a, <2>1 DEF Behind
  <2> QED
    BY <1>a, <2>1, <2>2, <2>3 DEF Behind
<1>2. ASSUME NEW c \in Consumers, Release(c) PROVE Behind'
  <2>1. /\ head' = head /\ freed' = freed \cup {old_head[c]} /\ old_head' = old_head
        /\ cpc[c] = "delete"
        /\ \A d \in Consumers : cpc'[d] = "delete" => d # c /\ cpc[d] = "delete"
    BY <1>a, <1>2 DEF Release, PopAt
  <2> QED
    BY <2>1, <1>a DEF Behind
<1>3. CASE \A c \in Consumers : ~Unlink(c) /\ ~Release(c)
  <2>1. head' = head /\ freed' = freed
    BY <1>3 DEF Next, PushStep, PopStep, PushCall, CheckClosed, AcquireSlot, MissSlot,
       CheckFull, LockTail, Undo, Link, MoveTail, ReleaseItem, PushReturn, PopCall, AcquireItem,
       MissItem, CheckEmpty, PopReturn, Close, Stop, Finished, vars, list
  <2>2. \A d \in Consumers : cpc'[d] = "delete" => cpc[d] = "delete" /\ old_head'[d] = old_head[d]
    BY <1>a, <1>3 DEF Next, PushStep, PopStep, PushCall, CheckClosed, AcquireSlot, MissSlot,
       CheckFull, LockTail, Undo, Link, MoveTail, ReleaseItem, PushReturn, PopCall, AcquireItem,
       MissItem, CheckEmpty, PopReturn, Close, Stop, Finished, vars, popVars, PopAt
  <2> QED
    BY <1>a, <2>1, <2>2 DEF Behind
<1> QED
  BY <1>1, <1>2, <1>3

\* The depth goes up with tail_ and down with head_, and the slots bound it.
LEMMA DepthStep == IInv /\ [Next]_vars => DepthExact'
<1> SUFFICES ASSUME IInv, [Next]_vars PROVE DepthExact'
  OBVIOUS
<1>a. /\ TypeOK /\ TailLast /\ Balanced /\ DepthExact
      /\ capacity \in Nat /\ head \in Nat /\ tail \in Nat /\ depth \in Nat
      /\ max_observed_depth \in Nat /\ Len(values) \in Nat /\ capacity' = capacity
      /\ capacity # 0 => Len(values) - head <= capacity
  BY Room, Frame DEF IInv, TypeOK
<1>1. ASSUME NEW p \in Producers, MoveTail(p) PROVE DepthExact'
  <2>1. tail' = tail + 1 /\ tail' = Len(values) /\ head' = head /\ depth' = depth + 1
    BY <1>a, <1>1 DEF MoveTail, TailLast
  <2>2. /\ depth' = tail' - head'
        /\ capacity # 0 => depth' <= capacity
    BY <1>a, <2>1 DEF DepthExact
  <2>3. max_observed_depth' = IF depth' > max_observed_depth THEN depth' ELSE max_observed_depth
    BY <1>1 DEF MoveTail
  <2>4. depth' \in Nat
    BY <1>a, <2>1
  <2>5. CASE depth' > max_observed_depth
    <3>1. max_observed_depth' = depth'
      BY <2>3, <2>5
    <3> QED
      BY <1>a, <2>2, <2>4, <3>1 DEF DepthExact
  <2>6. CASE ~(depth' > max_observed_depth)
    <3>1. max_observed_depth' = max_observed_depth /\ depth' <= max_observed_depth
      BY <1>a, <2>3, <2>4, <2>6
    <3> QED
      BY <1>a, <2>2, <3>1 DEF DepthExact
  <2> QED
    BY <2>5, <2>6
<1>2. ASSUME NEW c \in Consumers, Unlink(c) PROVE DepthExact'
  <2>1. /\ head' = head + 1 /\ depth' = depth - 1
        /\ tail' = tail /\ max_observed_depth' = max_observed_depth
    BY <1>2, UnlinkTakes DEF Unlink
  <2> QED
    BY <1>a, <2>1 DEF DepthExact
<1>3. CASE /\ \A p \in Producers : ~MoveTail(p)
           /\ \A c \in Consumers : ~Unlink(c)
  <2>1. UNCHANGED <<head, tail, depth, max_observed_depth>>
    BY <1>3 DEF Next, PushStep, PopStep, PushCall, CheckClosed, AcquireSlot, MissSlot,
       CheckFull, LockTail, Undo, Link, ReleaseItem, PushReturn, PopCall, AcquireItem, MissItem,
       CheckEmpty, Release, PopReturn, Close, Stop, Finished, vars, list, depths
  <2> QED
    BY <1>a, <2>1 DEF DepthExact
<1> QED
  BY <1>1, <1>2, <1>3

\* Together the seven parts are inductive.
LEMMA InvStep == IInv /\ [Next]_vars => IInv'
BY TypeStep, LockedStep, OfferingStep, TailStep, BalancedStep, BehindStep, DepthStep DEF IInv

\* The inductive invariant holds throughout.
THEOREM Invariance == Spec => []IInv
BY InvInit, InvStep, PTL DEF Spec

\* Every reachable state is well typed, for every capacity and set of threads.
THEOREM TypeCorrect == Spec => []TypeOK
<1>1. IInv => TypeOK
  BY DEF IInv
<1> QED
  BY <1>1, Invariance, PTL

\* No slot and no item is lost or made up, whoever gives up where.
THEOREM TokensCorrect == Spec => []TokensConserved
<1>1. IInv => TokensConserved
  BY BalancedIsConserved DEF IInv
<1> QED
  BY <1>1, Invariance, PTL

\* With no lock in common, a pop never meets the push that is linking, nor a
\* deleted node, and no node is deleted twice.
THEOREM ListCorrect == Spec => []ListSafe
<1>1. IInv => ListSafe
  <2> SUFFICES ASSUME IInv PROVE ListSafe
    OBVIOUS
  <2>1. TypeOK /\ TailLast /\ Balanced /\ Behind /\ head \in Nat /\ freed \subseteq Nat
    BY DEF IInv, TypeOK
  <2>2. \A c \in Consumers : cpc[c] = "unlink" => head < tail
    BY <2>1, Room DEF HoldsItem
  <2>3. freed \cap (head .. Len(values)) = {}
    BY <2>1 DEF Behind
  <2>4. \A c \in Consumers : cpc[c] = "delete" => old_head[c] # head
    BY <2>1 DEF Behind, TypeOK
  <2> QED
    BY <2>1, <2>2, <2>3, <2>4 DEF Behind, ListSafe
<1> QED
  BY <1>1, Invariance, PTL

\* depth_ is the length of the list although no lock guards both its ends.
THEOREM DepthCorrect == Spec => []DepthExact
<1>1. IInv => DepthExact
  BY DEF IInv
<1> QED
  BY <1>1, Invariance, PTL

-----------------------------------------------------------------------------
(* The list implements the contract of IEventQueue                         *)

\* What a caller sees of one call at place pc.
PushSeen(pc, b) ==
  CASE pc = "idle"                     -> "idle"
    [] pc \in {"move", "signal", "ok"} -> "accepted"
    [] pc = "no"                       -> "refused"
    [] OTHER                           -> b
PopSeen(pc) ==
  CASE pc = "idle"             -> "idle"
    [] pc \in {"delete", "ok"} -> "delivered"
    [] pc = "no"               -> "refused"
    [] OTHER                   -> "calling"

\* A push shows its policy until its node is linked.
LEMMA PushSeenAt ==
  ASSUME NEW b
  PROVE  /\ PushSeen("idle", b) = "idle" /\ PushSeen("no", b) = "refused"
         /\ \A pc \in {"move", "signal", "ok"} : PushSeen(pc, b) = "accepted"
         /\ \A pc \in {"check", "slot", "full", "lock", "undo", "link"} : PushSeen(pc, b) = b
BY DEF PushSeen

\* A pop shows nothing until its node is unlinked.
LEMMA PopSeenAt ==
  /\ PopSeen("idle") = "idle" /\ PopSeen("no") = "refused"
  /\ PopSeen("delete") = "delivered" /\ PopSeen("ok") = "delivered"
  /\ \A pc \in {"take", "empty", "unlink"} : PopSeen(pc) = "calling"
BY DEF PopSeen

\* When one thread moves, only what its own caller sees changes.
LEMMA PushPhaseMoves ==
  ASSUME TypeOK, NEW p \in Producers, NEW pc, NEW b, PushAt(p, pc),
         policy' = [policy EXCEPT ![p] = b]
  PROVE  /\ PushPhase[p] = PushSeen(ppc[p], policy[p])
         /\ PushPhase' = [PushPhase EXCEPT ![p] = PushSeen(pc, b)]
<1>1. PushPhase = [q \in Producers |-> PushSeen(ppc[q], policy[q])]
  BY DEF PushPhase, PushSeen
<1>2. PushPhase' = [q \in Producers |-> PushSeen(ppc'[q], policy'[q])]
  BY DEF PushPhase, PushSeen
<1>3. \A q \in Producers : /\ ppc'[q] = IF q = p THEN pc ELSE ppc[q]
                           /\ policy'[q] = IF q = p THEN b ELSE policy[q]
  BY DEF TypeOK, PushAt
<1> QED
  BY <1>1, <1>2, <1>3

\* The same of a pop.
LEMMA PopPhaseMoves ==
  ASSUME TypeOK, NEW c \in Consumers, NEW pc, PopAt(c, pc)
  PROVE  /\ PopPhase[c] = PopSeen(cpc[c])
         /\ PopPhase' = [PopPhase EXCEPT ![c] = PopSeen(pc)]
<1>1. PopPhase = [d \in Consumers |-> PopSeen(cpc[d])]
  BY DEF PopPhase, PopSeen
<1>2. PopPhase' = [d \in Consumers |-> PopSeen(cpc'[d])]
  BY DEF PopPhase, PopSeen
<1>3. \A d \in Consumers : cpc'[d] = IF d = c THEN pc ELSE cpc[d]
  BY DEF TypeOK, PopAt
<1> QED
  BY <1>1, <1>2, <1>3

\* The linked nodes behind the dummy are a sequence of events.
LEMMA LinkedType ==
  ASSUME TypeOK, head <= Len(values)
  PROVE  /\ Linked \in Seq(Events) /\ Len(Linked) = Len(values) - head
         /\ \A i \in 1 .. Len(values) - head : Linked[i] = values[head + i]
<1>1. values \in Seq(Events) /\ head \in Nat /\ Len(values) \in Nat
  BY DEF TypeOK
<1>2. \A i \in head + 1 .. Len(values) : values[i] \in Events
  BY <1>1, ElementOfSeq
<1>3. /\ Linked \in Seq(Events)
      /\ Len(Linked) = IF head + 1 <= Len(values) THEN Len(values) - (head + 1) + 1 ELSE 0
      /\ \A i \in 1 .. Len(values) - (head + 1) + 1 : Linked[i] = values[(head + 1) + i - 1]
  BY <1>1, <1>2, SubSeqProperties DEF Linked
<1>4. Len(Linked) = Len(values) - head
  <2>1. CASE head + 1 <= Len(values)
    BY <1>1, <1>3, <2>1
  <2>2. CASE head = Len(values)
    BY <1>1, <1>3, <2>2
  <2> QED
    BY <1>1, <2>1, <2>2
<1>5. \A i \in 1 .. Len(values) - head : Linked[i] = values[head + i]
  <2> TAKE i \in 1 .. Len(values) - head
  <2>1. i \in 1 .. Len(values) - (head + 1) + 1 /\ (head + 1) + i - 1 = head + i
    BY <1>1
  <2> QED
    BY <1>3, <2>1
<1> QED
  BY <1>3, <1>4, <1>5

\* Linking a node appends its event, and the slot it holds is the room for it.
LEMMA LinkedAppend ==
  ASSUME IInv, NEW p \in Producers, Link(p)
  PROVE  Linked' = Append(Linked, ev[p]) /\ (capacity = 0 \/ Len(Linked) < capacity)
<1>0. /\ TypeOK /\ head \in Nat /\ Len(values) \in Nat /\ head <= Len(values)
      /\ values \in Seq(Events) /\ ev[p] \in Events
  BY Room DEF IInv, TypeOK, Link, Offering
<1>1. capacity = 0 \/ Len(Linked) < capacity
  BY <1>0, Room, LinkedType DEF IInv, Link, HoldsSlot
<1>2. /\ head' = head /\ values' = Append(values, ev[p]) /\ values' \in Seq(Events)
      /\ Len(values') = Len(values) + 1 /\ values'[Len(values) + 1] = ev[p]
      /\ \A i \in 1 .. Len(values) : values'[i] = values[i]
  BY <1>0, AppendProperties DEF Link
<1>3. /\ Linked \in Seq(Events) /\ Len(Linked) = Len(values) - head
      /\ \A i \in 1 .. Len(values) - head : Linked[i] = values[head + i]
  BY <1>0, LinkedType
<1>4. /\ Append(Linked, ev[p]) \in Seq(Events)
      /\ Len(Append(Linked, ev[p])) = Len(values) - head + 1
      /\ \A i \in 1 .. Len(values) - head : Append(Linked, ev[p])[i] = Linked[i]
      /\ Append(Linked, ev[p])[Len(values) - head + 1] = ev[p]
  BY <1>0, <1>3, AppendProperties
<1>5. /\ Linked' \in Seq(Events) /\ Len(Linked') = Len(values) - head + 1
      /\ \A i \in 1 .. Len(values) - head + 1 : Linked'[i] = values'[head + i]
  <2>1. Linked' = SubSeq(values', head + 1, Len(values) + 1)
    BY <1>2 DEF Linked
  <2>2. \A i \in head + 1 .. Len(values) + 1 : values'[i] \in Events
    BY <1>0, <1>2, ElementOfSeq
  <2>3. /\ Linked' \in Seq(Events)
        /\ Len(Linked') = IF head + 1 <= Len(values) + 1 THEN (Len(values) + 1) - (head + 1) + 1 ELSE 0
        /\ \A i \in 1 .. (Len(values) + 1) - (head + 1) + 1 : Linked'[i] = values'[(head + 1) + i - 1]
    BY <1>0, <2>1, <2>2, SubSeqProperties
  <2>4. Len(Linked') = Len(values) - head + 1
    BY <1>0, <2>3
  <2>5. ASSUME NEW i \in 1 .. Len(values) - head + 1 PROVE Linked'[i] = values'[head + i]
    <3>1. i \in 1 .. (Len(values) + 1) - (head + 1) + 1 /\ (head + 1) + i - 1 = head + i
      BY <1>0
    <3> QED
      BY <2>3, <3>1
  <2> QED
    BY <2>3, <2>4, <2>5
<1>6. ASSUME NEW i \in 1 .. Len(values) - head + 1 PROVE Append(Linked, ev[p])[i] = Linked'[i]
  <2>1. CASE i = Len(values) - head + 1
    <3>1. head + i = Len(values) + 1
      BY <1>0, <2>1
    <3> QED
      BY <1>2, <1>4, <1>5, <2>1, <3>1
  <2>2. CASE i # Len(values) - head + 1
    <3>1. i \in 1 .. Len(values) - head /\ head + i \in 1 .. Len(values)
      BY <1>0, <2>2
    <3> QED
      BY <1>2, <1>3, <1>4, <1>5, <3>1
  <2> QED
    BY <2>1, <2>2
<1>7. Linked' = Append(Linked, ev[p])
  BY <1>4, <1>5, <1>6, SeqEqual
<1> QED
  BY <1>1, <1>7

\* Unlinking the node behind the dummy takes the oldest event.
LEMMA LinkedTail ==
  ASSUME IInv, NEW c \in Consumers, Unlink(c)
  PROVE  Linked # <<>> /\ Head(Linked) = values[head + 1] /\ Linked' = Tail(Linked)
<1>1. /\ TypeOK /\ values \in Seq(Events) /\ head \in Nat /\ tail \in Nat /\ Len(values) \in Nat
      /\ head < tail /\ tail <= Len(values) /\ head' = head + 1 /\ values' = values
  <2>1. TypeOK /\ TailLast /\ Balanced
    BY DEF IInv
  <2>2. values \in Seq(Events)
    BY <2>1 DEF TypeOK
  <2>3. head \in Nat /\ tail \in Nat /\ Len(values) \in Nat /\ tail <= Len(values)
    BY <2>1, Room
  <2>4. head < tail /\ head' = head + 1
    BY UnlinkTakes
  <2>5. values' = values
    BY DEF Unlink
  <2> QED
    BY <2>1, <2>2, <2>3, <2>4, <2>5
<1>2. Len(Linked) = Len(values) - head /\ Len(values) - head > 0 /\ head <= Len(values)
  BY <1>1, LinkedType
<1>3. head + 1 \in 1 .. Len(values) /\ Len(values) \in head + 1 .. Len(values)
  BY <1>1
<1>4. /\ Head(Linked) = values[head + 1]
      /\ Tail(Linked) = SubSeq(values, (head + 1) + 1, Len(values))
  BY <1>1, <1>3, HeadTailOfSubSeq DEF Linked
<1>5. Linked # <<>>
  BY <1>1, <1>2, LinkedType, EmptySeq
<1>6. Linked' = SubSeq(values, (head + 1) + 1, Len(values))
  BY <1>1 DEF Linked
<1> QED
  BY <1>4, <1>5, <1>6

\* The list that is its dummy is the empty queue.
LEMMA ContractInit == Init => EQ!Init
<1> SUFFICES ASSUME Init PROVE EQ!Init
  OBVIOUS
<1>1. values = <<>> /\ head = 0 /\ Len(values) = 0 /\ capacity \in Nat
  BY DEF Init
<1>2. Linked = <<>>
  BY <1>1, SubSeqEmpty DEF Linked
<1>3. PushPhase = [p \in Producers |-> "idle"] /\ PopPhase = [c \in Consumers |-> "idle"]
  BY DEF Init, PushPhase, PopPhase
<1> QED
  BY <1>1, <1>2, <1>3 DEF Init, EQ!Init, EQ!Flags, Flags

\* What a push that neither links nor returns changes of its caller's view.
LEMMA QuietPush ==
  ASSUME TypeOK, NEW p \in Producers, NEW pc, PushAt(p, pc), policy' = policy,
         PushSeen(pc, policy[p]) = PushSeen(ppc[p], policy[p])
  PROVE  PushPhase' = PushPhase
<1>1. policy' = [policy EXCEPT ![p] = policy[p]]
  BY DEF TypeOK
<1>2. /\ PushPhase[p] = PushSeen(ppc[p], policy[p])
      /\ PushPhase' = [PushPhase EXCEPT ![p] = PushSeen(pc, policy[p])]
  BY <1>1, PushPhaseMoves
<1> QED
  BY <1>2, ZenonT(30) DEF PushPhase

\* The same of a pop.
LEMMA QuietPop ==
  ASSUME TypeOK, NEW c \in Consumers, NEW pc, PopAt(c, pc), PopSeen(pc) = PopSeen(cpc[c])
  PROVE  PopPhase' = PopPhase
<1>1. PopPhase' = [PopPhase EXCEPT ![c] = PopPhase[c]]
  BY PopPhaseMoves
<1> QED
  BY <1>1, ZenonT(30) DEF PopPhase

\* A step of a producer is one of the contract or none that a caller sees.
LEMMA ContractPush ==
  ASSUME IInv, NEW p \in Producers, PushCall(p) \/ PushStep(p)
  PROVE  EQ!Next \/ UNCHANGED EQ!eqvars
<1>0. TypeOK /\ policy[p] \in EQ!Policies /\ policy' \in [Producers -> EQ!Policies]
  <2>1. TypeOK /\ TypeOK'
    BY TypeStep DEF IInv, Next
  <2> QED
    BY <2>1 DEF TypeOK, EQ!Policies
<1>1. PopPhase' = PopPhase /\ UNCHANGED <<capacity, out, stop, closed>>
  BY DEF PushStep, PushCall, CheckClosed, AcquireSlot, MissSlot, CheckFull, LockTail, Undo,
     Link, MoveTail, ReleaseItem, PushReturn, popVars, PopPhase
<1>2. ~Link(p) => Linked' = Linked
  BY DEF PushStep, PushCall, CheckClosed, AcquireSlot, MissSlot, CheckFull, LockTail, Undo,
     MoveTail, ReleaseItem, PushReturn, list, Linked
<1>3. ~PushCall(p) /\ ~PushReturn(p) => UNCHANGED <<ev, policy>> /\ policy' = [policy EXCEPT ![p] = policy[p]]
  BY <1>0 DEF PushStep, CheckClosed, AcquireSlot, MissSlot, CheckFull, LockTail, Undo, Link,
     MoveTail, ReleaseItem, TypeOK
<1>4. CASE PushCall(p)
  <2>1. PICK b \in EQ!Policies : policy' = [policy EXCEPT ![p] = b]
    BY <1>4 DEF PushCall, EQ!Policies
  <2>2. PushPhase[p] = "idle" /\ PushPhase' = [PushPhase EXCEPT ![p] = b]
    <3>1. ppc[p] = "idle" /\ PushAt(p, "check")
      BY <1>4 DEF PushCall
    <3>2. /\ PushPhase[p] = PushSeen("idle", policy[p])
          /\ PushPhase' = [PushPhase EXCEPT ![p] = PushSeen("check", b)]
      BY <1>0, <2>1, <3>1, PushPhaseMoves
    <3> QED
      BY <3>2, PushSeenAt
  <2>3. push_attempts' \in Events /\ ev' = [ev EXCEPT ![p] = push_attempts']
    BY <1>0, <1>4 DEF PushCall, TypeOK, Events
  <2>4. Linked' = Linked
    BY <1>2, <1>4 DEF PushCall, Link
  <2>5. EQ!PushCall(p)
    BY <1>1, <2>2, <2>3, <2>4 DEF EQ!PushCall
  <2> QED
    BY <2>5 DEF EQ!Next
<1>5. CASE AcquireSlot(p) \/ LockTail(p) \/ MoveTail(p) \/ ReleaseItem(p)
  <2>1. PushPhase' = PushPhase
    BY <1>0, <1>3, <1>5, QuietPush, PushSeenAt
       DEF AcquireSlot, LockTail, MoveTail, ReleaseItem, PushCall, PushReturn
  <2>2. UNCHANGED <<Linked, ev>>
    BY <1>2, <1>3, <1>5 DEF AcquireSlot, LockTail, MoveTail, ReleaseItem, Link, PushCall, PushReturn
  <2> QED
    BY <1>1, <2>1, <2>2 DEF EQ!eqvars
<1>6. CASE CheckClosed(p) \/ MissSlot(p) \/ CheckFull(p)
  <2>1. UNCHANGED <<Linked, ev>>
    BY <1>2, <1>3, <1>6 DEF CheckClosed, MissSlot, CheckFull, Link, PushCall, PushReturn
  <2>2. CASE PushAt(p, "no")
    <3>1. PushPhase[p] = policy[p] /\ PushPhase' = [PushPhase EXCEPT ![p] = "refused"]
      BY <1>0, <1>3, <1>6, <2>2, PushPhaseMoves, PushSeenAt
         DEF CheckClosed, MissSlot, CheckFull, PushCall, PushReturn
    <3>2. closed \/ stop["push"] \/ (policy[p] = "Drop" /\ capacity # 0)
      BY <1>0, <1>6, <2>2 DEF CheckClosed, MissSlot, CheckFull, PushAt, TypeOK, IInv, Offering
    <3>3. EQ!PushRefuse(p)
      BY <1>0, <1>1, <2>1, <3>1, <3>2 DEF EQ!PushRefuse
    <3> QED
      BY <3>3 DEF EQ!Next
  <2>3. CASE PushAt(p, "full") \/ PushAt(p, "slot") \/ PushAt(p, "lock")
    <3>1. PushPhase' = PushPhase
      BY <1>0, <1>3, <1>6, <2>3, QuietPush, PushSeenAt
         DEF CheckClosed, MissSlot, CheckFull, PushCall, PushReturn
    <3> QED
      BY <1>1, <2>1, <3>1 DEF EQ!eqvars
  <2> QED
    BY <1>6, <2>2, <2>3 DEF CheckClosed, MissSlot, CheckFull
<1>7. CASE Undo(p)
  <2>1. PushPhase[p] = policy[p] /\ PushPhase' = [PushPhase EXCEPT ![p] = "refused"]
    BY <1>0, <1>3, <1>7, PushPhaseMoves, PushSeenAt DEF Undo, PushCall, PushReturn
  <2>2. UNCHANGED <<Linked, ev>> /\ closed
    BY <1>2, <1>3, <1>7 DEF IInv, Offering, Undo, Link, PushCall, PushReturn
  <2>3. EQ!PushRefuse(p)
    BY <1>0, <1>1, <2>1, <2>2 DEF EQ!PushRefuse
  <2> QED
    BY <2>3 DEF EQ!Next
<1>8. CASE Link(p)
  <2>1. Linked' = Append(Linked, ev[p]) /\ (capacity = 0 \/ Len(Linked) < capacity)
    BY <1>8, LinkedAppend
  <2>2. PushPhase[p] = policy[p] /\ PushPhase' = [PushPhase EXCEPT ![p] = "accepted"] /\ ev' = ev
    BY <1>0, <1>3, <1>8, PushPhaseMoves, PushSeenAt DEF Link, PushCall, PushReturn
  <2>3. EQ!PushAccept(p)
    BY <1>0, <1>1, <2>1, <2>2 DEF EQ!PushAccept, EQ!HasRoom
  <2> QED
    BY <2>3 DEF EQ!Next
<1>9. CASE PushReturn(p)
  <2>1. /\ PushPhase[p] \in {"accepted", "refused"}
        /\ PushPhase' = [PushPhase EXCEPT ![p] = "idle"]
    <3>1. ppc[p] \in {"ok", "no"} /\ PushAt(p, "idle") /\ policy' = [policy EXCEPT ![p] = "Block"]
      BY <1>9 DEF PushReturn
    <3>2. /\ PushPhase[p] = PushSeen(ppc[p], policy[p])
          /\ PushPhase' = [PushPhase EXCEPT ![p] = PushSeen("idle", "Block")]
      BY <1>0, <3>1, PushPhaseMoves
    <3>3. PushSeen("idle", "Block") = "idle" /\ PushSeen(ppc[p], policy[p]) \in {"accepted", "refused"}
      BY <3>1, PushSeenAt
    <3> QED
      BY <3>2, <3>3
  <2>2. Linked' = Linked
    BY <1>2, <1>9 DEF PushReturn, Link
  <2>3. EQ!PushReturn(p)
    BY <1>1, <1>9, <2>1, <2>2 DEF PushReturn, EQ!PushReturn
  <2> QED
    BY <2>3 DEF EQ!Next
<1> QED
  BY <1>4, <1>5, <1>6, <1>7, <1>8, <1>9 DEF PushStep

\* A step of a consumer is one of the contract or none that a caller sees.
LEMMA ContractPop ==
  ASSUME IInv, NEW c \in Consumers, PopStep(c)
  PROVE  EQ!Next \/ UNCHANGED EQ!eqvars
<1>0. TypeOK
  BY DEF IInv
<1>1. PushPhase' = PushPhase /\ UNCHANGED <<capacity, ev, stop, closed>>
  BY DEF PopStep, PopCall, AcquireItem, MissItem, CheckEmpty, Unlink, Release, PopReturn,
     pushVars, PushPhase
<1>2. ~Unlink(c) => Linked' = Linked
  BY DEF PopStep, PopCall, AcquireItem, MissItem, CheckEmpty, Release, PopReturn, list, Linked
<1>3. CASE PopCall(c)
  <2>1. PopPhase[c] = "idle" /\ PopPhase' = [PopPhase EXCEPT ![c] = "calling"]
    BY <1>0, <1>3, PopPhaseMoves, PopSeenAt DEF PopCall
  <2>2. EQ!PopCall(c)
    BY <1>1, <1>2, <1>3, <2>1 DEF PopCall, Unlink, EQ!PopCall
  <2> QED
    BY <2>2 DEF EQ!Next
<1>4. CASE AcquireItem(c) \/ MissItem(c) \/ Release(c)
  <2>1. PopPhase' = PopPhase
    BY <1>0, <1>4, QuietPop, PopSeenAt DEF AcquireItem, MissItem, Release
  <2>2. UNCHANGED <<Linked, out>>
    BY <1>2, <1>4 DEF AcquireItem, MissItem, Release, Unlink
  <2> QED
    BY <1>1, <2>1, <2>2 DEF EQ!eqvars
<1>5. CASE CheckEmpty(c)
  <2>1. UNCHANGED <<Linked, out>>
    BY <1>2, <1>5 DEF CheckEmpty, Unlink
  <2>2. CASE closed \/ stop["pop"]
    <3>1. PopPhase[c] = "calling" /\ PopPhase' = [PopPhase EXCEPT ![c] = "refused"]
      BY <1>0, <1>5, <2>2, PopPhaseMoves, PopSeenAt DEF CheckEmpty
    <3>2. EQ!PopRefuse(c)
      BY <1>1, <2>1, <2>2, <3>1 DEF EQ!PopRefuse
    <3> QED
      BY <3>2 DEF EQ!Next
  <2>3. CASE ~(closed \/ stop["pop"])
    <3>1. PopPhase' = PopPhase
      BY <1>0, <1>5, <2>3, QuietPop, PopSeenAt DEF CheckEmpty
    <3> QED
      BY <1>1, <2>1, <3>1 DEF EQ!eqvars
  <2> QED
    BY <2>2, <2>3
<1>6. CASE Unlink(c)
  <2>1. /\ cpc[c] = "unlink" /\ PopAt(c, "delete")
        /\ out' = [out EXCEPT ![c] = values[head + 1]]
    BY <1>6, UnlinkTakes
  <2>2. PopPhase[c] = "calling" /\ PopPhase' = [PopPhase EXCEPT ![c] = "delivered"]
    BY <1>0, <2>1, PopPhaseMoves, PopSeenAt
  <2>3. Linked # <<>> /\ Head(Linked) = values[head + 1] /\ Linked' = Tail(Linked)
    BY <1>6, LinkedTail
  <2>4. EQ!PopDeliver(c)
    BY <1>1, <2>1, <2>2, <2>3 DEF EQ!PopDeliver
  <2> QED
    BY <2>4 DEF EQ!Next
<1>7. CASE PopReturn(c)
  <2>1. PopPhase[c] = "delivered" /\ PopPhase' = [PopPhase EXCEPT ![c] = "idle"]
    BY <1>0, <1>7, PopPhaseMoves, PopSeenAt DEF PopReturn
  <2>2. EQ!PopReturn(c)
    BY <1>1, <1>2, <1>7, <2>1 DEF PopReturn, Unlink, EQ!PopReturn
  <2> QED
    BY <2>2 DEF EQ!Next
<1> QED
  BY <1>3, <1>4, <1>5, <1>6, <1>7 DEF PopStep

\* Each step of the list is a step of the contract or changes nothing a caller sees.
LEMMA ContractStep == IInv /\ [Next]_vars => [EQ!Next]_(EQ!eqvars)
<1> SUFFICES ASSUME IInv, [Next]_vars PROVE EQ!Next \/ UNCHANGED EQ!eqvars
  OBVIOUS
<1>1. CASE Close \/ Stop \/ UNCHANGED vars
  <2>1. UNCHANGED <<capacity, Linked, PushPhase, ev, PopPhase, out>>
    BY <1>1 DEF Close, Stop, vars, list, pushVars, popVars, Linked, PushPhase, PopPhase
  <2>2. CASE Close
    BY <2>1, <2>2 DEF Close, EQ!Close, EQ!Next
  <2>3. CASE Stop
    <3>1. EQ!Stop
      BY <2>1, <2>3 DEF Stop, EQ!Stop, Flags, EQ!Flags
    <3> QED
      BY <3>1 DEF EQ!Next
  <2>4. CASE UNCHANGED vars
    BY <2>1, <2>4 DEF vars, EQ!eqvars
  <2> QED
    BY <1>1, <2>2, <2>3, <2>4
<1> QED
  BY <1>1, ContractPush, ContractPop DEF Next, Finished

\* Whatever the capacity and however many threads, the list behaves as the FIFO
\* IEventQueue promises, though its two ends share no lock: a push counts when
\* its node is linked, a pop when its node is unlinked.
THEOREM Refinement == Spec => Contract
BY ContractInit, ContractStep, Invariance, PTL DEF Spec, Contract, EQ!Spec
=============================================================================
