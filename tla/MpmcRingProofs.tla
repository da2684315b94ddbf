---------------------------- MODULE MpmcRingProofs ----------------------------
(***************************************************************************)
(* What holds of MpmcRing for every finite set of producers and consumers, *)
(* every capacity and every number of pushes.                              *)
(***************************************************************************)
EXTENDS MpmcRing, Counting, FiniteSetTheorems, SequenceTheorems, TLAPS

USE CapacitiesAssumption, MaxEventsAssumption, ScopesAssumption, ThreadsAssumption

-----------------------------------------------------------------------------
(* Threads at given places                                                 *)

\* A count is a natural number, and positive as soon as a thread is there.
LEMMA CountType ==
  ASSUME NEW pc, IsFiniteSet(DOMAIN pc), NEW S
  PROVE  /\ Count(pc, S) \in Nat
         /\ \A t \in DOMAIN pc : pc[t] \in S => Count(pc, S) > 0
<1>1. IsFiniteSet(At(pc, S)) /\ Count(pc, S) \in Nat
  BY FS_Subset, FS_CardinalityType DEF At, Count
<1>2. At(pc, S) # {} => Count(pc, S) # 0
  BY <1>1, FS_EmptySet DEF Count
<1> QED
  BY <1>1, <1>2 DEF At

\* No thread is anywhere: the count is zero.
LEMMA CountNone ==
  ASSUME NEW pc, NEW S, \A t \in DOMAIN pc : pc[t] \notin S
  PROVE  Count(pc, S) = 0
<1>1. At(pc, S) = {}
  BY DEF At
<1> QED
  BY <1>1, FS_EmptySet DEF Count

\* One thread moves: it leaves the count of where it was and enters that of
\* where it goes.
LEMMA CountMove ==
  ASSUME NEW pc, IsFiniteSet(DOMAIN pc), NEW S, NEW t \in DOMAIN pc, NEW to
  PROVE  Count([pc EXCEPT ![t] = to], S) = Count(pc, S) + One(to, S) - One(pc[t], S)
<1> DEFINE new == [pc EXCEPT ![t] = to]
<1> USE DEF One
<1>1. IsFiniteSet(At(pc, S)) /\ Count(pc, S) \in Nat
  BY FS_Subset, CountType DEF At
<1>2. CASE pc[t] \in S /\ to \notin S
  <2>1. At(new, S) = At(pc, S) \ {t} /\ t \in At(pc, S)
    BY <1>2 DEF At
  <2> QED
    <3>1. Cardinality(At(pc, S) \ {t}) = Cardinality(At(pc, S)) - 1
      BY <1>1, <2>1, FS_RemoveElement, Zenon
    <3>2. Count(new, S) = Count(pc, S) - 1
      BY <2>1, <3>1 DEF Count
    <3> QED
      BY <1>1, <1>2, <3>2
<1>3. CASE pc[t] \notin S /\ to \in S
  <2>1. At(new, S) = At(pc, S) \cup {t} /\ t \notin At(pc, S)
    BY <1>3 DEF At
  <2> QED
    <3>1. Count(new, S) = Count(pc, S) + 1
      BY <1>1, <2>1, FS_AddElement DEF Count
    <3> QED
      BY <1>1, <1>3, <3>1
<1>4. CASE pc[t] \in S <=> to \in S
  <2>1. At(new, S) = At(pc, S)
    BY <1>4 DEF At
  <2> QED
    <3>1. Count(new, S) = Count(pc, S)
      BY <2>1 DEF Count
    <3> QED
      BY <1>1, <1>4, <3>1
<1> QED
  BY <1>2, <1>3, <1>4

-----------------------------------------------------------------------------
(* Arithmetic of the ring                                                  *)

\* nextIndex stays in the buffer, and the cell at a distance is in it too.
LEMMA IndexType ==
  ASSUME capacity \in Capacities, head \in Cells, NEW a \in Cells, NEW i \in 0 .. capacity
  PROVE  /\ nextIndex(a) \in Cells
         /\ CellAt(i) \in Cells
         /\ CellAt(0) = head /\ CellAt(capacity) = head
         /\ i \in 1 .. capacity - 1 => CellAt(i) # head
         /\ i < capacity => nextIndex(CellAt(i)) = CellAt(i + 1)
BY DEF Cells, nextIndex, CellAt

\* Two distances that are not both ends of the ring lead to two cells.
LEMMA CellsApart ==
  ASSUME capacity \in Capacities, head \in Cells,
         NEW i \in 0 .. capacity, NEW j \in 0 .. capacity, i < j, j - i < capacity
  PROVE  CellAt(i) # CellAt(j)
BY DEF Cells, CellAt

-----------------------------------------------------------------------------
(* The inductive invariant                                                 *)

\* The calls that hold a slot, an item, or owe one to the other side.
HoldsSlot == {"check", "undo", "lock", "store"}
OwesItem  == {"signal"}
HoldsItem == {"lock", "load"}
OwesSlot  == {"give"}

\* Only the holder of a mutex is in its section.
Locked ==
  /\ \A p \in Producers : ppc[p] = "store" => tail_mu = p
  /\ \A c \in Consumers : cpc[c] = "load" => head_mu = c

\* TokensConserved, with its sets of threads counted by Count.
Balanced ==
  /\ items + Count(cpc, HoldsItem) + Count(ppc, OwesItem) = depth
  /\ slots_available + Count(ppc, HoldsSlot) + depth + Count(cpc, OwesSlot) = capacity

\* A push on its way back saw the queue closed or its stop flag, and both stay.
Refusing == \A p \in Producers : ppc[p] = "undo" => closed \/ stop["push"]

IInv == TypeOK /\ Locked /\ Balanced /\ DepthExact /\ Refusing

\* TokensConserved, which TLC checks on an instance, is the balance proved here.
LEMMA BalancedIsConserved == TypeOK => (TokensConserved <=> Balanced)
<1> SUFFICES ASSUME TypeOK PROVE TokensConserved <=> Balanced
  OBVIOUS
<1>1. DOMAIN ppc = Producers /\ DOMAIN cpc = Consumers
  BY DEF TypeOK
<1> QED
  BY <1>1 DEF TokensConserved, Balanced, PushersAt, PoppersAt, Count, At,
     HoldsSlot, OwesItem, HoldsItem, OwesSlot

\* Counts are natural numbers, and a thread at work is counted.
LEMMA Counts ==
  ASSUME TypeOK
  PROVE  /\ IsFiniteSet(DOMAIN ppc) /\ IsFiniteSet(DOMAIN cpc)
         /\ DOMAIN ppc = Producers /\ DOMAIN cpc = Consumers
         /\ Count(ppc, HoldsSlot) \in Nat /\ Count(ppc, OwesItem) \in Nat
         /\ Count(cpc, HoldsItem) \in Nat /\ Count(cpc, OwesSlot) \in Nat
         /\ \A p \in Producers : ppc[p] \in HoldsSlot => Count(ppc, HoldsSlot) > 0
         /\ \A p \in Producers : ppc[p] \in OwesItem => Count(ppc, OwesItem) > 0
         /\ \A c \in Consumers : cpc[c] \in HoldsItem => Count(cpc, HoldsItem) > 0
         /\ \A c \in Consumers : cpc[c] \in OwesSlot => Count(cpc, OwesSlot) > 0
<1>1. DOMAIN ppc = Producers /\ DOMAIN cpc = Consumers
  BY DEF TypeOK
<1> QED
  BY <1>1, CountType

\* What the balance says to a call: the ring has a free cell for a push that
\* holds a slot, and a full one for a pop that holds an item.
LEMMA Room ==
  ASSUME TypeOK, Balanced
  PROVE  /\ capacity \in Nat \ {0} /\ depth \in 0 .. capacity
         /\ \A p \in Producers : ppc[p] \in HoldsSlot => depth < capacity
         /\ \A c \in Consumers : cpc[c] \in HoldsItem => depth > 0
<1>1. capacity \in Nat \ {0} /\ depth \in Nat /\ items \in Nat /\ slots_available \in Nat
  BY DEF TypeOK
<1> QED
  BY <1>1, Counts DEF Balanced

\* A producer moves from one place of push to another.
LEMMA PusherMoves ==
  ASSUME TypeOK, NEW p \in Producers, NEW pc, PushAt(p, pc)
  PROVE  /\ Count(ppc', HoldsSlot) = Count(ppc, HoldsSlot) + One(pc, HoldsSlot) - One(ppc[p], HoldsSlot)
         /\ Count(ppc', OwesItem) = Count(ppc, OwesItem) + One(pc, OwesItem) - One(ppc[p], OwesItem)
BY Counts, CountMove DEF PushAt

\* A consumer moves from one place of pop to another.
LEMMA PopperMoves ==
  ASSUME TypeOK, NEW c \in Consumers, NEW pc, PopAt(c, pc)
  PROVE  /\ Count(cpc', HoldsItem) = Count(cpc, HoldsItem) + One(pc, HoldsItem) - One(cpc[c], HoldsItem)
         /\ Count(cpc', OwesSlot) = Count(cpc, OwesSlot) + One(pc, OwesSlot) - One(cpc[c], OwesSlot)
BY Counts, CountMove DEF PopAt

-----------------------------------------------------------------------------
(* The inductive invariant is one                                          *)

\* Before the first call nobody holds anything and every slot is free.
LEMMA InvInit == Init => IInv
<1> SUFFICES ASSUME Init PROVE IInv
  OBVIOUS
<1>1. buffer \in [Cells -> 0 .. MaxEvents] /\ head \in Cells /\ tail \in Cells
  BY DEF Init, Cells, NoEvent
<1>2. closed \in BOOLEAN /\ stop \in [Flags -> BOOLEAN]
  BY DEF Init, Flags
<1>3. TypeOK
  BY <1>1, <1>2 DEF Init, TypeOK, NoEvent
<1>4. Locked /\ Refusing
  BY DEF Init, Locked, Refusing
<1>5. \A S \in {HoldsSlot, OwesItem} : Count(ppc, S) = 0
  BY CountNone DEF Init, HoldsSlot, OwesItem
<1>6. \A S \in {HoldsItem, OwesSlot} : Count(cpc, S) = 0
  BY CountNone DEF Init, HoldsItem, OwesSlot
<1>7. Balanced
  BY <1>3, <1>5, <1>6 DEF Init, Balanced, TypeOK
<1>8. DepthExact
  BY <1>3 DEF Init, DepthExact, CellAt, TypeOK
<1> QED
  BY <1>3, <1>4, <1>7, <1>8 DEF IInv

\* No step leaves the types: a pop that reads a cell finds the depth positive.
LEMMA TypeStep == IInv /\ [Next]_vars => TypeOK'
<1> SUFFICES ASSUME IInv, [Next]_vars PROVE TypeOK'
  OBVIOUS
<1>a. TypeOK /\ Balanced /\ Flags = {"push", "pop"}
  BY DEF IInv, Flags
<1>b. nextIndex(head) \in Cells /\ nextIndex(tail) \in Cells
  BY <1>a, IndexType DEF TypeOK
<1>c. \A c \in Consumers : cpc[c] = "load" => depth > 0
  BY <1>a, Room DEF HoldsItem
<1> USE <1>a DEF TypeOK, ring, tokens, locks, pushVars, popVars, NoEvent, PushAt, PopAt, Cells
<1>1. ASSUME NEW p \in Producers, PushCall(p) PROVE TypeOK'
  BY <1>1 DEF PushCall
<1>2. ASSUME NEW p \in Producers, AcquireSlot(p) PROVE TypeOK'
  BY <1>2 DEF AcquireSlot
<1>3. ASSUME NEW p \in Producers, MissSlot(p) PROVE TypeOK'
  BY <1>3 DEF MissSlot
<1>4. ASSUME NEW p \in Producers, CheckFull(p) PROVE TypeOK'
  BY <1>4 DEF CheckFull
<1>5. ASSUME NEW p \in Producers, CheckClosed(p) PROVE TypeOK'
  BY <1>5 DEF CheckClosed
<1>6. ASSUME NEW p \in Producers, Undo(p) PROVE TypeOK'
  BY <1>6 DEF Undo
<1>7. ASSUME NEW p \in Producers, LockTail(p) PROVE TypeOK'
  BY <1>7 DEF LockTail
<1>8. ASSUME NEW p \in Producers, Store(p) PROVE TypeOK'
  <2>1. buffer' \in [Cells -> 0 .. MaxEvents] /\ depth' \in Nat /\ max_observed_depth' \in Nat
    BY <1>8, <1>b DEF Store
  <2> QED
    BY <1>8, <1>b, <2>1 DEF Store
<1>9. ASSUME NEW p \in Producers, ReleaseItem(p) PROVE TypeOK'
  BY <1>9 DEF ReleaseItem
<1>10. ASSUME NEW p \in Producers, PushReturn(p) PROVE TypeOK'
  BY <1>10 DEF PushReturn
<1>11. ASSUME NEW c \in Consumers, PopCall(c) PROVE TypeOK'
  BY <1>11 DEF PopCall
<1>12. ASSUME NEW c \in Consumers, AcquireItem(c) PROVE TypeOK'
  BY <1>12 DEF AcquireItem
<1>13. ASSUME NEW c \in Consumers, MissItem(c) PROVE TypeOK'
  BY <1>13 DEF MissItem
<1>14. ASSUME NEW c \in Consumers, CheckEmpty(c) PROVE TypeOK'
  BY <1>14 DEF CheckEmpty
<1>15. ASSUME NEW c \in Consumers, LockHead(c) PROVE TypeOK'
  BY <1>15 DEF LockHead
<1>16. ASSUME NEW c \in Consumers, Load(c) PROVE TypeOK'
  <2>1. out' \in [Consumers -> 0 .. MaxEvents]
    BY <1>16 DEF Load
  <2>2. depth' \in Nat
    BY <1>16, <1>c DEF Load
  <2> QED
    BY <1>16, <1>b, <2>1, <2>2 DEF Load
<1>17. ASSUME NEW c \in Consumers, ReleaseSlot(c) PROVE TypeOK'
  BY <1>17 DEF ReleaseSlot
<1>18. ASSUME NEW c \in Consumers, PopReturn(c) PROVE TypeOK'
  BY <1>18 DEF PopReturn
<1>19. CASE Close
  BY <1>19 DEF Close
<1>20. CASE Stop
  BY <1>20 DEF Stop
<1>21. CASE UNCHANGED vars
  BY <1>21 DEF vars
<1> QED
  BY <1>1, <1>2, <1>3, <1>4, <1>5, <1>6, <1>7, <1>8, <1>9, <1>10,
     <1>11, <1>12, <1>13, <1>14, <1>15, <1>16, <1>17, <1>18, <1>19, <1>20, <1>21
  DEF Next, PushStep, PopStep, Finished

\* A mutex is taken only when nobody has it.
LEMMA LockedStep == IInv /\ [Next]_vars => Locked'
<1> SUFFICES ASSUME IInv, [Next]_vars PROVE Locked'
  OBVIOUS
<1>a. TypeOK /\ Locked
  BY DEF IInv
<1> USE <1>a DEF TypeOK, Locked, locks, pushVars, popVars, PushAt, PopAt
<1>1. ASSUME NEW p \in Producers, PushCall(p) \/ PushStep(p), ~LockTail(p), ~Store(p) PROVE Locked'
  BY <1>1 DEF PushStep, PushCall, AcquireSlot, MissSlot, CheckFull, CheckClosed, Undo, ReleaseItem, PushReturn
<1>2. ASSUME NEW p \in Producers, LockTail(p) PROVE Locked'
  BY <1>2 DEF LockTail
<1>3. ASSUME NEW p \in Producers, Store(p) PROVE Locked'
  BY <1>3 DEF Store
<1>4. ASSUME NEW c \in Consumers, PopStep(c), ~LockHead(c), ~Load(c) PROVE Locked'
  BY <1>4 DEF PopStep, PopCall, AcquireItem, MissItem, CheckEmpty, ReleaseSlot, PopReturn
<1>5. ASSUME NEW c \in Consumers, LockHead(c) PROVE Locked'
  BY <1>5 DEF LockHead
<1>6. ASSUME NEW c \in Consumers, Load(c) PROVE Locked'
  BY <1>6 DEF Load
<1>7. CASE Close \/ Stop \/ Finished \/ UNCHANGED vars
  BY <1>7 DEF Close, Stop, Finished, vars
<1> QED
  BY <1>1, <1>2, <1>3, <1>4, <1>5, <1>6, <1>7 DEF Next

\* Which places of a call count in the balance.
LEMMA Ones ==
  /\ \A pc : pc \in {"check", "undo", "lock", "store"} => One(pc, HoldsSlot) = 1
  /\ \A pc : pc \in {"idle", "slot", "full", "signal", "ok", "no"} => One(pc, HoldsSlot) = 0
  /\ One("signal", OwesItem) = 1
  /\ \A pc : pc \in {"idle", "slot", "full", "check", "undo", "lock", "store", "ok", "no"} => One(pc, OwesItem) = 0
  /\ \A pc : pc \in {"lock", "load"} => One(pc, HoldsItem) = 1
  /\ \A pc : pc \in {"idle", "take", "empty", "give", "ok", "no"} => One(pc, HoldsItem) = 0
  /\ One("give", OwesSlot) = 1
  /\ \A pc : pc \in {"idle", "take", "empty", "lock", "load", "ok", "no"} => One(pc, OwesSlot) = 0
BY DEF One, HoldsSlot, OwesItem, HoldsItem, OwesSlot

\* Whatever a call gives up it had, and whatever it takes it keeps or hands on.
LEMMA BalancedStep == IInv /\ [Next]_vars => Balanced'
<1> SUFFICES ASSUME IInv, [Next]_vars PROVE Balanced'
  OBVIOUS
<1>a. TypeOK /\ Balanced
  BY DEF IInv
<1>b. /\ capacity \in Nat /\ depth \in Nat /\ items \in Nat /\ slots_available \in Nat
      /\ Count(ppc, HoldsSlot) \in Nat /\ Count(ppc, OwesItem) \in Nat
      /\ Count(cpc, HoldsItem) \in Nat /\ Count(cpc, OwesSlot) \in Nat
  BY <1>a, Counts DEF TypeOK
<1> USE DEF Balanced, ring, tokens, popVars, pushVars
<1>1. ASSUME NEW p \in Producers, PushCall(p) PROVE Balanced'
  BY <1>a, <1>b, <1>1, PusherMoves, Ones DEF PushCall
<1>2. ASSUME NEW p \in Producers, AcquireSlot(p) PROVE Balanced'
  BY <1>a, <1>b, <1>2, PusherMoves, Ones DEF AcquireSlot
<1>3. ASSUME NEW p \in Producers, MissSlot(p) PROVE Balanced'
  BY <1>a, <1>b, <1>3, PusherMoves, Ones DEF MissSlot
<1>4. ASSUME NEW p \in Producers, CheckFull(p) PROVE Balanced'
  BY <1>a, <1>b, <1>4, PusherMoves, Ones DEF CheckFull
<1>5. ASSUME NEW p \in Producers, CheckClosed(p) PROVE Balanced'
  BY <1>a, <1>b, <1>5, PusherMoves, Ones DEF CheckClosed
<1>6. ASSUME NEW p \in Producers, Undo(p) PROVE Balanced'
  BY <1>a, <1>b, <1>6, PusherMoves, Ones DEF Undo
<1>7. ASSUME NEW p \in Producers, LockTail(p) PROVE Balanced'
  BY <1>a, <1>b, <1>7, PusherMoves, Ones DEF LockTail
<1>8. ASSUME NEW p \in Producers, Store(p) PROVE Balanced'
  BY <1>a, <1>b, <1>8, PusherMoves, Ones DEF Store
<1>9. ASSUME NEW p \in Producers, ReleaseItem(p) PROVE Balanced'
  BY <1>a, <1>b, <1>9, PusherMoves, Ones DEF ReleaseItem
<1>10. ASSUME NEW p \in Producers, PushReturn(p) PROVE Balanced'
  BY <1>a, <1>b, <1>10, PusherMoves, Ones DEF PushReturn
<1>11. ASSUME NEW c \in Consumers, PopCall(c) PROVE Balanced'
  BY <1>a, <1>b, <1>11, PopperMoves, Ones DEF PopCall
<1>12. ASSUME NEW c \in Consumers, AcquireItem(c) PROVE Balanced'
  BY <1>a, <1>b, <1>12, PopperMoves, Ones DEF AcquireItem
<1>13. ASSUME NEW c \in Consumers, MissItem(c) PROVE Balanced'
  BY <1>a, <1>b, <1>13, PopperMoves, Ones DEF MissItem
<1>14. ASSUME NEW c \in Consumers, CheckEmpty(c) PROVE Balanced'
  BY <1>a, <1>b, <1>14, PopperMoves, Ones DEF CheckEmpty
<1>15. ASSUME NEW c \in Consumers, LockHead(c) PROVE Balanced'
  BY <1>a, <1>b, <1>15, PopperMoves, Ones DEF LockHead
<1>16. ASSUME NEW c \in Consumers, Load(c) PROVE Balanced'
  BY <1>a, <1>b, <1>16, PopperMoves, Ones DEF Load
<1>17. ASSUME NEW c \in Consumers, ReleaseSlot(c) PROVE Balanced'
  BY <1>a, <1>b, <1>17, PopperMoves, Ones DEF ReleaseSlot
<1>18. ASSUME NEW c \in Consumers, PopReturn(c) PROVE Balanced'
  BY <1>a, <1>b, <1>18, PopperMoves, Ones DEF PopReturn
<1>19. CASE Close \/ Stop \/ Finished \/ UNCHANGED vars
  BY <1>a, <1>19 DEF Close, Stop, Finished, vars
<1> QED
  BY <1>1, <1>2, <1>3, <1>4, <1>5, <1>6, <1>7, <1>8, <1>9, <1>10,
     <1>11, <1>12, <1>13, <1>14, <1>15, <1>16, <1>17, <1>18, <1>19
  DEF Next, PushStep, PopStep

\* The two indices stay depth_ cells apart, and the maximum follows depth_.
LEMMA DepthStep == IInv /\ [Next]_vars => DepthExact'
<1> SUFFICES ASSUME IInv, [Next]_vars PROVE DepthExact'
  OBVIOUS
<1>a. /\ TypeOK /\ Balanced /\ DepthExact
      /\ capacity \in Nat \ {0} /\ head \in 0 .. capacity - 1 /\ tail \in 0 .. capacity - 1
      /\ max_observed_depth \in Nat /\ depth \in 0 .. capacity
  BY Room DEF IInv, TypeOK, Cells
<1>1. ASSUME NEW p \in Producers, Store(p) PROVE DepthExact'
  <2>1. depth < capacity
    BY <1>a, <1>1, Room DEF Store, HoldsSlot
  <2> QED
    BY <1>a, <1>1, <2>1 DEF Store, DepthExact, CellAt, nextIndex
<1>2. ASSUME NEW c \in Consumers, Load(c) PROVE DepthExact'
  <2>1. depth > 0
    BY <1>a, <1>2, Room DEF Load, HoldsItem
  <2> QED
    BY <1>a, <1>2, <2>1 DEF Load, DepthExact, CellAt, nextIndex
<1>3. CASE /\ \A p \in Producers : ~Store(p)
           /\ \A c \in Consumers : ~Load(c)
  <2>1. UNCHANGED ring /\ capacity' = capacity
    BY <1>3 DEF Next, PushStep, PopStep, PushCall, AcquireSlot, MissSlot, CheckFull,
       CheckClosed, Undo, LockTail, ReleaseItem, PushReturn, PopCall, AcquireItem, MissItem,
       CheckEmpty, LockHead, ReleaseSlot, PopReturn, Close, Stop, Finished, vars
  <2> QED
    BY <1>a, <2>1 DEF DepthExact, CellAt, ring
<1> QED
  BY <1>1, <1>2, <1>3

\* Neither closed_ nor a stop flag is ever taken back.
LEMMA RefusingStep == IInv /\ [Next]_vars => Refusing'
<1> SUFFICES ASSUME IInv, [Next]_vars PROVE Refusing'
  OBVIOUS
<1>a. TypeOK /\ Refusing
  BY DEF IInv
<1>1. closed \/ stop["push"] => closed' \/ stop'["push"]
  BY <1>a DEF Next, PushStep, PopStep, PushCall, AcquireSlot, MissSlot, CheckFull, CheckClosed,
     Undo, LockTail, Store, ReleaseItem, PushReturn, PopCall, AcquireItem, MissItem, CheckEmpty,
     LockHead, Load, ReleaseSlot, PopReturn, Close, Stop, Finished, vars, Flags
<1>2. ASSUME NEW p \in Producers, ppc'[p] = "undo"
      PROVE  ppc[p] = "undo" \/ closed \/ stop["push"]
  BY <1>a, <1>2 DEF Next, PushStep, PopStep, PushCall, AcquireSlot, MissSlot, CheckFull,
     CheckClosed, Undo, LockTail, Store, ReleaseItem, PushReturn, PopCall, AcquireItem, MissItem,
     CheckEmpty, LockHead, Load, ReleaseSlot, PopReturn, Close, Stop, Finished, vars, pushVars,
     PushAt, TypeOK
<1> QED
  BY <1>a, <1>1, <1>2 DEF Refusing

\* Together the five parts are inductive.
LEMMA InvStep == IInv /\ [Next]_vars => IInv'
BY TypeStep, LockedStep, BalancedStep, DepthStep, RefusingStep DEF IInv

\* The inductive invariant holds throughout.
THEOREM Invariance == Spec => []IInv
BY InvInit, InvStep, PTL DEF Spec

\* Every reachable state is well typed, for every capacity and set of threads.
THEOREM TypeCorrect == Spec => []TypeOK
<1>1. IInv => TypeOK
  BY DEF IInv
<1> QED
  BY <1>1, Invariance, PTL

\* No slot and no item is lost or made up, whoever gives up where.
THEOREM TokensCorrect == Spec => []TokensConserved
<1>1. IInv => TokensConserved
  BY BalancedIsConserved DEF IInv
<1> QED
  BY <1>1, Invariance, PTL

\* The semaphores alone keep a writer and a reader off the same cell.
THEOREM CellsCorrect == Spec => []CellSafe
<1>1. IInv => CellSafe
  <2> SUFFICES ASSUME IInv PROVE CellSafe
    OBVIOUS
  <2>1. /\ TypeOK /\ Balanced /\ DepthExact /\ depth \in Nat /\ capacity \in Nat
        /\ head \in 0 .. capacity - 1
    BY DEF IInv, TypeOK, Cells
  <2>2. \A p \in Producers : ppc[p] = "store" => depth < capacity
    BY <2>1, Room DEF HoldsSlot
  <2>3. \A c \in Consumers : cpc[c] = "load" => depth > 0
    BY <2>1, Room DEF HoldsItem
  <2>4. depth > 0 /\ depth < capacity => head # tail
    BY <2>1 DEF DepthExact, CellAt
  <2> QED
    BY <2>2, <2>3, <2>4 DEF CellSafe
<1> QED
  BY <1>1, Invariance, PTL

\* depth_ is the distance between the indices although two mutexes guard it.
THEOREM DepthCorrect == Spec => []DepthExact
<1>1. IInv => DepthExact
  BY DEF IInv
<1> QED
  BY <1>1, Invariance, PTL

-----------------------------------------------------------------------------
(* The ring implements the contract of IEventQueue                         *)

\* What a caller sees of one call at place pc.
PushSeen(pc, b) ==
  CASE pc = "idle"             -> "idle"
    [] pc \in {"signal", "ok"} -> "accepted"
    [] pc = "no"               -> "refused"
    [] OTHER                   -> b
PopSeen(pc) ==
  CASE pc = "idle"           -> "idle"
    [] pc \in {"give", "ok"} -> "delivered"
    [] pc = "no"             -> "refused"
    [] OTHER                 -> "calling"

\* A push shows its policy until its cell is stored.
LEMMA PushSeenAt ==
  ASSUME NEW b
  PROVE  /\ PushSeen("idle", b) = "idle" /\ PushSeen("no", b) = "refused"
         /\ PushSeen("signal", b) = "accepted" /\ PushSeen("ok", b) = "accepted"
         /\ \A pc \in {"slot", "full", "check", "undo", "lock", "store"} : PushSeen(pc, b) = b
BY DEF PushSeen

\* A pop shows nothing until its cell is read.
LEMMA PopSeenAt ==
  /\ PopSeen("idle") = "idle" /\ PopSeen("no") = "refused"
  /\ PopSeen("give") = "delivered" /\ PopSeen("ok") = "delivered"
  /\ \A pc \in {"take", "empty", "lock", "load"} : PopSeen(pc) = "calling"
BY DEF PopSeen

\* When one thread moves, only what its own caller sees changes.
LEMMA PushPhaseMoves ==
  ASSUME TypeOK, NEW p \in Producers, NEW pc, NEW b, PushAt(p, pc),
         policy' = [policy EXCEPT ![p] = b]
  PROVE  /\ PushPhase[p] = PushSeen(ppc[p], policy[p])
         /\ PushPhase' = [PushPhase EXCEPT ![p] = PushSeen(pc, b)]
<1>1. PushPhase = [q \in Producers |-> PushSeen(ppc[q], policy[q])]
  BY DEF PushPhase, PushSeen
<1>2. PushPhase' = [q \in Producers |-> PushSeen(ppc'[q], policy'[q])]
  BY DEF PushPhase, PushSeen
<1>3. \A q \in Producers : /\ ppc'[q] = IF q = p THEN pc ELSE ppc[q]
                           /\ policy'[q] = IF q = p THEN b ELSE policy[q]
  BY DEF TypeOK, PushAt
<1> QED
  BY <1>1, <1>2, <1>3

\* The same of a pop.
LEMMA PopPhaseMoves ==
  ASSUME TypeOK, NEW c \in Consumers, NEW pc, PopAt(c, pc)
  PROVE  /\ PopPhase[c] = PopSeen(cpc[c])
         /\ PopPhase' = [PopPhase EXCEPT ![c] = PopSeen(pc)]
<1>1. PopPhase = [d \in Consumers |-> PopSeen(cpc[d])]
  BY DEF PopPhase, PopSeen
<1>2. PopPhase' = [d \in Consumers |-> PopSeen(cpc'[d])]
  BY DEF PopPhase, PopSeen
<1>3. \A d \in Consumers : cpc'[d] = IF d = c THEN pc ELSE cpc[d]
  BY DEF TypeOK, PopAt
<1> QED
  BY <1>1, <1>2, <1>3

\* The window is a sequence of depth_ events.
LEMMA WindowType ==
  ASSUME TypeOK, Balanced
  PROVE  /\ Window \in Seq(0 .. MaxEvents) /\ Len(Window) = depth
         /\ \A i \in 1 .. depth : Window[i] = buffer[CellAt(i - 1)]
<1>1. depth \in 0 .. capacity /\ capacity \in Nat /\ head \in Cells /\ capacity \in Capacities
  BY Room DEF TypeOK
<1>2. \A i \in 1 .. depth : buffer[CellAt(i - 1)] \in 0 .. MaxEvents
  <2> TAKE i \in 1 .. depth
  <2>1. CellAt(i - 1) \in Cells
    BY <1>1, IndexType
  <2> QED
    BY <2>1 DEF TypeOK
<1>3. Window \in Seq(0 .. MaxEvents) /\ Len(Window) = depth
  BY <1>1, <1>2, IsASeq, LenProperties DEF Window
<1> QED
  BY <1>3 DEF Window

\* Storing an event appends it: its cell is none of the window's.
LEMMA WindowAppend ==
  ASSUME IInv, NEW p \in Producers, Store(p)
  PROVE  Window' = Append(Window, ev[p]) /\ depth < capacity
<1>0. /\ TypeOK /\ Balanced /\ depth \in 0 .. capacity /\ capacity \in Nat \ {0}
      /\ head \in Cells /\ capacity \in Capacities /\ ev[p] \in 0 .. MaxEvents
  BY Room DEF IInv, TypeOK
<1>1. depth < capacity
  BY <1>0, Room DEF Store, HoldsSlot
<1>2. CellAt(depth) = tail
  BY <1>0, <1>1 DEF IInv, DepthExact
<1>3. /\ Append(Window, ev[p]) \in Seq(0 .. MaxEvents)
      /\ Len(Append(Window, ev[p])) = depth + 1
      /\ \A i \in 1 .. depth : Append(Window, ev[p])[i] = Window[i]
      /\ Append(Window, ev[p])[depth + 1] = ev[p]
  BY <1>0, WindowType, AppendProperties
<1>4. Window' = [i \in 1 .. depth + 1 |-> buffer'[CellAt(i - 1)]]
  BY DEF Store, Window, CellAt
<1>5. \A i \in 1 .. depth + 1 : Append(Window, ev[p])[i] = buffer'[CellAt(i - 1)]
  <2>1. buffer' = [buffer EXCEPT ![tail] = ev[p]] /\ buffer \in [Cells -> 0 .. MaxEvents]
    BY <1>0 DEF Store, TypeOK
  <2>2. ASSUME NEW i \in 1 .. depth PROVE Append(Window, ev[p])[i] = buffer'[CellAt(i - 1)]
    <3>1. CellAt(i - 1) # tail /\ CellAt(i - 1) \in Cells
      BY <1>0, <1>1, <1>2, IndexType, CellsApart
    <3> QED
      BY <1>0, <1>3, <2>1, <3>1, WindowType
  <2>3. ASSUME NEW i \in 1 .. depth + 1, i \notin 1 .. depth
        PROVE  Append(Window, ev[p])[i] = buffer'[CellAt(i - 1)]
    <3>1. tail \in Cells /\ i = depth + 1 /\ i - 1 = depth
      BY <1>0, <2>3 DEF TypeOK
    <3> QED
      BY <1>2, <1>3, <2>1, <3>1
  <2> QED
    BY <2>2, <2>3
<1>6. Append(Window, ev[p]) = [i \in 1 .. depth + 1 |-> Append(Window, ev[p])[i]]
  BY <1>3, LenProperties
<1> QED
  BY <1>1, <1>4, <1>5, <1>6

\* Loading takes the oldest event off the window.
LEMMA WindowTail ==
  ASSUME IInv, NEW c \in Consumers, Load(c)
  PROVE  Window # <<>> /\ Head(Window) = buffer[head] /\ Window' = Tail(Window)
<1>0. /\ TypeOK /\ Balanced /\ depth \in 0 .. capacity /\ capacity \in Nat \ {0}
      /\ head \in Cells /\ capacity \in Capacities
  BY Room DEF IInv, TypeOK
<1>1. depth > 0
  BY <1>0, Room DEF Load, HoldsItem
<1>2. Window \in Seq(0 .. MaxEvents) /\ Len(Window) = depth /\ Window # <<>>
  BY <1>0, <1>1, WindowType
<1>3. Head(Window) = buffer[head]
  BY <1>0, <1>1, <1>2, WindowType, IndexType
<1>4. /\ Tail(Window) \in Seq(0 .. MaxEvents)
      /\ Len(Tail(Window)) = depth - 1
      /\ \A i \in 1 .. depth - 1 : Tail(Window)[i] = Window[i + 1]
  BY <1>0, <1>1, <1>2
<1>5. Window' = [i \in 1 .. depth - 1 |-> buffer[CellAt(i - 1)']]
  BY <1>1 DEF Load, Window, CellAt
<1>6. \A i \in 1 .. depth - 1 : Tail(Window)[i] = buffer[CellAt(i - 1)']
  <2> TAKE i \in 1 .. depth - 1
  <2>1. i + 1 \in 1 .. depth /\ (i + 1) - 1 = i
    BY <1>0
  <2>2. CellAt(i - 1)' = CellAt(i)
    BY <1>0 DEF Load, CellAt, nextIndex, Cells
  <2> QED
    BY <1>0, <1>4, <2>1, <2>2, WindowType
<1>7. Tail(Window) = [i \in 1 .. depth - 1 |-> Tail(Window)[i]]
  BY <1>0, <1>4, LenProperties
<1> QED
  BY <1>2, <1>3, <1>5, <1>6, <1>7

\* The empty ring is the empty queue.
LEMMA ContractInit == Init => EQ!Init
<1> SUFFICES ASSUME Init PROVE EQ!Init
  OBVIOUS
<1>1. TypeOK /\ Balanced /\ depth = 0
  BY InvInit DEF IInv, Init
<1>2. Window = <<>> /\ capacity \in Nat
  BY <1>1, WindowType, Room
<1>3. PushPhase = [p \in Producers |-> "idle"] /\ PopPhase = [c \in Consumers |-> "idle"]
  BY DEF Init, PushPhase, PopPhase
<1> QED
  BY <1>2, <1>3 DEF Init, EQ!Init, EQ!Flags, Flags

\* What a push that neither stores nor returns changes of its caller's view.
LEMMA QuietPush ==
  ASSUME TypeOK, NEW p \in Producers, NEW pc, PushAt(p, pc), policy' = policy,
         PushSeen(pc, policy[p]) = PushSeen(ppc[p], policy[p])
  PROVE  PushPhase' = PushPhase
<1>1. policy' = [policy EXCEPT ![p] = policy[p]]
  BY DEF TypeOK
<1>2. /\ PushPhase[p] = PushSeen(ppc[p], policy[p])
      /\ PushPhase' = [PushPhase EXCEPT ![p] = PushSeen(pc, policy[p])]
  BY <1>1, PushPhaseMoves
<1> QED
  BY <1>2, ZenonT(30) DEF PushPhase

\* The same of a pop.
LEMMA QuietPop ==
  ASSUME TypeOK, NEW c \in Consumers, NEW pc, PopAt(c, pc), PopSeen(pc) = PopSeen(cpc[c])
  PROVE  PopPhase' = PopPhase
<1>1. PopPhase' = [PopPhase EXCEPT ![c] = PopPhase[c]]
  BY PopPhaseMoves
<1> QED
  BY <1>1, ZenonT(30) DEF PopPhase

\* A step of a producer is one of the contract or none that a caller sees.
LEMMA ContractPush ==
  ASSUME IInv, NEW p \in Producers, PushCall(p) \/ PushStep(p)
  PROVE  EQ!Next \/ UNCHANGED EQ!eqvars
<1>0. TypeOK /\ policy[p] \in EQ!Policies /\ policy' \in [Producers -> EQ!Policies]
  <2>1. TypeOK /\ TypeOK'
    BY TypeStep DEF IInv, Next
  <2> QED
    BY <2>1 DEF TypeOK, EQ!Policies
<1>1. PopPhase' = PopPhase /\ UNCHANGED <<capacity, out, stop, closed>>
  BY DEF PushStep, PushCall, AcquireSlot, MissSlot, CheckFull, CheckClosed, Undo, LockTail,
     Store, ReleaseItem, PushReturn, popVars, PopPhase
<1>2. ~Store(p) => Window' = Window
  BY DEF PushStep, PushCall, AcquireSlot, MissSlot, CheckFull, CheckClosed, Undo, LockTail,
     ReleaseItem, PushReturn, ring, Window, CellAt
<1>3. ~PushCall(p) /\ ~PushReturn(p) => UNCHANGED <<ev, policy>> /\ policy' = [policy EXCEPT ![p] = policy[p]]
  BY <1>0 DEF PushStep, AcquireSlot, MissSlot, CheckFull, CheckClosed, Undo, LockTail,
     Store, ReleaseItem, TypeOK
<1>4. CASE PushCall(p)
  <2>1. PICK b \in EQ!Policies : policy' = [policy EXCEPT ![p] = b]
    BY <1>4 DEF PushCall, EQ!Policies
  <2>2. PushPhase[p] = "idle" /\ PushPhase' = [PushPhase EXCEPT ![p] = b]
    <3>1. ppc[p] = "idle" /\ PushAt(p, "slot")
      BY <1>4 DEF PushCall
    <3>2. /\ PushPhase[p] = PushSeen("idle", policy[p])
          /\ PushPhase' = [PushPhase EXCEPT ![p] = PushSeen("slot", b)]
      BY <1>0, <2>1, <3>1, PushPhaseMoves
    <3> QED
      BY <3>2, PushSeenAt
  <2>3. push_attempts' \in Events /\ ev' = [ev EXCEPT ![p] = push_attempts']
    BY <1>0, <1>4 DEF PushCall, TypeOK, Events
  <2>4. Window' = Window
    BY <1>2, <1>4 DEF PushCall, Store
  <2>5. EQ!PushCall(p)
    BY <1>1, <2>2, <2>3, <2>4 DEF EQ!PushCall
  <2> QED
    BY <2>5 DEF EQ!Next
<1>5. CASE AcquireSlot(p) \/ CheckClosed(p) \/ LockTail(p) \/ ReleaseItem(p)
  <2>1. PushPhase' = PushPhase
    BY <1>0, <1>3, <1>5, QuietPush, PushSeenAt
       DEF AcquireSlot, CheckClosed, LockTail, ReleaseItem, PushCall, PushReturn
  <2>2. UNCHANGED <<Window, ev>>
    BY <1>2, <1>3, <1>5 DEF AcquireSlot, CheckClosed, LockTail, ReleaseItem, Store, PushCall, PushReturn
  <2> QED
    BY <1>1, <2>1, <2>2 DEF EQ!eqvars
<1>6. CASE MissSlot(p) \/ CheckFull(p)
  <2>1. UNCHANGED <<Window, ev>>
    BY <1>2, <1>3, <1>6 DEF MissSlot, CheckFull, Store, PushCall, PushReturn
  <2>2. CASE PushAt(p, "no")
    <3>1. PushPhase[p] = policy[p] /\ PushPhase' = [PushPhase EXCEPT ![p] = "refused"]
      BY <1>0, <1>3, <1>6, <2>2, PushPhaseMoves, PushSeenAt DEF MissSlot, CheckFull, PushCall, PushReturn
    <3>2. closed \/ stop["push"] \/ (policy[p] = "Drop" /\ capacity # 0)
      BY <1>0, <1>6, <2>2 DEF MissSlot, CheckFull, PushAt, TypeOK
    <3>3. EQ!PushRefuse(p)
      BY <1>0, <1>1, <2>1, <3>1, <3>2 DEF EQ!PushRefuse
    <3> QED
      BY <3>3 DEF EQ!Next
  <2>3. CASE PushAt(p, "full") \/ PushAt(p, "slot")
    <3>1. PushPhase' = PushPhase
      BY <1>0, <1>3, <1>6, <2>3, QuietPush, PushSeenAt DEF MissSlot, CheckFull, PushCall, PushReturn
    <3> QED
      BY <1>1, <2>1, <3>1 DEF EQ!eqvars
  <2> QED
    BY <1>6, <2>2, <2>3 DEF MissSlot, CheckFull
<1>7. CASE Undo(p)
  <2>1. PushPhase[p] = policy[p] /\ PushPhase' = [PushPhase EXCEPT ![p] = "refused"]
    BY <1>0, <1>3, <1>7, PushPhaseMoves, PushSeenAt DEF Undo, PushCall, PushReturn
  <2>2. UNCHANGED <<Window, ev>> /\ (closed \/ stop["push"])
    BY <1>2, <1>3, <1>7 DEF IInv, Refusing, Undo, Store, PushCall, PushReturn
  <2>3. EQ!PushRefuse(p)
    BY <1>0, <1>1, <2>1, <2>2 DEF EQ!PushRefuse
  <2> QED
    BY <2>3 DEF EQ!Next
<1>8. CASE Store(p)
  <2>1. Window' = Append(Window, ev[p]) /\ Len(Window) < capacity
    BY <1>8, WindowAppend, WindowType DEF IInv
  <2>2. PushPhase[p] = policy[p] /\ PushPhase' = [PushPhase EXCEPT ![p] = "accepted"] /\ ev' = ev
    BY <1>0, <1>3, <1>8, PushPhaseMoves, PushSeenAt DEF Store, PushCall, PushReturn
  <2>3. EQ!PushAccept(p)
    BY <1>0, <1>1, <2>1, <2>2 DEF EQ!PushAccept, EQ!HasRoom
  <2> QED
    BY <2>3 DEF EQ!Next
<1>9. CASE PushReturn(p)
  <2>1. /\ PushPhase[p] \in {"accepted", "refused"}
        /\ PushPhase' = [PushPhase EXCEPT ![p] = "idle"]
    <3>1. ppc[p] \in {"ok", "no"} /\ PushAt(p, "idle") /\ policy' = [policy EXCEPT ![p] = "Block"]
      BY <1>9 DEF PushReturn
    <3>2. /\ PushPhase[p] = PushSeen(ppc[p], policy[p])
          /\ PushPhase' = [PushPhase EXCEPT ![p] = PushSeen("idle", "Block")]
      BY <1>0, <3>1, PushPhaseMoves
    <3> QED
      BY <3>1, <3>2, PushSeenAt
  <2>2. Window' = Window
    BY <1>2, <1>9 DEF PushReturn, Store
  <2>3. EQ!PushReturn(p)
    BY <1>1, <1>9, <2>1, <2>2 DEF PushReturn, EQ!PushReturn
  <2> QED
    BY <2>3 DEF EQ!Next
<1> QED
  BY <1>4, <1>5, <1>6, <1>7, <1>8, <1>9 DEF PushStep

\* A step of a consumer is one of the contract or none that a caller sees.
LEMMA ContractPop ==
  ASSUME IInv, NEW c \in Consumers, PopStep(c)
  PROVE  EQ!Next \/ UNCHANGED EQ!eqvars
<1>0. TypeOK
  BY DEF IInv
<1>1. PushPhase' = PushPhase /\ UNCHANGED <<capacity, ev, stop, closed>>
  BY DEF PopStep, PopCall, AcquireItem, MissItem, CheckEmpty, LockHead, Load, ReleaseSlot,
     PopReturn, pushVars, PushPhase
<1>2. ~Load(c) => Window' = Window
  BY DEF PopStep, PopCall, AcquireItem, MissItem, CheckEmpty, LockHead, ReleaseSlot,
     PopReturn, ring, Window, CellAt
<1>3. CASE PopCall(c)
  <2>1. PopPhase[c] = "idle" /\ PopPhase' = [PopPhase EXCEPT ![c] = "calling"]
    BY <1>0, <1>3, PopPhaseMoves, PopSeenAt DEF PopCall
  <2>2. EQ!PopCall(c)
    BY <1>1, <1>2, <1>3, <2>1 DEF PopCall, Load, EQ!PopCall
  <2> QED
    BY <2>2 DEF EQ!Next
<1>4. CASE AcquireItem(c) \/ MissItem(c) \/ LockHead(c) \/ ReleaseSlot(c)
  <2>1. PopPhase' = PopPhase
    BY <1>0, <1>4, QuietPop, PopSeenAt DEF AcquireItem, MissItem, LockHead, ReleaseSlot
  <2>2. UNCHANGED <<Window, out>>
    BY <1>2, <1>4 DEF AcquireItem, MissItem, LockHead, ReleaseSlot, Load
  <2> QED
    BY <1>1, <2>1, <2>2 DEF EQ!eqvars
<1>5. CASE CheckEmpty(c)
  <2>1. UNCHANGED <<Window, out>>
    BY <1>2, <1>5 DEF CheckEmpty, Load
  <2>2. CASE closed \/ stop["pop"]
    <3>1. PopPhase[c] = "calling" /\ PopPhase' = [PopPhase EXCEPT ![c] = "refused"]
      BY <1>0, <1>5, <2>2, PopPhaseMoves, PopSeenAt DEF CheckEmpty
    <3>2. EQ!PopRefuse(c)
      BY <1>1, <2>1, <2>2, <3>1 DEF EQ!PopRefuse
    <3> QED
      BY <3>2 DEF EQ!Next
  <2>3. CASE ~(closed \/ stop["pop"])
    <3>1. PopPhase' = PopPhase
      BY <1>0, <1>5, <2>3, QuietPop, PopSeenAt DEF CheckEmpty
    <3> QED
      BY <1>1, <2>1, <3>1 DEF EQ!eqvars
  <2> QED
    BY <2>2, <2>3
<1>6. CASE Load(c)
  <2>1. PopPhase[c] = "calling" /\ PopPhase' = [PopPhase EXCEPT ![c] = "delivered"]
    BY <1>0, <1>6, PopPhaseMoves, PopSeenAt DEF Load
  <2>2. Window # <<>> /\ Head(Window) = buffer[head] /\ Window' = Tail(Window)
    BY <1>6, WindowTail
  <2>3. EQ!PopDeliver(c)
    BY <1>1, <1>6, <2>1, <2>2 DEF Load, EQ!PopDeliver
  <2> QED
    BY <2>3 DEF EQ!Next
<1>7. CASE PopReturn(c)
  <2>1. PopPhase[c] = "delivered" /\ PopPhase' = [PopPhase EXCEPT ![c] = "idle"]
    BY <1>0, <1>7, PopPhaseMoves, PopSeenAt DEF PopReturn
  <2>2. EQ!PopReturn(c)
    BY <1>1, <1>2, <1>7, <2>1 DEF PopReturn, Load, EQ!PopReturn
  <2> QED
    BY <2>2 DEF EQ!Next
<1> QED
  BY <1>3, <1>4, <1>5, <1>6, <1>7 DEF PopStep

\* Each step of the ring is a step of the contract or changes nothing a caller sees.
LEMMA ContractStep == IInv /\ [Next]_vars => [EQ!Next]_(EQ!eqvars)
<1> SUFFICES ASSUME IInv, [Next]_vars PROVE EQ!Next \/ UNCHANGED EQ!eqvars
  OBVIOUS
<1>1. CASE Close \/ Stop \/ UNCHANGED vars
  <2>1. UNCHANGED <<capacity, Window, PushPhase, ev, PopPhase, out>>
    BY <1>1 DEF Close, Stop, vars, ring, pushVars, popVars, Window, CellAt, PushPhase, PopPhase
  <2>2. CASE Close
    BY <2>1, <2>2 DEF Close, EQ!Close, EQ!Next
  <2>3. CASE Stop
    <3>1. EQ!Stop
      BY <2>1, <2>3 DEF Stop, EQ!Stop, Flags, EQ!Flags
    <3> QED
      BY <3>1 DEF EQ!Next
  <2>4. CASE UNCHANGED vars
    BY <2>1, <2>4 DEF vars, EQ!eqvars
  <2> QED
    BY <1>1, <2>2, <2>3, <2>4
<1> QED
  BY <1>1, ContractPush, ContractPop DEF Next, Finished

\* Whatever the capacity and however many threads, the ring behaves as the FIFO
\* IEventQueue promises: a push counts when its cell is stored, a pop when its
\* cell is loaded.
THEOREM Refinement == Spec => Contract
BY ContractInit, ContractStep, Invariance, PTL DEF Spec, Contract, EQ!Spec
=============================================================================
