------------------------- MODULE DirectPipelineProofs -------------------------
(***************************************************************************)
(* What holds of SpscRing for every capacity and every number of pushes;   *)
(* then of the direct pipeline, which uses its ring as SpscRing allows, so *)
(* that the theorems about the ring hold of it: a run accounts for every   *)
(* event.                                                                  *)
(***************************************************************************)
EXTENDS DirectPipeline, SequenceTheorems, FiniteSetTheorems, TLAPS

USE CapacityAssumption, MaxEventsAssumption, ScopesAssumption

-----------------------------------------------------------------------------
(* Arithmetic of the ring                                                  *)

\* nextIndex stays in the buffer and always moves.
LEMMA NextIndexType ==
  ASSUME NEW a \in Cells
  PROVE  nextIndex(a) \in Cells /\ nextIndex(a) # a
BY DEF Cells, nextIndex, RingCapacity

\* A distance never exceeds the capacity and is zero only from an index to itself.
LEMMA DistanceType ==
  ASSUME NEW a \in Cells, NEW b \in Cells
  PROVE  /\ Distance(a, b) \in 0 .. Capacity
         /\ Distance(a, b) = 0 <=> a = b
         /\ nextIndex(b) # a => Distance(a, b) < Capacity
BY DEF Cells, Distance, nextIndex, RingCapacity

\* Moving the far end of a window that is not full grows it by one cell.
LEMMA DistanceGrows ==
  ASSUME NEW a \in Cells, NEW b \in Cells, nextIndex(b) # a
  PROVE  Distance(a, nextIndex(b)) = Distance(a, b) + 1
BY DEF Cells, Distance, nextIndex, RingCapacity

\* Moving the near end of a window that is not empty shrinks it by one cell.
LEMMA DistanceShrinks ==
  ASSUME NEW a \in Cells, NEW b \in Cells, a # b
  PROVE  Distance(nextIndex(a), b) = Distance(a, b) - 1
BY DEF Cells, Distance, nextIndex, RingCapacity

\* The i-th cell of a window: where it starts, where it ends, and how it moves.
LEMMA CellAtFacts ==
  ASSUME NEW a \in Cells, NEW b \in Cells, NEW i \in 0 .. Capacity
  PROVE  /\ CellAt(a, i) \in Cells
         /\ CellAt(a, 0) = a
         /\ CellAt(a, Distance(a, b)) = b
         /\ i < Distance(a, b) => CellAt(a, i) # b
         /\ i < Capacity => CellAt(nextIndex(a), i) = CellAt(a, i + 1)
BY DEF Cells, CellAt, Distance, nextIndex, RingCapacity

-----------------------------------------------------------------------------
(* The inductive invariant                                                 *)

\* The head a push works with may be old, and the ring has only drained since.
SeenHeadInv ==
  /\ ppc \in {"write", "publish"} =>
       nextIndex(tail) # seen_head /\ Depth <= Distance(seen_head, tail)
  /\ ppc = "account" => seen_head # tail /\ Depth <= Distance(seen_head, tail)

\* The cell being filled holds the pushed event, the cell being emptied the popped one.
CellInv ==
  /\ ppc = "publish" => buffer[tail] = ev
  /\ cpc \in {"read", "advance"} => head # tail
  /\ cpc = "advance" => out = buffer[head]

IInv == TypeOK /\ SeenHeadInv /\ CellInv /\ DepthBounded /\ StatsBalance

-----------------------------------------------------------------------------
(* Type correctness                                                        *)

LEMMA TypeInit == Init => TypeOK
<1> SUFFICES ASSUME Init PROVE TypeOK
  OBVIOUS
<1>1. buffer \in [Cells -> 0 .. MaxEvents] /\ head \in Cells /\ tail \in Cells /\ seen_head \in Cells
  BY DEF Init, Cells, NoEvent
<1>2. closed \in BOOLEAN /\ stop \in [Flags -> BOOLEAN]
  BY DEF Init, Flags
<1> QED
  BY <1>1, <1>2 DEF Init, TypeOK, NoEvent

LEMMA TypeStep == TypeOK /\ [Next]_vars => TypeOK'
<1> SUFFICES ASSUME TypeOK, [Next]_vars PROVE TypeOK'
  OBVIOUS
<1> USE DEF TypeOK, queueVars, pushStats, pushVars, popVars, NoEvent
<1> nextIndex(head) \in Cells /\ nextIndex(tail) \in Cells
  BY NextIndexType
<1>1. CASE PushCall
  BY <1>1 DEF PushCall
<1>2. CASE CheckClosed
  BY <1>2 DEF CheckClosed
<1>3. CASE LoadHead
  BY <1>3 DEF LoadHead
<1>4. CASE WriteCell
  BY <1>4 DEF WriteCell
<1>5. CASE PublishTail
  BY <1>5 DEF PublishTail
<1>6. CASE Account
  <2>1. RecordedDepth(tail, seen_head) \in Nat
    BY DEF RecordedDepth, Cells, RingCapacity
  <2> QED
    BY <1>6, <2>1 DEF Account
<1>7. CASE PushReturn
  BY <1>7 DEF PushReturn
<1>8. CASE PopCall
  BY <1>8 DEF PopCall
<1>9. CASE LoadTail
  BY <1>9 DEF LoadTail
<1>10. CASE CheckStop
  BY <1>10 DEF CheckStop
<1>11. CASE ReadCell
  BY <1>11 DEF ReadCell
<1>12. CASE AdvanceHead
  BY <1>12 DEF AdvanceHead
<1>13. CASE CountPop
  BY <1>13 DEF CountPop
<1>14. CASE PopReturn
  BY <1>14 DEF PopReturn
<1>15. CASE Close
  BY <1>15 DEF Close
<1>16. CASE Stop
  BY <1>16 DEF Stop, Flags
<1>17. CASE UNCHANGED vars
  BY <1>17 DEF vars
<1> QED
  BY <1>1, <1>2, <1>3, <1>4, <1>5, <1>6, <1>7, <1>8, <1>9, <1>10, <1>11, <1>12,
     <1>13, <1>14, <1>15, <1>16, <1>17 DEF Next, PushStep, PopStep, Finished

\* Every reachable state is well typed, whatever the capacity.
THEOREM TypeCorrect == Spec => []TypeOK
<1> QED
  BY TypeInit, TypeStep, PTL DEF Spec

-----------------------------------------------------------------------------
(* The inductive invariant is one                                          *)

\* A window is empty, and every counter zero, before the first call.
LEMMA InvInit == Init => IInv
<1> SUFFICES ASSUME Init PROVE IInv
  OBVIOUS
<1>1. TypeOK
  BY TypeInit
<1>2. Depth = 0
  BY <1>1, DistanceType DEF Init, Depth, TypeOK
<1> QED
  BY <1>1, <1>2 DEF Init, IInv, SeenHeadInv, CellInv, DepthBounded, StatsBalance, UndecidedPush, UncountedPush, UncountedPop

\* Until a push publishes the tail, there is room for its event.
LEMMA RoomToPublish ==
  ASSUME SeenHeadInv, head \in Cells, tail \in Cells, seen_head \in Cells, ppc = "publish"
  PROVE  nextIndex(tail) # head
<1>1. nextIndex(tail) # seen_head /\ Distance(head, tail) <= Distance(seen_head, tail)
  BY DEF SeenHeadInv, Depth
<1>2. Distance(seen_head, tail) < Capacity /\ Distance(seen_head, tail) \in Nat
  BY <1>1, DistanceType
<1>3. Distance(head, tail) < Capacity
  BY <1>1, <1>2, DistanceType
<1> QED
  BY <1>3 DEF Distance, nextIndex, Cells, RingCapacity

\* How a step moves the indices, and what that does to the depth.
LEMMA DepthMoves ==
  ASSUME TypeOK, SeenHeadInv, CellInv, [Next]_vars
  PROVE  /\ Depth \in 0 .. Capacity
         /\ PublishTail => Depth' = Depth + 1
         /\ AdvanceHead => Depth' = Depth - 1
         /\ ~PublishTail /\ ~AdvanceHead => Depth' = Depth /\ head' = head /\ tail' = tail
<1>0. head \in Cells /\ tail \in Cells /\ seen_head \in Cells
  BY DEF TypeOK
<1>1. Depth \in 0 .. Capacity
  BY <1>0, DistanceType DEF Depth
<1>2. ASSUME PublishTail PROVE Depth' = Depth + 1
  <2>1. nextIndex(tail) # head
    BY <1>0, <1>2, RoomToPublish DEF PublishTail
  <2> QED
    BY <1>0, <1>2, <2>1, DistanceGrows DEF PublishTail, Depth
<1>3. ASSUME AdvanceHead PROVE Depth' = Depth - 1
  BY <1>0, <1>3, DistanceShrinks DEF AdvanceHead, CellInv, Depth
<1>4. ASSUME ~PublishTail, ~AdvanceHead PROVE Depth' = Depth /\ head' = head /\ tail' = tail
  BY <1>4 DEF Next, PushStep, PopStep, PushCall, CheckClosed, LoadHead, WriteCell,
     Account, PushReturn, PopCall, LoadTail, CheckStop, ReadCell, CountPop, PopReturn,
     Close, Stop, Finished, vars, queueVars, Depth
<1> QED
  BY <1>1, <1>2, <1>3, <1>4

\* An old head is behind the true one; a push that was told there is room has it.
LEMMA SeenHeadStep == IInv /\ [Next]_vars => SeenHeadInv'
<1> SUFFICES ASSUME IInv, [Next]_vars PROVE SeenHeadInv'
  OBVIOUS
<1>0. TypeOK /\ SeenHeadInv /\ CellInv /\ head \in Cells /\ tail \in Cells /\ seen_head \in Cells
  BY DEF IInv, TypeOK
<1>1. CASE LoadHead
  <2>1. ~PublishTail /\ ~AdvanceHead /\ Depth' = Depth /\ tail' = tail
    BY <1>0, <1>1, DepthMoves DEF LoadHead, PublishTail, AdvanceHead, pushVars
  <2>2. Depth \in Nat
    BY <1>0, DepthMoves
  <2> QED
    BY <1>0, <1>1, <2>1, <2>2 DEF LoadHead, SeenHeadInv, Depth
<1>2. CASE PublishTail
  <2>1. Distance(seen_head, nextIndex(tail)) = Distance(seen_head, tail) + 1 /\ Depth' = Depth + 1
    BY <1>0, <1>2, DistanceGrows, DepthMoves DEF SeenHeadInv, PublishTail
  <2>2. Distance(seen_head, tail) \in Nat /\ Depth \in Nat
    BY <1>0, DistanceType, DepthMoves
  <2> QED
    BY <1>0, <1>2, <2>1, <2>2 DEF SeenHeadInv, PublishTail
<1>3. CASE AdvanceHead
  <2>1. Depth' = Depth - 1 /\ Depth \in Nat /\ Distance(seen_head, tail) \in Nat
    BY <1>0, <1>3, DistanceType, DepthMoves
  <2> QED
    BY <1>0, <1>3, <2>1 DEF SeenHeadInv, AdvanceHead, pushVars
<1>4. CASE ~LoadHead /\ ~PublishTail /\ ~AdvanceHead
  <2>1. Depth' = Depth /\ tail' = tail
    BY <1>0, <1>4, DepthMoves
  <2>2. /\ seen_head' = seen_head
        /\ ppc' \in {"write", "publish", "account"} => ppc \in {"write", "publish", "account"}
        /\ ppc' = "account" => ppc = "account"
        /\ ppc' \in {"write", "publish"} => ppc \in {"write", "publish"}
    BY <1>4 DEF Next, PushStep, PopStep, PushCall, CheckClosed, WriteCell, Account,
       PushReturn, PopCall, LoadTail, CheckStop, ReadCell, CountPop, PopReturn,
       Close, Stop, Finished, vars, pushVars
  <2> QED
    BY <1>0, <2>1, <2>2 DEF SeenHeadInv
<1> QED
  BY <1>1, <1>2, <1>3, <1>4

\* The producer fills a cell outside the window, the consumer empties one inside it.
LEMMA CellStep == IInv /\ [Next]_vars => CellInv'
<1> SUFFICES ASSUME IInv, [Next]_vars PROVE CellInv'
  OBVIOUS
<1>0. TypeOK /\ SeenHeadInv /\ CellInv /\ head \in Cells /\ tail \in Cells /\ seen_head \in Cells
  BY DEF IInv, TypeOK
<1>1. CASE WriteCell
  <2>1. cpc \in {"read", "advance"} => buffer'[head] = buffer[head]
    BY <1>0, <1>1 DEF WriteCell, CellInv, TypeOK
  <2>2. buffer'[tail] = ev
    BY <1>0, <1>1 DEF WriteCell, TypeOK
  <2> QED
    BY <1>0, <1>1, <2>1, <2>2 DEF WriteCell, CellInv, pushVars, popVars
<1>2. CASE PublishTail
  <2>1. nextIndex(tail) # head
    BY <1>0, <1>2, RoomToPublish DEF PublishTail
  <2> QED
    BY <1>0, <1>2, <2>1 DEF PublishTail, CellInv, popVars
<1>3. CASE AdvanceHead
  BY <1>0, <1>3 DEF AdvanceHead, CellInv, pushVars
<1>4. CASE LoadTail
  BY <1>0, <1>4 DEF LoadTail, CellInv, queueVars, pushVars
<1>5. CASE ReadCell
  BY <1>0, <1>5 DEF ReadCell, CellInv, queueVars, pushVars
<1>6. CASE ~WriteCell /\ ~PublishTail /\ ~AdvanceHead /\ ~LoadTail /\ ~ReadCell
  <2>1. /\ buffer' = buffer /\ head' = head /\ tail' = tail
        /\ ppc' # "publish"  \/ (ppc' = ppc /\ ev' = ev)
        /\ cpc' \notin {"read", "advance"} \/ (cpc' = cpc /\ out' = out)
    BY <1>6 DEF Next, PushStep, PopStep, PushCall, CheckClosed, LoadHead, Account,
       PushReturn, PopCall, CheckStop, CountPop, PopReturn, Close, Stop, Finished,
       vars, queueVars, pushVars, popVars
  <2> QED
    BY <1>0, <2>1 DEF CellInv
<1> QED
  BY <1>1, <1>2, <1>3, <1>4, <1>5, <1>6

\* What a push records lies between the depth it left behind and the capacity.
LEMMA DepthStep == IInv /\ [Next]_vars => DepthBounded'
<1> SUFFICES ASSUME IInv, [Next]_vars PROVE DepthBounded'
  OBVIOUS
<1>0. /\ TypeOK /\ SeenHeadInv /\ CellInv /\ DepthBounded
      /\ tail \in Cells /\ seen_head \in Cells /\ max_observed_depth \in Nat
  BY DEF IInv, TypeOK
<1>1. Depth \in 0 .. Capacity
  BY <1>0, DepthMoves
<1>2. CASE Account
  <2>1. RecordedDepth(tail, seen_head) = Distance(seen_head, tail)
    BY <1>0, <1>2 DEF Account, SeenHeadInv, RecordedDepth, Distance, Cells, RingCapacity
  <2>2. Depth <= Distance(seen_head, tail) /\ Distance(seen_head, tail) \in 0 .. Capacity
    BY <1>0, <1>2, DistanceType DEF Account, SeenHeadInv
  <2>3. Depth' = Depth
    BY <1>0, <1>2, DepthMoves DEF Account, PublishTail, AdvanceHead, popVars
  <2>4. max_observed_depth' = IF Distance(seen_head, tail) > max_observed_depth
                                THEN Distance(seen_head, tail) ELSE max_observed_depth
    BY <1>2, <2>1 DEF Account
  <2>5. max_observed_depth' <= Capacity /\ Depth <= max_observed_depth'
    BY <1>0, <1>1, <2>2, <2>4 DEF DepthBounded
  <2> QED
    BY <2>3, <2>5 DEF DepthBounded
<1>3. CASE PublishTail
  BY <1>0, <1>3 DEF PublishTail, DepthBounded, pushStats
<1>4. CASE ~Account /\ ~PublishTail
  <2>1. Depth' <= Depth /\ Depth' \in Int
    BY <1>0, <1>1, <1>4, DepthMoves
  <2>2. max_observed_depth' = max_observed_depth /\ (ppc' # "account" => ppc # "account")
    BY <1>4 DEF Next, PushStep, PopStep, PushCall, CheckClosed, LoadHead, WriteCell,
       PushReturn, PopCall, LoadTail, CheckStop, ReadCell, AdvanceHead, CountPop,
       PopReturn, Close, Stop, Finished, vars, pushStats, pushVars
  <2> QED
    BY <1>0, <1>1, <2>1, <2>2 DEF DepthBounded
<1> QED
  BY <1>2, <1>3, <1>4

\* Every counter moves together with the index whose move it counts.
LEMMA StatsStep == IInv /\ [Next]_vars => StatsBalance'
<1> SUFFICES ASSUME IInv, [Next]_vars PROVE StatsBalance'
  OBVIOUS
<1>0. /\ TypeOK /\ SeenHeadInv /\ CellInv /\ StatsBalance
      /\ push_attempts \in Nat /\ push_success \in Nat /\ push_fail \in Nat /\ pop_success \in Nat
  BY DEF IInv, TypeOK
<1>1. Depth \in Nat
  BY <1>0, DepthMoves
<1>2. CASE PublishTail
  <2>1. Depth' = Depth + 1
    BY <1>0, <1>2, DepthMoves
  <2> QED
    BY <1>0, <1>1, <1>2, <2>1 DEF PublishTail, StatsBalance, UndecidedPush, UncountedPush, UncountedPop,
        pushStats, popVars
<1>3. CASE AdvanceHead
  <2>1. Depth' = Depth - 1
    BY <1>0, <1>3, DepthMoves
  <2> QED
    BY <1>0, <1>1, <1>3, <2>1 DEF AdvanceHead, StatsBalance, UndecidedPush, UncountedPush, UncountedPop,
        pushStats, pushVars
<1>4. CASE ~PublishTail /\ ~AdvanceHead
  <2>1. Depth' = Depth
    BY <1>0, <1>4, DepthMoves
  <2>2. push_attempts = push_success + push_fail + UndecidedPush
          => push_attempts' = push_success' + push_fail' + UndecidedPush'
    BY <1>0, <1>4 DEF Next, PushStep, PopStep, PushCall, CheckClosed, LoadHead,
       WriteCell, Account, PushReturn, PopCall, LoadTail, CheckStop, ReadCell, CountPop,
       PopReturn, Close, Stop, Finished, vars, pushStats, pushVars, UndecidedPush, UncountedPush, UncountedPop
  <2>3. /\ push_success' + UncountedPush' = push_success + UncountedPush
        /\ pop_success' + UncountedPop' = pop_success + UncountedPop
    BY <1>0, <1>4 DEF Next, PushStep, PopStep, PushCall, CheckClosed, LoadHead,
       WriteCell, Account, PushReturn, PopCall, LoadTail, CheckStop, ReadCell, CountPop,
       PopReturn, Close, Stop, Finished, vars, pushStats, pushVars, popVars, UndecidedPush, UncountedPush, UncountedPop
  <2>4. TypeOK'
    BY <1>0, TypeStep
  <2>5. push_attempts' \in Nat /\ push_success' \in Nat /\ push_fail' \in Nat /\ pop_success' \in Nat
    BY <2>4 DEF TypeOK
  <2>6. /\ UndecidedPush \in Nat /\ UncountedPush \in Nat /\ UncountedPop \in Nat
        /\ UndecidedPush' \in Nat /\ UncountedPush' \in Nat /\ UncountedPop' \in Nat
    BY DEF UndecidedPush, UncountedPush, UncountedPop
  <2>7. /\ push_attempts = push_success + push_fail + UndecidedPush
        /\ push_success + UncountedPush = pop_success + UncountedPop + Depth
    BY <1>0 DEF StatsBalance
  <2>8. push_attempts' = push_success' + push_fail' + UndecidedPush'
    BY <2>2, <2>7
  <2>9. push_success' + UncountedPush' = pop_success' + UncountedPop' + Depth'
    BY <1>0, <1>1, <2>1, <2>3, <2>5, <2>6, <2>7
  <2> QED
    BY <2>8, <2>9 DEF StatsBalance
<1> QED
  BY <1>2, <1>3, <1>4

LEMMA InvStep == IInv /\ [Next]_vars => IInv'
BY TypeStep, SeenHeadStep, CellStep, DepthStep, StatsStep DEF IInv

\* The inductive invariant holds throughout.
THEOREM Invariance == Spec => []IInv
BY InvInit, InvStep, PTL DEF Spec

\* push and pop never reach for the same cell at once.
THEOREM RaceFree == Spec => []CellRaceFree
<1>1. IInv => CellRaceFree
  <2> SUFFICES ASSUME IInv, ppc = "write", cpc = "read", head = tail PROVE FALSE
    BY DEF CellRaceFree
  <2> QED
    BY DEF IInv, CellInv
<1> QED
  BY <1>1, Invariance, PTL

\* The recorded maximum stays within the capacity and covers every finished push.
THEOREM DepthCorrect == Spec => []DepthBounded
<1>1. IInv => DepthBounded
  BY DEF IInv
<1> QED
  BY <1>1, Invariance, PTL

\* The statistics account for every call and every event in the ring.
THEOREM StatsCorrect == Spec => []StatsBalance
<1>1. IInv => StatsBalance
  BY DEF IInv
<1> QED
  BY <1>1, Invariance, PTL

-----------------------------------------------------------------------------
(* The ring implements the contract of IEventQueue                         *)

\* The window is a sequence of Depth events.
LEMMA WindowType ==
  ASSUME TypeOK
  PROVE  /\ Depth \in 0 .. Capacity
         /\ Window \in Seq(0 .. MaxEvents) /\ Len(Window) = Depth
         /\ \A i \in 1 .. Depth : Window[i] = buffer[CellAt(head, i - 1)]
<1>1. Depth \in 0 .. Capacity
  BY DistanceType DEF TypeOK, Depth
<1>2. \A i \in 1 .. Depth : buffer[CellAt(head, i - 1)] \in 0 .. MaxEvents
  <2> TAKE i \in 1 .. Depth
  <2>1. i - 1 \in 0 .. Capacity /\ head \in Cells
    BY <1>1 DEF TypeOK
  <2>2. CellAt(head, i - 1) \in Cells
    BY <2>1, CellAtFacts
  <2> QED
    BY <2>2 DEF TypeOK
<1>3. Window \in Seq(0 .. MaxEvents) /\ Len(Window) = Depth
  BY <1>1, <1>2, IsASeq, LenProperties DEF Window
<1> QED
  BY <1>1, <1>3 DEF Window

\* A step that moves no index and writes no cell of the window leaves it as it is.
LEMMA WindowKept ==
  ASSUME TypeOK, head' = head, tail' = tail,
         \A a \in Cells : a # tail => buffer'[a] = buffer[a]
  PROVE  Window' = Window
<1>1. Depth' = Depth /\ Depth \in 0 .. Capacity /\ head \in Cells /\ tail \in Cells
  BY WindowType DEF Depth, TypeOK
<1>2. \A i \in 1 .. Depth : buffer'[CellAt(head, i - 1)] = buffer[CellAt(head, i - 1)]
  <2> TAKE i \in 1 .. Depth
  <2>1. i - 1 \in 0 .. Capacity /\ i - 1 < Depth
    BY <1>1
  <2>2. CellAt(head, i - 1) \in Cells /\ CellAt(head, i - 1) # tail
    BY <1>1, <2>1, CellAtFacts DEF Depth
  <2> QED
    BY <2>2
<1> QED
  BY <1>1, <1>2 DEF Window

\* Publishing the tail appends the cell it passes.
LEMMA WindowAppend ==
  ASSUME TypeOK, head' = head, buffer' = buffer, tail' = nextIndex(tail),
         nextIndex(tail) # head
  PROVE  Window' = Append(Window, buffer[tail])
<1>0. head \in Cells /\ tail \in Cells /\ buffer[tail] \in 0 .. MaxEvents
  BY DEF TypeOK
<1>1. Depth' = Depth + 1 /\ Depth \in 0 .. Capacity
  BY <1>0, DistanceGrows, DistanceType DEF Depth
<1>2. /\ Append(Window, buffer[tail]) \in Seq(0 .. MaxEvents)
      /\ Len(Append(Window, buffer[tail])) = Depth + 1
      /\ \A i \in 1 .. Depth : Append(Window, buffer[tail])[i] = Window[i]
      /\ Append(Window, buffer[tail])[Depth + 1] = buffer[tail]
  BY <1>0, WindowType, AppendProperties
<1>3. Window' = [i \in 1 .. Depth + 1 |-> buffer[CellAt(head, i - 1)]]
  BY <1>1 DEF Window
<1>4. CellAt(head, Depth) = tail
  BY <1>0, <1>1, CellAtFacts DEF Depth
<1>5. \A i \in 1 .. Depth + 1 : Append(Window, buffer[tail])[i] = buffer[CellAt(head, i - 1)]
  BY <1>1, <1>2, <1>4, WindowType
<1>6. Append(Window, buffer[tail]) = [i \in 1 .. Depth + 1 |-> Append(Window, buffer[tail])[i]]
  BY <1>2, LenProperties
<1> QED
  BY <1>3, <1>5, <1>6

\* Advancing the head drops the first event.
LEMMA WindowTail ==
  ASSUME TypeOK, tail' = tail, buffer' = buffer, head' = nextIndex(head), head # tail
  PROVE  Window # <<>> /\ Head(Window) = buffer[head] /\ Window' = Tail(Window)
<1>0. head \in Cells /\ tail \in Cells
  BY DEF TypeOK
<1>1. Depth' = Depth - 1 /\ Depth \in 1 .. Capacity
  BY <1>0, DistanceShrinks, DistanceType DEF Depth
<1>2. Window \in Seq(0 .. MaxEvents) /\ Len(Window) = Depth /\ Window # <<>>
  BY <1>1, WindowType
<1>3. Head(Window) = buffer[head]
  BY <1>0, <1>1, <1>2, WindowType, CellAtFacts
<1>4. /\ Tail(Window) \in Seq(0 .. MaxEvents)
      /\ Len(Tail(Window)) = Depth - 1
      /\ \A i \in 1 .. Depth - 1 : Tail(Window)[i] = Window[i + 1]
  BY <1>1, <1>2
<1>5. Window' = [i \in 1 .. Depth - 1 |-> buffer[CellAt(nextIndex(head), i - 1)]]
  BY <1>1 DEF Window
<1>6. \A i \in 1 .. Depth - 1 : Tail(Window)[i] = buffer[CellAt(nextIndex(head), i - 1)]
  <2> TAKE i \in 1 .. Depth - 1
  <2>1. i - 1 \in 0 .. Capacity /\ i - 1 < Capacity /\ i + 1 \in 1 .. Depth
    BY <1>1
  <2>2. CellAt(nextIndex(head), i - 1) = CellAt(head, (i - 1) + 1)
    BY <1>0, <2>1, CellAtFacts
  <2>3. (i - 1) + 1 = (i + 1) - 1
    OBVIOUS
  <2> QED
    BY <1>4, <2>1, <2>2, <2>3, WindowType
<1>7. Tail(Window) = [i \in 1 .. Depth - 1 |-> Tail(Window)[i]]
  BY <1>4, LenProperties
<1> QED
  BY <1>2, <1>3, <1>5, <1>6, <1>7

\* The empty ring is the empty queue.
LEMMA ContractInit == Init => EQ!Init
<1> SUFFICES ASSUME Init PROVE EQ!Init
  OBVIOUS
<1>1. Window = <<>>
  <2>1. TypeOK /\ Depth = 0
    BY TypeInit, DistanceType DEF Init, Depth, TypeOK
  <2> QED
    BY <2>1, WindowType
<1> QED
  BY <1>1 DEF Init, EQ!Init, EQ!Flags, Flags, PushPhase, PopPhase, Handed, NoEvent

\* Each step of the ring is a step of the contract or changes nothing a caller sees.
LEMMA ContractStep == IInv /\ [Next]_vars => [EQ!Next]_(EQ!eqvars)
<1> SUFFICES ASSUME IInv, [Next]_vars PROVE EQ!Next \/ UNCHANGED EQ!eqvars
  OBVIOUS
<1>0. TypeOK /\ SeenHeadInv /\ CellInv /\ head \in Cells /\ tail \in Cells
  BY DEF IInv, TypeOK
<1>p. policy \in EQ!Policies
  BY <1>0 DEF TypeOK, EQ!Policies
<1> DEFINE p0 == "producer"
           c0 == "consumer"
           Same == Window' = Window
           PushSame == PushPhase' = PushPhase /\ ev' = ev /\ policy' = policy
           PopSame == PopPhase' = PopPhase /\ Handed' = Handed
           FlagsSame == closed' = closed /\ stop' = stop
<1>1. CASE PushCall
  <2>1. Same /\ PopSame /\ FlagsSame
    BY <1>0, <1>1, WindowKept DEF PushCall, queueVars, popVars, PopPhase, Handed
  <2>2. EQ!PushCall(p0)
    <3>1. PushPhase[p0] = "idle" /\ PushPhase' = [PushPhase EXCEPT ![p0] = policy']
      BY <1>1 DEF PushCall, PushPhase
    <3>2. ev' \in 1 .. MaxEvents /\ policy' \in EQ!Policies
      BY <1>0, <1>1 DEF PushCall, TypeOK, EQ!Policies
    <3>3. \E b \in EQ!Policies : PushPhase' = [PushPhase EXCEPT ![p0] = b]
      BY <3>1, <3>2
    <3>4. [p \in {p0} |-> ev'] = [[p \in {p0} |-> ev] EXCEPT ![p0] = ev']
      OBVIOUS
    <3> QED
      BY <2>1, <3>1, <3>2, <3>3, <3>4 DEF EQ!PushCall
  <2> QED
    BY <2>2 DEF EQ!Next
<1>2. CASE CheckClosed
  <2>1. Same /\ PopSame /\ FlagsSame /\ ev' = ev /\ policy' = policy
    BY <1>0, <1>2, WindowKept DEF CheckClosed, queueVars, popVars, PopPhase, Handed
  <2>2. CASE closed \/ stop["push"]
    <3>1. PushPhase[p0] = policy /\ PushPhase' = [PushPhase EXCEPT ![p0] = "refused"]
      BY <1>2, <2>2 DEF CheckClosed, PushPhase
    <3>2. EQ!PushRefuse(p0)
      BY <1>p, <2>1, <2>2, <3>1 DEF EQ!PushRefuse
    <3> QED
      BY <3>2 DEF EQ!Next
  <2>3. CASE ~(closed \/ stop["push"])
    <3>1. PushPhase' = PushPhase
      BY <1>2, <2>3 DEF CheckClosed, PushPhase
    <3> QED
      BY <2>1, <3>1 DEF EQ!eqvars
  <2> QED
    BY <2>2, <2>3
<1>3. CASE LoadHead
  <2>1. Same /\ PopSame /\ FlagsSame /\ ev' = ev /\ policy' = policy
    BY <1>0, <1>3, WindowKept DEF LoadHead, queueVars, popVars, PopPhase, Handed
  <2>2. CASE ppc' = "no"
    <3>1. PushPhase[p0] = policy /\ PushPhase' = [PushPhase EXCEPT ![p0] = "refused"]
      BY <1>3, <2>2 DEF LoadHead, PushPhase
    <3>2. policy = "Drop" /\ Capacity # 0
      BY <1>3, <2>2 DEF LoadHead
    <3>3. EQ!PushRefuse(p0)
      BY <1>p, <2>1, <3>1, <3>2 DEF EQ!PushRefuse
    <3> QED
      BY <3>3 DEF EQ!Next
  <2>3. CASE ppc' # "no"
    <3>1. PushPhase' = PushPhase
      BY <1>3, <2>3 DEF LoadHead, PushPhase
    <3> QED
      BY <2>1, <3>1 DEF EQ!eqvars
  <2> QED
    BY <2>2, <2>3
<1>4. CASE WriteCell
  <2>1. \A a \in Cells : a # tail => buffer'[a] = buffer[a]
    BY <1>0, <1>4 DEF WriteCell, TypeOK
  <2>2. Same
    BY <1>0, <1>4, <2>1, WindowKept DEF WriteCell
  <2>3. PushSame /\ PopSame /\ FlagsSame
    BY <1>4 DEF WriteCell, PushPhase, PopPhase, Handed, popVars
  <2> QED
    BY <2>2, <2>3 DEF EQ!eqvars
<1>5. CASE PublishTail
  <2>1. nextIndex(tail) # head /\ Depth < Capacity
    <3>1. Depth < Capacity
      BY <1>0, <1>5, DistanceType DEF SeenHeadInv, PublishTail, Depth, TypeOK
    <3> QED
      BY <1>0, <3>1 DEF Depth, Distance, nextIndex, Cells, RingCapacity
  <2>2. Window' = Append(Window, ev)
    BY <1>0, <1>5, <2>1, WindowAppend DEF PublishTail, CellInv
  <2>3. PopSame /\ FlagsSame /\ ev' = ev /\ policy' = policy
    BY <1>5 DEF PublishTail, PopPhase, Handed, popVars
  <2>4. PushPhase[p0] = policy /\ PushPhase' = [PushPhase EXCEPT ![p0] = "accepted"]
    BY <1>5 DEF PublishTail, PushPhase
  <2>5. EQ!HasRoom
    BY <1>0, <2>1, WindowType DEF EQ!HasRoom
  <2>6. EQ!PushAccept(p0)
    BY <1>p, <2>2, <2>3, <2>4, <2>5 DEF EQ!PushAccept
  <2> QED
    BY <2>6 DEF EQ!Next
<1>6. CASE Account
  <2>1. Same /\ PushSame /\ PopSame /\ FlagsSame
    BY <1>0, <1>6, WindowKept DEF Account, queueVars, popVars, PushPhase, PopPhase, Handed
  <2> QED
    BY <2>1 DEF EQ!eqvars
<1>7. CASE PushReturn
  <2>1. Same /\ PopSame /\ FlagsSame
    BY <1>0, <1>7, WindowKept DEF PushReturn, queueVars, popVars, PopPhase, Handed
  <2>2. /\ PushPhase[p0] \in {"accepted", "refused"}
        /\ PushPhase' = [PushPhase EXCEPT ![p0] = "idle"]
    BY <1>7 DEF PushReturn, PushPhase
  <2>3. [p \in {p0} |-> ev'] = [[p \in {p0} |-> ev] EXCEPT ![p0] = NoEvent]
    BY <1>7 DEF PushReturn
  <2>4. EQ!PushReturn(p0)
    BY <2>1, <2>2, <2>3 DEF EQ!PushReturn
  <2> QED
    BY <2>4 DEF EQ!Next
<1>8. CASE PopCall
  <2>1. Same /\ PushSame /\ FlagsSame
    BY <1>0, <1>8, WindowKept DEF PopCall, queueVars, pushVars, PushPhase
  <2>2. /\ PopPhase[c0] = "idle" /\ PopPhase' = [PopPhase EXCEPT ![c0] = "calling"]
        /\ Handed' = Handed
    BY <1>8 DEF PopCall, PopPhase, Handed
  <2>3. EQ!PopCall(c0)
    BY <2>1, <2>2 DEF EQ!PopCall
  <2> QED
    BY <2>3 DEF EQ!Next
<1>9. CASE LoadTail
  <2>1. Same /\ PushSame /\ PopSame /\ FlagsSame
    BY <1>0, <1>9, WindowKept DEF LoadTail, queueVars, pushVars, PushPhase, PopPhase, Handed
  <2> QED
    BY <2>1 DEF EQ!eqvars
<1>10. CASE CheckStop
  <2>1. Same /\ PushSame /\ FlagsSame
    BY <1>0, <1>10, WindowKept DEF CheckStop, queueVars, pushVars, PushPhase
  <2>2. Handed' = Handed
    BY <1>10 DEF CheckStop, Handed
  <2>3. CASE closed \/ stop["pop"]
    <3>1. PopPhase[c0] = "calling" /\ PopPhase' = [PopPhase EXCEPT ![c0] = "refused"]
      BY <1>10, <2>3 DEF CheckStop, PopPhase
    <3>2. EQ!PopRefuse(c0)
      BY <2>1, <2>2, <2>3, <3>1 DEF EQ!PopRefuse
    <3> QED
      BY <3>2 DEF EQ!Next
  <2>4. CASE ~(closed \/ stop["pop"])
    <3>1. PopPhase' = PopPhase
      BY <1>10, <2>4 DEF CheckStop, PopPhase
    <3> QED
      BY <2>1, <2>2, <3>1 DEF EQ!eqvars
  <2> QED
    BY <2>3, <2>4
<1>11. CASE ReadCell
  <2>1. Same /\ PushSame /\ PopSame /\ FlagsSame
    BY <1>0, <1>11, WindowKept DEF ReadCell, queueVars, pushVars, PushPhase, PopPhase, Handed
  <2> QED
    BY <2>1 DEF EQ!eqvars
<1>12. CASE AdvanceHead
  <2>1. Window # <<>> /\ Head(Window) = buffer[head] /\ Window' = Tail(Window)
    BY <1>0, <1>12, WindowTail DEF AdvanceHead, CellInv
  <2>2. PushSame /\ FlagsSame
    BY <1>12 DEF AdvanceHead, PushPhase, pushVars
  <2>3. PopPhase[c0] = "calling" /\ PopPhase' = [PopPhase EXCEPT ![c0] = "delivered"]
    BY <1>12 DEF AdvanceHead, PopPhase
  <2>4. Handed' = [Handed EXCEPT ![c0] = Head(Window)]
    BY <1>0, <1>12, <2>1 DEF AdvanceHead, Handed, CellInv
  <2>5. EQ!PopDeliver(c0)
    BY <2>1, <2>2, <2>3, <2>4 DEF EQ!PopDeliver
  <2> QED
    BY <2>5 DEF EQ!Next
<1>13. CASE CountPop
  <2>1. Same /\ PushSame /\ PopSame /\ FlagsSame
    BY <1>0, <1>13, WindowKept DEF CountPop, queueVars, pushVars, PushPhase, PopPhase, Handed
  <2> QED
    BY <2>1 DEF EQ!eqvars
<1>14. CASE PopReturn
  <2>1. Same /\ PushSame /\ FlagsSame
    BY <1>0, <1>14, WindowKept DEF PopReturn, queueVars, pushVars, PushPhase
  <2>2. /\ PopPhase[c0] = "delivered" /\ PopPhase' = [PopPhase EXCEPT ![c0] = "idle"]
        /\ Handed' = [Handed EXCEPT ![c0] = NoEvent]
    BY <1>14 DEF PopReturn, PopPhase, Handed
  <2>3. EQ!PopReturn(c0)
    BY <2>1, <2>2 DEF EQ!PopReturn
  <2> QED
    BY <2>3 DEF EQ!Next
<1>15. CASE Close
  <2>1. Same /\ PushSame /\ PopSame
    BY <1>0, <1>15, WindowKept DEF Close, queueVars, pushVars, popVars, PushPhase, PopPhase, Handed
  <2>2. EQ!Close
    BY <1>15, <2>1 DEF Close, EQ!Close
  <2> QED
    BY <2>2 DEF EQ!Next
<1>16. CASE Stop
  <2>1. Same /\ PushSame /\ PopSame
    BY <1>0, <1>16, WindowKept DEF Stop, queueVars, pushVars, popVars, PushPhase, PopPhase, Handed
  <2>2. EQ!Stop
    BY <1>16, <2>1 DEF Stop, EQ!Stop, Flags, EQ!Flags
  <2> QED
    BY <2>2 DEF EQ!Next
<1>17. CASE UNCHANGED vars
  <2>1. Same /\ PushSame /\ PopSame /\ FlagsSame
    BY <1>0, <1>17, WindowKept DEF vars, queueVars, pushVars, popVars, PushPhase, PopPhase, Handed
  <2> QED
    BY <2>1 DEF EQ!eqvars
<1> QED
  BY <1>1, <1>2, <1>3, <1>4, <1>5, <1>6, <1>7, <1>8, <1>9, <1>10, <1>11, <1>12,
     <1>13, <1>14, <1>15, <1>16, <1>17 DEF Next, PushStep, PopStep, Finished

\* Whatever the capacity, the ring behaves as the FIFO IEventQueue promises.
THEOREM Refinement == Spec => Contract
<1>1. Init => EQ!Init
  BY ContractInit
<1>2. IInv /\ [Next]_vars => [EQ!Next]_(EQ!eqvars)
  BY ContractStep
<1> QED
  BY <1>1, <1>2, Invariance, PTL DEF Spec, Contract, EQ!Spec

-----------------------------------------------------------------------------
(* The direct pipeline: its steps are steps of the ring                    *)

\* Every step of a thread is one of the ring, or leaves the ring alone.
LEMMA PipelineStep ==
  ASSUME {"push"} \in StopScopes, TypeOK, [PipelineNext]_allVars
  PROVE  [Next]_vars
<1>1. ASSUME SetIngressStop, UNCHANGED <<ringKept, closed>> PROVE [Next]_vars
  <2>1. CASE stop["push"]
    BY <1>1, <2>1 DEF SetIngressStop, ringKept, TypeOK, Flags, vars
  <2>2. CASE ~stop["push"]
    <3>1. stop' = [f \in Flags |-> stop[f] \/ f \in {"push"}]
      BY <1>1, <2>2 DEF SetIngressStop, TypeOK, Flags
    <3>2. Stop
      BY <1>1, <2>2, <3>1 DEF Stop, ringKept
    <3> QED
      BY <3>2 DEF Next
  <2> QED
    BY <2>1, <2>2
<1>2. ASSUME closed' = TRUE, UNCHANGED <<ringKept, stop>> PROVE [Next]_vars
  <2>1. CASE closed
    BY <1>2, <2>1 DEF ringKept, vars
  <2>2. CASE ~closed
    BY <1>2, <2>2 DEF ringKept, Close, Next
  <2> QED
    BY <2>1, <2>2
<1>3. CASE Generate
  BY <1>3 DEF Generate, Next
<1>4. CASE IngressPush \/ CountPush
  BY <1>4 DEF IngressPush, CountPush, Next, PushStep
<1>5. CASE WorkerPop \/ CompleteEvent
  BY <1>5 DEF WorkerPop, CompleteEvent, Next, PopStep
<1>6. CASE LeaveIngress \/ WorkerThrows \/ LeaveWorker \/ Expire \/ JoinIngress \/ JoinWorker
  BY <1>6 DEF LeaveIngress, WorkerThrows, LeaveWorker, Expire, JoinIngress, JoinWorker
<1>7. CASE WorkerStops \/ StopIngress
  BY <1>1, <1>7 DEF WorkerStops, StopIngress
<1>8. CASE WorkerCloses \/ CloseQueue
  BY <1>2, <1>8 DEF WorkerCloses, CloseQueue
<1>9. CASE Done \/ UNCHANGED allVars
  BY <1>9 DEF Done, allVars
<1> QED
  BY <1>3, <1>4, <1>5, <1>6, <1>7, <1>8, <1>9
     DEF PipelineNext, IngressStep, WorkerStep, MainStep

\* The ring of the pipeline satisfies the ring's invariant.
LEMMA PipelineInvariance ==
  ASSUME {"push"} \in StopScopes
  PROVE  PipelineSpec => []IInv
<1>1. PipelineInit => IInv
  BY InvInit DEF PipelineInit
<1>2. IInv /\ [PipelineNext]_allVars => IInv'
  BY PipelineStep, InvStep DEF IInv
<1> QED
  BY <1>1, <1>2, PTL DEF PipelineSpec

\* The pipeline calls push, pop and close only as SpscRing says callers do.
THEOREM PipelineUsesRing ==
  ASSUME {"push"} \in StopScopes
  PROVE  PipelineSpec => UsesRing
<1>1. PipelineInit => Init
  BY DEF PipelineInit
<1>2. IInv /\ [PipelineNext]_allVars => [Next]_vars
  BY PipelineStep DEF IInv
<1> QED
  BY <1>1, <1>2, PipelineInvariance, PTL DEF PipelineSpec, UsesRing, Spec

\* In every run of the pipeline the ring keeps the contract of a queue.
THEOREM PipelineContract ==
  ASSUME {"push"} \in StopScopes
  PROVE  PipelineSpec => Contract /\ []CellRaceFree
<1> QED
  BY PipelineUsesRing, Refinement, RaceFree, PTL DEF UsesRing

-----------------------------------------------------------------------------
(* Types                                                                   *)

LEMMA PipelineTypeStep ==
  ASSUME {"push"} \in StopScopes, PipelineTypeOK, [PipelineNext]_allVars
  PROVE  PipelineTypeOK'
<1>1. TypeOK'
  BY PipelineStep, TypeStep DEF PipelineTypeOK
<1>2. \A b \in BOOLEAN, n \in Nat : CountIf(b, n) \in Nat
  BY DEF CountIf
<1>3. \A e \in 0 .. MaxEvents : Measured(e) \in BOOLEAN
  BY DEF Measured
<1>4. ev \in 0 .. MaxEvents /\ ev' \in 0 .. MaxEvents /\ out \in 0 .. MaxEvents
  BY <1>1 DEF PipelineTypeOK, TypeOK
<1>5. CASE Generate
  BY <1>1, <1>2, <1>3, <1>4, <1>5 DEF Generate, PipelineTypeOK, threads
<1>6. CASE IngressPush \/ WorkerPop \/ Done \/ UNCHANGED allVars
  BY <1>1, <1>6 DEF IngressPush, WorkerPop, Done, allVars, pipelineVars, threads, counters,
     PipelineTypeOK
<1>7. CASE CountPush
  BY <1>1, <1>2, <1>3, <1>4, <1>7 DEF CountPush, PipelineTypeOK, threads
<1>8. CASE CompleteEvent
  BY <1>1, <1>2, <1>3, <1>4, <1>8 DEF CompleteEvent, PipelineTypeOK, threads
<1>9. CASE WorkerThrows
  BY <1>1, <1>9 DEF WorkerThrows, PipelineTypeOK
<1>10. CASE LeaveIngress \/ LeaveWorker \/ WorkerStops \/ WorkerCloses
  BY <1>1, <1>10 DEF LeaveIngress, LeaveWorker, WorkerStops, WorkerCloses, counters, PipelineTypeOK
<1>11. CASE Expire \/ MainStep
  BY <1>1, <1>11 DEF Expire, MainStep, StopIngress, JoinIngress, CloseQueue, JoinWorker,
     threads, counters, PipelineTypeOK
<1> QED
  BY <1>5, <1>6, <1>7, <1>8, <1>9, <1>10, <1>11 DEF PipelineNext, IngressStep, WorkerStep

\* The program counters of the threads and the counters keep their types.
THEOREM PipelineTypeCorrect ==
  ASSUME {"push"} \in StopScopes
  PROVE  PipelineSpec => []PipelineTypeOK
<1>1. PipelineInit => PipelineTypeOK
  <2> SUFFICES ASSUME PipelineInit PROVE PipelineTypeOK
    OBVIOUS
  <2>1. TypeOK
    BY TypeInit DEF PipelineInit
  <2> QED
    BY <2>1 DEF PipelineInit, PipelineTypeOK
<1> QED
  BY <1>1, PipelineTypeStep, PTL DEF PipelineSpec

-----------------------------------------------------------------------------
(* The order in which the threads leave                                    *)

\* Nobody is in push once the ingress is joined; without an error the queue is
\* closed only after that, and a blocked push gives up only for ingress_stop.
ExitInv ==
  /\ main \in {"close", "join_worker", "done"} => ingress = "exited"
  /\ ingress = "exited" => ppc = "idle"
  /\ main = "done" => worker = "exited"
  /\ worker # "run" /\ ~failed => worker = "exited" /\ cpc = "no"
  /\ closed /\ ~failed => main \in {"join_worker", "done"}
  /\ ppc # "idle" => policy = config_policy
  /\ ppc = "no" /\ config_policy = "Block" /\ ~failed => stop["push"]

LEMMA ExitStep ==
  ASSUME PipelineTypeOK, ExitInv, [PipelineNext]_allVars
  PROVE  ExitInv'
<1> USE DEF ExitInv
<1>0. stop \in [Flags -> BOOLEAN] /\ "push" \in Flags
  BY DEF PipelineTypeOK, TypeOK, Flags
<1>1. CASE Generate
  BY <1>1 DEF Generate, PushCall, threads, popVars
<1>2. CASE IngressPush
  <2>1. UNCHANGED <<config_policy, main, ingress, worker, failed, closed, stop, policy, cpc>>
    BY <1>2 DEF IngressPush, CheckClosed, LoadHead, WriteCell, PublishTail, Account,
       pipelineVars, threads, popVars
  <2>2. ppc # "idle" /\ ppc' # "idle"
    BY <1>2 DEF IngressPush, CheckClosed, LoadHead, WriteCell, PublishTail, Account
  <2>3. ppc' = "no" => closed \/ stop["push"] \/ policy = "Drop"
    BY <1>2 DEF IngressPush, CheckClosed, LoadHead, WriteCell, PublishTail, Account
  <2> QED
    BY <2>1, <2>2, <2>3
<1>3. CASE CountPush
  BY <1>3 DEF CountPush, PushReturn, threads, popVars
<1>4. CASE WorkerPop
  BY <1>4 DEF WorkerPop, PopCall, LoadTail, CheckStop, ReadCell, AdvanceHead, CountPop,
     pipelineVars, threads, pushVars
<1>5. CASE CompleteEvent
  BY <1>5 DEF CompleteEvent, PopReturn, threads, pushVars
<1>6. CASE LeaveIngress
  BY <1>6 DEF LeaveIngress, vars, pushVars, popVars
<1>7. CASE WorkerThrows \/ LeaveWorker
  BY <1>7 DEF WorkerThrows, LeaveWorker, vars, pushVars, popVars, PipelineTypeOK
<1>8. CASE WorkerStops \/ WorkerCloses
  BY <1>8 DEF WorkerStops, WorkerCloses, SetIngressStop, ringKept, pushVars, popVars, PipelineTypeOK
<1>9. CASE Expire \/ Done \/ UNCHANGED allVars
  BY <1>9 DEF Expire, Done, allVars, pipelineVars, threads, vars, pushVars, popVars
<1>10. CASE StopIngress
  BY <1>0, <1>10 DEF StopIngress, SetIngressStop, ringKept, pushVars, popVars
<1>11. CASE JoinIngress \/ CloseQueue \/ JoinWorker
  BY <1>11 DEF JoinIngress, CloseQueue, JoinWorker, ringKept, vars, pushVars, popVars
<1> QED
  BY <1>1, <1>2, <1>3, <1>4, <1>5, <1>6, <1>7, <1>8, <1>9, <1>10, <1>11
     DEF PipelineNext, IngressStep, WorkerStep, MainStep

-----------------------------------------------------------------------------
(* Counting the measured events of the ring                                *)

MeasuredAt(s) == {i \in 1 .. Len(s) : Measured(s[i])}

\* There are finitely many.
LEMMA MeasuredFinite ==
  ASSUME NEW s \in Seq(0 .. MaxEvents)
  PROVE  IsFiniteSet(MeasuredAt(s)) /\ Cardinality(MeasuredAt(s)) \in Nat
<1>1. Len(s) \in Nat
  OBVIOUS
<1>2. IsFiniteSet(1 .. Len(s))
  BY <1>1, FS_Interval
<1>3. MeasuredAt(s) \in SUBSET (1 .. Len(s))
  BY DEF MeasuredAt
<1> QED
  BY <1>2, <1>3, FS_Subset, FS_CardinalityType

\* A measured event at the end counts once.
LEMMA MeasuredAppend ==
  ASSUME NEW s \in Seq(0 .. MaxEvents), NEW e \in 0 .. MaxEvents
  PROVE  Cardinality(MeasuredAt(Append(s, e))) = CountIf(Measured(e), Cardinality(MeasuredAt(s)))
<1>1. Len(s) \in Nat /\ Len(Append(s, e)) = Len(s) + 1
  OBVIOUS
<1>2. \A i \in 1 .. Len(s) : Append(s, e)[i] = s[i]
  OBVIOUS
<1>3. Append(s, e)[Len(s) + 1] = e
  OBVIOUS
<1>4. CASE Measured(e)
  <2>1. MeasuredAt(Append(s, e)) = MeasuredAt(s) \cup {Len(s) + 1}
    BY <1>1, <1>2, <1>3, <1>4 DEF MeasuredAt
  <2>2. Len(s) + 1 \notin MeasuredAt(s)
    BY <1>1 DEF MeasuredAt
  <2> QED
    BY <1>4, <2>1, <2>2, MeasuredFinite, FS_AddElement DEF CountIf
<1>5. CASE ~Measured(e)
  <2>1. MeasuredAt(Append(s, e)) = MeasuredAt(s)
    BY <1>1, <1>2, <1>3, <1>5 DEF MeasuredAt
  <2> QED
    BY <1>5, <2>1 DEF CountIf
<1> QED
  BY <1>4, <1>5

\* A measured event at the front was counted once.
LEMMA MeasuredTail ==
  ASSUME NEW s \in Seq(0 .. MaxEvents), s # <<>>
  PROVE  Cardinality(MeasuredAt(s)) = CountIf(Measured(Head(s)), Cardinality(MeasuredAt(Tail(s))))
<1>1. /\ Len(s) \in Nat \ {0} /\ Tail(s) \in Seq(0 .. MaxEvents)
      /\ Len(Tail(s)) = Len(s) - 1 /\ Head(s) = s[1]
      /\ \A i \in 1 .. Len(s) - 1 : Tail(s)[i] = s[i + 1]
  OBVIOUS
<1> DEFINE Rest == MeasuredAt(s) \ {1}
           Shift == [i \in MeasuredAt(Tail(s)) |-> i + 1]
<1>2. \A i \in MeasuredAt(Tail(s)) : i \in Nat /\ i + 1 \in Rest
  BY <1>1 DEF MeasuredAt
<1>3. \A j \in Rest : j - 1 \in MeasuredAt(Tail(s)) /\ (j - 1) + 1 = j
  BY <1>1 DEF MeasuredAt
<1>4. Shift \in Injection(MeasuredAt(Tail(s)), Rest)
  BY <1>2 DEF Injection, IsInjective
<1>5. Shift \in Surjection(MeasuredAt(Tail(s)), Rest)
  BY <1>2, <1>3 DEF Surjection
<1>6. ExistsBijection(MeasuredAt(Tail(s)), Rest)
  BY <1>4, <1>5 DEF ExistsBijection, Bijection
<1>7. Cardinality(Rest) = Cardinality(MeasuredAt(Tail(s)))
  BY <1>1, <1>6, MeasuredFinite, FS_Bijection
<1>8. 1 \in MeasuredAt(s) <=> Measured(Head(s))
  BY <1>1 DEF MeasuredAt
<1>9. Cardinality(MeasuredAt(s)) \in Nat /\ IsFiniteSet(MeasuredAt(s))
  BY MeasuredFinite
<1>10. Cardinality(Rest) = IF 1 \in MeasuredAt(s) THEN Cardinality(MeasuredAt(s)) - 1
                                                  ELSE Cardinality(MeasuredAt(s))
  BY <1>9, FS_RemoveElement
<1> QED
  BY <1>7, <1>8, <1>9, <1>10 DEF CountIf

\* Stranded counts the measured events of the window.
LEMMA StrandedType == TypeOK => Stranded = Cardinality(MeasuredAt(Window)) /\ Stranded \in Nat
<1> SUFFICES ASSUME TypeOK PROVE Stranded = Cardinality(MeasuredAt(Window)) /\ Stranded \in Nat
  OBVIOUS
<1>1. Window \in Seq(0 .. MaxEvents) /\ Len(Window) = Depth
  BY WindowType
<1>2. Stranded = Cardinality(MeasuredAt(Window))
  BY <1>1 DEF Stranded, MeasuredAt
<1> QED
  BY <1>1, <1>2, MeasuredFinite

\* How a step of the ring moves the number of measured events it holds.
LEMMA StrandedMoves ==
  ASSUME IInv, [Next]_vars
  PROVE  /\ PublishTail => Stranded' = CountIf(Measured(ev), Stranded)
         /\ AdvanceHead => Stranded = CountIf(Measured(out), Stranded')
         /\ ~PublishTail /\ ~AdvanceHead => Stranded' = Stranded
<1>0. /\ TypeOK /\ TypeOK' /\ SeenHeadInv /\ CellInv
      /\ head \in Cells /\ tail \in Cells /\ seen_head \in Cells /\ ev \in 0 .. MaxEvents
  BY InvStep DEF IInv, TypeOK
<1>1. /\ Stranded = Cardinality(MeasuredAt(Window))
      /\ Stranded' = Cardinality(MeasuredAt(Window'))
  <2>1. (TypeOK => Stranded = Cardinality(MeasuredAt(Window)))'
    BY StrandedType, PTL
  <2> QED
    BY <1>0, <2>1, StrandedType
<1>2. Window \in Seq(0 .. MaxEvents)
  BY <1>0, WindowType
<1>3. ASSUME PublishTail PROVE Stranded' = CountIf(Measured(ev), Stranded)
  <2>1. nextIndex(tail) # head
    BY <1>0, <1>3, RoomToPublish DEF PublishTail
  <2>2. Window' = Append(Window, ev)
    BY <1>0, <1>3, <2>1, WindowAppend DEF PublishTail, CellInv
  <2> QED
    BY <1>0, <1>1, <1>2, <2>2, MeasuredAppend
<1>4. ASSUME AdvanceHead PROVE Stranded = CountIf(Measured(out), Stranded')
  <2>1. Window # <<>> /\ Head(Window) = out /\ Window' = Tail(Window)
    BY <1>0, <1>4, WindowTail DEF AdvanceHead, CellInv
  <2> QED
    BY <1>1, <1>2, <2>1, MeasuredTail
<1>5. ASSUME ~PublishTail, ~AdvanceHead PROVE Stranded' = Stranded
  <2>1. /\ head' = head /\ tail' = tail
        /\ \A a \in Cells : a # tail => buffer'[a] = buffer[a]
    BY <1>0, <1>5 DEF TypeOK, Next, PushStep, PopStep, PushCall, CheckClosed, LoadHead, WriteCell,
       Account, PushReturn, PopCall, LoadTail, CheckStop, ReadCell, CountPop, PopReturn,
       Close, Stop, Finished, vars, queueVars
  <2>2. Window' = Window
    BY <1>0, <2>1, WindowKept
  <2> QED
    BY <1>1, <2>2
<1> QED
  BY <1>3, <1>4, <1>5

-----------------------------------------------------------------------------
(* Accounting                                                              *)

\* What an accepted event counts as before its push, or after its pop, returns.
AcceptedInPush == CountIf(ppc \in {"account", "ok"} /\ Measured(ev), 0)
HeldByWorker   == CountIf(cpc \in {"count", "ok"} /\ Measured(out), 0)
InPush         == CountIf(ppc # "idle" /\ Measured(ev), 0)

\* Until an error, every measured event is in one place: being pushed, in the
\* ring, with the worker, completed, dropped, or given up at the stop.
CountInv ==
  ~failed =>
    /\ accepted + AcceptedInPush = completed + Stranded + HeldByWorker
    /\ config_policy = "Drop" => generated = accepted + dropped_ingress + InPush
    /\ config_policy = "Block" =>
         /\ dropped_ingress = 0
         /\ \/ generated = accepted + InPush
            \/ ppc = "idle" /\ stop["push"] /\ generated = accepted + 1

LEMMA CountStep ==
  ASSUME {"push"} \in StopScopes, IInv, PipelineTypeOK, ExitInv, CountInv, [PipelineNext]_allVars
  PROVE  CountInv'
<1> SUFFICES ASSUME ~failed' PROVE CountInv'
  BY DEF CountInv
<1> USE DEF CountInv
<1>0. /\ generated \in Nat /\ accepted \in Nat /\ completed \in Nat /\ dropped_ingress \in Nat
      /\ ev \in 0 .. MaxEvents /\ out \in 0 .. MaxEvents
      /\ config_policy \in {"Block", "Drop"}
      /\ stop \in [Flags -> BOOLEAN] /\ "push" \in Flags
  BY DEF PipelineTypeOK, TypeOK, Flags
<1>1. [Next]_vars /\ TypeOK /\ TypeOK'
  BY PipelineStep, TypeStep DEF PipelineTypeOK
<1>2. Stranded \in Nat /\ Stranded' \in Nat
  <2>1. (TypeOK => Stranded \in Nat)'
    BY StrandedType, PTL
  <2> QED
    BY <1>1, <2>1, StrandedType
<1>3. /\ PublishTail => Stranded' = CountIf(Measured(ev), Stranded)
      /\ AdvanceHead => Stranded = CountIf(Measured(out), Stranded')
      /\ ~PublishTail /\ ~AdvanceHead => Stranded' = Stranded
  BY <1>1, StrandedMoves
<1>4. CASE Generate
  <2>1. /\ Stranded' = Stranded /\ ppc = "idle" /\ ppc' = "check" /\ ~stop["push"]
        /\ UNCHANGED <<accepted, completed, dropped_ingress, config_policy, cpc, out, failed, stop>>
        /\ generated' = CountIf(Measured(ev'), generated)
    BY <1>3, <1>4 DEF Generate, PushCall, PublishTail, AdvanceHead, popVars, queueVars
  <2> QED
    BY <1>0, <1>2, <2>1 DEF AcceptedInPush, HeldByWorker, InPush, CountIf
<1>5. CASE IngressPush
  <2>0. /\ UNCHANGED <<generated, accepted, completed, dropped_ingress, config_policy, failed>>
        /\ UNCHANGED <<cpc, out, ev, stop>>
        /\ ppc # "idle" /\ ppc' # "idle"
    BY <1>5 DEF IngressPush, CheckClosed, LoadHead, WriteCell, PublishTail, Account, pipelineVars,
       counters, popVars
  <2>1. ~AdvanceHead
    BY <1>5 DEF IngressPush, CheckClosed, LoadHead, WriteCell, PublishTail, Account, AdvanceHead,
       popVars, queueVars
  <2>2. CASE PublishTail
    <3>1. ppc = "publish" /\ ppc' = "account" /\ Stranded' = CountIf(Measured(ev), Stranded)
      BY <1>3, <2>2 DEF PublishTail
    <3> QED
      BY <1>0, <1>2, <2>0, <3>1 DEF AcceptedInPush, HeldByWorker, InPush, CountIf
  <2>3. CASE ~PublishTail
    <3>1. Stranded' = Stranded
      BY <1>3, <2>1, <2>3
    <3>2. ppc \in {"account", "ok"} <=> ppc' \in {"account", "ok"}
      BY <1>5, <2>3 DEF IngressPush, CheckClosed, LoadHead, WriteCell, Account
    <3> QED
      BY <1>0, <1>2, <2>0, <3>1, <3>2 DEF AcceptedInPush, HeldByWorker, InPush, CountIf
  <2> QED
    BY <2>2, <2>3
<1>6. CASE CountPush
  <2>1. /\ Stranded' = Stranded /\ ppc \in {"ok", "no"} /\ ppc' = "idle"
        /\ UNCHANGED <<generated, completed, config_policy, cpc, out, failed, stop>>
        /\ accepted' = CountIf(ppc = "ok" /\ Measured(ev), accepted)
        /\ dropped_ingress' =
             CountIf(ppc = "no" /\ config_policy = "Drop" /\ Measured(ev), dropped_ingress)
    BY <1>3, <1>6 DEF CountPush, PushReturn, PublishTail, AdvanceHead, popVars, queueVars
  <2>2. ppc = "no" /\ config_policy = "Block" => stop["push"]
    BY <2>1 DEF ExitInv
  <2> QED
    BY <1>0, <1>2, <2>1, <2>2 DEF AcceptedInPush, HeldByWorker, InPush, CountIf
<1>7. CASE WorkerPop
  <2>0. /\ UNCHANGED <<generated, accepted, completed, dropped_ingress, config_policy, failed>>
        /\ UNCHANGED <<ppc, ev, stop>>
    BY <1>7 DEF WorkerPop, PopCall, LoadTail, CheckStop, ReadCell, AdvanceHead, CountPop,
       pipelineVars, counters, pushVars
  <2>1. ~PublishTail
    BY <1>7 DEF WorkerPop, PopCall, LoadTail, CheckStop, ReadCell, AdvanceHead, CountPop,
       PublishTail, pushVars
  <2>2. CASE AdvanceHead
    <3>1. cpc = "advance" /\ cpc' = "count" /\ out' = out /\ Stranded = CountIf(Measured(out), Stranded')
      BY <1>3, <2>2 DEF AdvanceHead
    <3>2. PICK left \in Nat : left = Stranded'
      BY <1>2
    <3>3. AcceptedInPush' = AcceptedInPush /\ InPush' = InPush
      BY <2>0 DEF AcceptedInPush, InPush
    <3>4. completed' + Stranded' + HeldByWorker' = completed + Stranded + HeldByWorker
      <4>1. CASE Measured(out)
        <5>1. Stranded = left + 1 /\ HeldByWorker = 0 /\ HeldByWorker' = 1
          BY <3>1, <3>2, <4>1 DEF HeldByWorker, CountIf
        <5>2. completed + left + 1 = completed + Stranded + 0
          BY <1>0, <5>1
        <5> QED
          BY <2>0, <3>2, <5>1, <5>2
      <4>2. CASE ~Measured(out)
        BY <2>0, <3>1, <4>2 DEF HeldByWorker, CountIf
      <4> QED
        BY <4>1, <4>2
    <3> QED
      BY <2>0, <3>3, <3>4
  <2>3. CASE ~AdvanceHead
    <3>1. Stranded' = Stranded
      BY <1>3, <2>1, <2>3
    <3>2. /\ cpc \in {"count", "ok"} <=> cpc' \in {"count", "ok"}
          /\ cpc \in {"count", "ok"} => out' = out
      BY <1>7, <2>3 DEF WorkerPop, PopCall, LoadTail, CheckStop, ReadCell, CountPop
    <3> QED
      BY <1>0, <1>2, <2>0, <3>1, <3>2 DEF AcceptedInPush, HeldByWorker, InPush, CountIf
  <2> QED
    BY <2>2, <2>3
<1>8. CASE CompleteEvent
  <2>1. /\ Stranded' = Stranded /\ cpc = "ok" /\ cpc' = "idle"
        /\ UNCHANGED <<generated, accepted, dropped_ingress, config_policy, ppc, ev, failed, stop>>
        /\ completed' = CountIf(Measured(out), completed)
    BY <1>3, <1>8 DEF CompleteEvent, PopReturn, PublishTail, AdvanceHead, pushVars, queueVars
  <2> QED
    BY <1>0, <1>2, <2>1 DEF AcceptedInPush, HeldByWorker, InPush, CountIf
<1>9. CASE WorkerThrows
  BY <1>9 DEF WorkerThrows
<1>10. CASE ~Generate /\ ~IngressPush /\ ~CountPush /\ ~WorkerPop /\ ~CompleteEvent /\ ~WorkerThrows
  <2>1. /\ UNCHANGED <<generated, accepted, completed, dropped_ingress, config_policy, failed>>
        /\ UNCHANGED <<ppc, ev, cpc, out>>
        /\ stop["push"] => stop'["push"]
    BY <1>0, <1>10 DEF PipelineNext, IngressStep, WorkerStep, MainStep, LeaveIngress, LeaveWorker,
       WorkerStops, WorkerCloses, Expire, StopIngress, JoinIngress, CloseQueue, JoinWorker, Done,
       SetIngressStop, ringKept, allVars, pipelineVars, counters, vars, pushVars, popVars
  <2>2. ~PublishTail /\ ~AdvanceHead
    BY <2>1 DEF PublishTail, AdvanceHead
  <2> QED
    BY <1>0, <1>2, <1>3, <2>1, <2>2 DEF AcceptedInPush, HeldByWorker, InPush, CountIf
<1> QED
  BY <1>4, <1>5, <1>6, <1>7, <1>8, <1>9, <1>10

AccountingInv == IInv /\ PipelineTypeOK /\ ExitInv /\ CountInv

\* The inductive invariant of the pipeline over its ring.
THEOREM AccountingInvariance ==
  ASSUME {"push"} \in StopScopes
  PROVE  PipelineSpec => []AccountingInv
<1>1. PipelineInit => AccountingInv
  <2> SUFFICES ASSUME PipelineInit PROVE AccountingInv
    OBVIOUS
  <2>1. IInv /\ TypeOK
    BY InvInit, TypeInit DEF PipelineInit
  <2>2. PipelineTypeOK
    BY <2>1 DEF PipelineInit, PipelineTypeOK
  <2>3. ExitInv
    BY DEF PipelineInit, Init, ExitInv
  <2>4. Stranded = 0
    <3>1. 1 .. Depth = {}
      BY <2>1, DistanceType DEF PipelineInit, Init, Depth, TypeOK
    <3> QED
      BY <3>1, FS_EmptySet DEF Stranded
  <2>5. CountInv
    BY <2>4 DEF PipelineInit, Init, CountInv, AcceptedInPush, HeldByWorker, InPush, CountIf
  <2> QED
    BY <2>1, <2>2, <2>3, <2>5 DEF AccountingInv
<1>2. AccountingInv /\ [PipelineNext]_allVars => AccountingInv'
  <2> SUFFICES ASSUME AccountingInv, [PipelineNext]_allVars PROVE AccountingInv'
    OBVIOUS
  <2>1. IInv'
    BY PipelineStep, InvStep DEF AccountingInv, IInv
  <2>2. PipelineTypeOK' /\ ExitInv' /\ CountInv'
    BY PipelineTypeStep, ExitStep, CountStep DEF AccountingInv
  <2> QED
    BY <2>1, <2>2 DEF AccountingInv
<1> QED
  BY <1>1, <1>2, PTL DEF PipelineSpec

\* A run that ended without an error accounts for every measured event.
THEOREM Accounting ==
  ASSUME {"push"} \in StopScopes
  PROVE  PipelineSpec => []EventsAccounted
<1>1. AccountingInv => EventsAccounted
  <2> SUFFICES ASSUME AccountingInv, main = "done", ~failed PROVE EventsAccounted
    BY DEF EventsAccounted
  <2>1. ppc = "idle" /\ cpc = "no"
    BY DEF AccountingInv, ExitInv
  <2>2. /\ generated \in Nat /\ accepted \in Nat /\ completed \in Nat /\ dropped_ingress \in Nat
        /\ Stranded \in Nat
    BY StrandedType DEF AccountingInv, PipelineTypeOK
  <2>3. AcceptedInPush = 0 /\ HeldByWorker = 0 /\ InPush = 0
    BY <2>1 DEF AcceptedInPush, HeldByWorker, InPush, CountIf
  <2> QED
    BY <2>2, <2>3 DEF AccountingInv, CountInv, EventsAccounted
<1> QED
  BY <1>1, AccountingInvariance, PTL
=============================================================================
