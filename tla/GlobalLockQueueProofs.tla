------------------------ MODULE GlobalLockQueueProofs ------------------------
(***************************************************************************)
(* What holds of GlobalLockQueue for every finite set of producers and     *)
(* consumers, every capacity, both wait strategies and every number of     *)
(* pushes.                                                                 *)
(***************************************************************************)
EXTENDS GlobalLockQueue, Counting, FiniteSetTheorems, FunctionTheorems, SequenceTheorems, TLAPS

USE CapacitiesAssumption, StrategyAssumption, MaxEventsAssumption, ScopesAssumption,
    ThreadsAssumption

-----------------------------------------------------------------------------
(* Threads at given places                                                 *)

\* A count is a natural number, and positive as soon as a thread is there.
LEMMA CountType ==
  ASSUME NEW pc, IsFiniteSet(DOMAIN pc), NEW S
  PROVE  /\ Count(pc, S) \in Nat
         /\ \A t \in DOMAIN pc : pc[t] \in S => Count(pc, S) > 0
<1>1. IsFiniteSet(At(pc, S)) /\ Count(pc, S) \in Nat
  BY FS_Subset, FS_CardinalityType DEF At, Count
<1>2. At(pc, S) # {} => Count(pc, S) # 0
  BY <1>1, FS_EmptySet DEF Count
<1> QED
  BY <1>1, <1>2 DEF At

\* No thread is anywhere: the count is zero.
LEMMA CountNone ==
  ASSUME NEW pc, NEW S, \A t \in DOMAIN pc : pc[t] \notin S
  PROVE  Count(pc, S) = 0
<1>1. At(pc, S) = {}
  BY DEF At
<1> QED
  BY <1>1, FS_EmptySet DEF Count

\* One thread moves: it leaves the count of where it was and enters that of
\* where it goes.
LEMMA CountMove ==
  ASSUME NEW pc, IsFiniteSet(DOMAIN pc), NEW S, NEW t \in DOMAIN pc, NEW to
  PROVE  Count([pc EXCEPT ![t] = to], S) = Count(pc, S) + One(to, S) - One(pc[t], S)
<1> DEFINE new == [pc EXCEPT ![t] = to]
<1> USE DEF One
<1>1. IsFiniteSet(At(pc, S)) /\ Count(pc, S) \in Nat
  BY FS_Subset, CountType DEF At
<1>2. CASE pc[t] \in S /\ to \notin S
  <2>1. At(new, S) = At(pc, S) \ {t} /\ t \in At(pc, S)
    BY <1>2 DEF At
  <2> QED
    <3>1. Cardinality(At(pc, S) \ {t}) = Cardinality(At(pc, S)) - 1
      BY <1>1, <2>1, FS_RemoveElement, Zenon
    <3>2. Count(new, S) = Count(pc, S) - 1
      BY <2>1, <3>1 DEF Count
    <3> QED
      BY <1>1, <1>2, <3>2
<1>3. CASE pc[t] \notin S /\ to \in S
  <2>1. At(new, S) = At(pc, S) \cup {t} /\ t \notin At(pc, S)
    BY <1>3 DEF At
  <2> QED
    <3>1. Count(new, S) = Count(pc, S) + 1
      BY <1>1, <2>1, FS_AddElement DEF Count
    <3> QED
      BY <1>1, <1>3, <3>1
<1>4. CASE pc[t] \in S <=> to \in S
  <2>1. At(new, S) = At(pc, S)
    BY <1>4 DEF At
  <2> QED
    <3>1. Count(new, S) = Count(pc, S)
      BY <2>1 DEF Count
    <3> QED
      BY <1>1, <1>4, <3>1
<1> QED
  BY <1>2, <1>3, <1>4

\* A count is at most the number of threads.
LEMMA CountBound ==
  ASSUME NEW pc, IsFiniteSet(DOMAIN pc), NEW S
  PROVE  Count(pc, S) <= Cardinality(DOMAIN pc) /\ Cardinality(DOMAIN pc) \in Nat
<1>1. At(pc, S) \in SUBSET (DOMAIN pc)
  BY DEF At
<1> QED
  BY <1>1, FS_Subset, FS_CardinalityType DEF Count

\* Where every thread counted is counted before, no more are counted.
LEMMA CountWithin ==
  ASSUME NEW pc, IsFiniteSet(DOMAIN pc), NEW new, DOMAIN new = DOMAIN pc, NEW S,
         \A t \in DOMAIN pc : new[t] \in S => pc[t] \in S
  PROVE  Count(new, S) <= Count(pc, S)
<1>1. At(new, S) \in SUBSET At(pc, S) /\ At(pc, S) \in SUBSET (DOMAIN pc)
  BY DEF At
<1>2. IsFiniteSet(At(pc, S))
  BY <1>1, FS_Subset
<1> QED
  BY <1>1, <1>2, FS_Subset DEF Count

-----------------------------------------------------------------------------
(* Events of a kind in a queue                                             *)

\* A sequence has finitely many values of any kind, the empty one none.
LEMMA CountSeqType ==
  ASSUME NEW V, NEW s \in Seq(V), NEW S
  PROVE  /\ IsFiniteSet(DOMAIN s) /\ Count(s, S) \in Nat
         /\ s = <<>> => Count(s, S) = 0
<1>1. DOMAIN s = 1 .. Len(s) /\ Len(s) \in Nat
  OBVIOUS
<1>2. IsFiniteSet(DOMAIN s)
  BY <1>1, FS_Interval
<1>3. s = <<>> => \A i \in DOMAIN s : s[i] \notin S
  BY <1>1
<1> QED
  BY <1>2, <1>3, CountType, CountNone

\* One value is appended.
LEMMA CountAppend ==
  ASSUME NEW V, NEW s \in Seq(V), NEW e \in V, NEW S
  PROVE  Count(Append(s, e), S) = Count(s, S) + One(e, S)
<1> DEFINE new == Append(s, e)
           n   == Len(s) + 1
<1>1. /\ DOMAIN s = 1 .. Len(s) /\ DOMAIN new = 1 .. n /\ Len(s) \in Nat
      /\ new[n] = e /\ \A i \in 1 .. Len(s) : new[i] = s[i]
  BY AppendProperties
<1>2. IsFiniteSet(At(s, S)) /\ Count(s, S) \in Nat /\ n \notin At(s, S)
  BY <1>1, CountSeqType, FS_Subset DEF At
<1>3. CASE e \in S
  <2>1. At(new, S) = At(s, S) \cup {n}
    BY <1>1, <1>3 DEF At
  <2>2. Count(new, S) = Count(s, S) + 1
    BY <1>2, <2>1, FS_AddElement DEF Count
  <2> QED
    BY <1>3, <2>2 DEF One
<1>4. CASE e \notin S
  <2>1. At(new, S) = At(s, S)
    BY <1>1, <1>4 DEF At
  <2>2. Count(new, S) = Count(s, S)
    BY <2>1 DEF Count
  <2> QED
    BY <1>2, <1>4, <2>2 DEF One
<1> QED
  BY <1>3, <1>4

\* The first value is taken off.
LEMMA CountTail ==
  ASSUME NEW V, NEW s \in Seq(V), s # <<>>, NEW S
  PROVE  Count(s, S) = Count(Tail(s), S) + One(Head(s), S)
<1> DEFINE rest  == Tail(s)
           later == At(s, S) \ {1}
<1>1. /\ rest \in Seq(V) /\ DOMAIN s = 1 .. Len(s) /\ Len(s) \in Nat \ {0}
      /\ DOMAIN rest = 1 .. Len(s) - 1 /\ \A i \in 1 .. Len(s) - 1 : rest[i] = s[i + 1]
  BY HeadTailProperties
<1>2. IsFiniteSet(At(s, S)) /\ Count(s, S) \in Nat /\ IsFiniteSet(later)
  BY CountSeqType, FS_Subset DEF At
<1>3. Cardinality(At(rest, S)) = Cardinality(later)
  <2> DEFINE shift == [i \in later |-> i - 1]
  <2>1. \A i \in later : i \in 2 .. Len(s) /\ s[i] \in S
    BY <1>1 DEF At
  <2>2. shift \in [later -> At(rest, S)]
    <3>1. ASSUME NEW i \in later PROVE i - 1 \in At(rest, S)
      <4>1. i \in 2 .. Len(s) /\ s[i] \in S
        BY <2>1
      <4>2. i - 1 \in 1 .. Len(s) - 1 /\ (i - 1) + 1 = i
        BY <1>1, <4>1
      <4> QED
        BY <1>1, <4>1, <4>2 DEF At
    <3> QED
      BY <3>1
  <2>3. \A i, j \in later : shift[i] = shift[j] => i = j
    BY <2>1
  <2>4. \A k \in At(rest, S) : \E i \in later : shift[i] = k
    <3> TAKE k \in At(rest, S)
    <3>1. k \in 1 .. Len(s) - 1 /\ s[k + 1] \in S
      BY <1>1 DEF At
    <3>2. k + 1 \in later
      BY <1>1, <3>1 DEF At
    <3>3. shift[k + 1] = k
      BY <3>1, <3>2
    <3> QED
      BY <3>2, <3>3
  <2>5. shift \in Bijection(later, At(rest, S))
    BY <2>2, <2>3, <2>4 DEF Bijection, Injection, Surjection, IsInjective
  <2>6. ExistsBijection(later, At(rest, S))
    BY <2>5 DEF ExistsBijection
  <2> QED
    BY <1>2, <2>6, FS_Bijection
<1>4. Cardinality(later) = IF 1 \in At(s, S) THEN Count(s, S) - 1 ELSE Count(s, S)
  BY <1>2, FS_RemoveElement DEF Count
<1>5. 1 \in At(s, S) <=> Head(s) \in S
  <2>1. 1 \in DOMAIN s /\ Head(s) = s[1]
    BY <1>1
  <2> QED
    BY <2>1 DEF At
<1>6. Count(rest, S) = Cardinality(later)
  BY <1>3 DEF Count
<1>7. CASE Head(s) \in S
  BY <1>2, <1>4, <1>5, <1>6, <1>7 DEF One
<1>8. CASE Head(s) \notin S
  BY <1>2, <1>4, <1>5, <1>6, <1>8 DEF One
<1> QED
  BY <1>7, <1>8

Places == {"idle", "enter", "parked", "woken", "spin", "ok", "no"}
Woken  == {"woken"}

-----------------------------------------------------------------------------
(* Notifications                                                           *)

\* notify_one changes the place of at most one thread, from parked to woken,
\* and of exactly one when any is parked.
LEMMA NotifiedOne ==
  ASSUME NEW T, IsFiniteSet(T), NEW pc \in [T -> Places], NEW new \in NotifyOne(pc)
  PROVE  /\ new \in [T -> Places]
         /\ \A t \in T : new[t] = pc[t] \/ (pc[t] = "parked" /\ new[t] = "woken")
         /\ \A t \in T : pc[t] = "parked" => Count(new, Woken) = Count(pc, Woken) + 1
<1>1. CASE ParkedIn(pc) = {}
  BY <1>1 DEF NotifyOne, ParkedIn
<1>2. CASE ParkedIn(pc) # {}
  <2>1. PICK u \in T : pc[u] = "parked" /\ new = [pc EXCEPT ![u] = "woken"]
    BY <1>2 DEF NotifyOne, ParkedIn
  <2>2. Count(new, Woken) = Count(pc, Woken) + One("woken", Woken) - One("parked", Woken)
    BY <2>1, CountMove
  <2>3. Count(new, Woken) = Count(pc, Woken) + 1
    BY <2>2, CountType DEF One, Woken
  <2> QED
    BY <2>1, <2>3 DEF Places
<1> QED
  BY <1>1, <1>2

\* notify_all leaves nobody parked.
LEMMA NotifiedAll ==
  ASSUME NEW T, NEW pc \in [T -> Places]
  PROVE  /\ NotifyAll(pc) \in [T -> Places]
         /\ \A t \in T : NotifyAll(pc)[t] = IF pc[t] = "parked" THEN "woken" ELSE pc[t]
BY DEF NotifyAll, Places

-----------------------------------------------------------------------------
(* What a look at the queue comes to                                       *)

\* A push under the mutex succeeds with room, fails with a reason, spins, or
\* parks on a queue that is full, open and not told to stop.
PushOutcome(p) ==
  /\ ppc[p] \in {"enter", "woken", "spin"}
  /\ UNCHANGED <<config, closed, push_attempts, ev, policy, out, stop>>
  /\ \/ Accept(p) /\ (capacity = 0 \/ HasRoom)
     \/ Hold(p, "no") /\ (closed \/ stop["push"])
     \/ Hold(p, "no") /\ policy[p] = "Drop" /\ capacity # 0 /\ ppc[p] = "enter"
     \/ Hold(p, "spin") /\ ppc[p] # "woken"
     \/ Hold(p, "parked") /\ ~closed /\ ~stop["push"] /\ ~HasRoom

\* A pop under the mutex takes the oldest event, fails on an empty queue with a
\* reason, or stays: spinning, or parked on a queue that is empty and open.
Delivers(c) ==
  /\ queue # <<>> /\ queue' = Tail(queue)
  /\ out' = [out EXCEPT ![c] = Head(queue)]
  /\ cpc' = [cpc EXCEPT ![c] = "ok"]
  /\ ppc' \in NotifyOne(ppc)
Stays(c, pc) ==
  /\ queue = <<>>
  /\ cpc' = [cpc EXCEPT ![c] = pc]
  /\ UNCHANGED <<out, queue, ppc>>
PopOutcome(c) ==
  /\ cpc[c] \in {"enter", "woken", "spin"}
  /\ UNCHANGED <<config, closed, push_attempts, ev, policy, stop>>
  /\ \/ Delivers(c)
     \/ Stays(c, "no") /\ (closed \/ stop["pop"])
     \/ Stays(c, "parked") /\ ~closed
     \/ Stays(c, "spin")

\* The three actions that look at the queue for a push come to one of these.
LEMMA PushLooks ==
  ASSUME NEW p \in Producers, EnterPush(p) \/ ResumePush(p) \/ RelockPush(p)
  PROVE  PushOutcome(p)
<1>1. CASE EnterPush(p)
  BY <1>1 DEF EnterPush, PushOutcome, BlockWait, BlockSpin
<1>2. CASE ResumePush(p)
  BY <1>2 DEF ResumePush, PushOutcome, BlockWait
<1>3. CASE RelockPush(p)
  BY <1>3 DEF RelockPush, PushOutcome, BlockSpin
<1> QED
  BY <1>1, <1>2, <1>3

\* And those for a pop.
LEMMA PopLooks ==
  ASSUME NEW c \in Consumers, EnterPop(c) \/ ResumePop(c) \/ RelockPop(c)
  PROVE  PopOutcome(c)
<1>1. CASE EnterPop(c)
  BY <1>1 DEF EnterPop, PopOutcome, TryPop, Delivers, Stays
<1>2. CASE ResumePop(c)
  BY <1>2 DEF ResumePop, PopOutcome, TryPop, Delivers, Stays
<1>3. CASE RelockPop(c)
  BY <1>3 DEF RelockPop, PopOutcome, TryPop, Delivers, Stays
<1> QED
  BY <1>1, <1>2, <1>3

-----------------------------------------------------------------------------
(* The inductive invariant                                                 *)

\* A push that has been called has an event to offer.
Offering == \A p \in Producers : ppc[p] # "idle" => ev[p] \in Events

\* NoLostWakeup, one parked thread at a time, with the woken ones counted.
ConsumersServed ==
  \A c \in Consumers :
    cpc[c] = "parked" => ~closed /\ Len(queue) <= Count(cpc, Woken)
ProducersServed ==
  \A p \in Producers :
    ppc[p] = "parked" =>
      ~closed /\ (stop["push"] \/ capacity - Len(queue) <= Count(ppc, Woken))

IInv == TypeOK /\ Offering /\ ConsumersServed /\ ProducersServed

\* The two parts are the invariant TLC checks on an instance.
LEMMA ServedIsNoLostWakeup ==
  TypeOK => (NoLostWakeup <=> ConsumersServed /\ ProducersServed)
<1> SUFFICES ASSUME TypeOK PROVE NoLostWakeup <=> ConsumersServed /\ ProducersServed
  OBVIOUS
<1>1. DOMAIN ppc = Producers /\ DOMAIN cpc = Consumers
  BY DEF TypeOK
<1>2. Cardinality(WokenIn(cpc)) = Count(cpc, Woken) /\ Cardinality(WokenIn(ppc)) = Count(ppc, Woken)
  <2>1. WokenIn(cpc) = At(cpc, Woken) /\ WokenIn(ppc) = At(ppc, Woken)
    BY DEF WokenIn, At, Woken
  <2> QED
    BY <2>1 DEF Count
<1>3. /\ ParkedIn(cpc) # {} <=> \E c \in Consumers : cpc[c] = "parked"
      /\ ParkedIn(ppc) # {} <=> \E p \in Producers : ppc[p] = "parked"
  BY <1>1 DEF ParkedIn
<1> QED
  BY <1>2, <1>3 DEF NoLostWakeup, ConsumersServed, ProducersServed

\* Types that the proofs below use again and again.
LEMMA Types ==
  ASSUME TypeOK
  PROVE  /\ capacity \in Nat /\ queue \in Seq(Events) /\ Len(queue) \in Nat
         /\ ppc \in [Producers -> Places] /\ cpc \in [Consumers -> Places]
         /\ Count(ppc, Woken) \in Nat /\ Count(cpc, Woken) \in Nat
<1>1. ppc \in [Producers -> Places] /\ cpc \in [Consumers -> Places] /\ capacity \in Nat
  BY DEF TypeOK, Places
<1>2. Count(ppc, Woken) \in Nat /\ Count(cpc, Woken) \in Nat
  BY <1>1, CountType
<1> QED
  BY <1>1, <1>2 DEF TypeOK

-----------------------------------------------------------------------------
(* The inductive invariant is one                                          *)

\* Before the first call the queue is empty and nobody waits.
LEMMA InvInit == Init => IInv
<1> SUFFICES ASSUME Init PROVE IInv
  OBVIOUS
<1>1. closed \in BOOLEAN /\ stop \in [Flags -> BOOLEAN]
  BY DEF Init, Flags
<1>2. TypeOK
  <2>1. Len(queue) = 0 /\ capacity \in Nat
    BY CapacitiesAssumption DEF Init
  <2> QED
    BY <1>1, <2>1 DEF Init, TypeOK, NoEvent
<1>3. \A p \in Producers : ppc[p] = "idle"
  BY DEF Init
<1>4. \A c \in Consumers : cpc[c] = "idle"
  BY DEF Init
<1> QED
  BY <1>2, <1>3, <1>4 DEF IInv, Offering, ConsumersServed, ProducersServed

\* A step keeps the types, and an event once offered stays until the push returns.
LEMMA TypeStep == TypeOK /\ Offering /\ [Next]_vars => TypeOK' /\ Offering'
<1> SUFFICES ASSUME TypeOK, Offering, [Next]_vars PROVE TypeOK' /\ Offering'
  OBVIOUS
<1>a. /\ ppc \in [Producers -> Places] /\ cpc \in [Consumers -> Places]
      /\ queue \in Seq(Events) /\ Flags = {"push", "pop"}
  BY Types DEF Flags
<1>b. /\ \A new \in NotifyOne(ppc) : /\ new \in [Producers -> Places]
                                      /\ \A p \in Producers : new[p] # "idle" => ppc[p] # "idle"
      /\ \A new \in NotifyOne(cpc) : new \in [Consumers -> Places]
  BY <1>a, NotifiedOne
<1>c. /\ NotifyAll(ppc) \in [Producers -> Places] /\ NotifyAll(cpc) \in [Consumers -> Places]
      /\ \A p \in Producers : NotifyAll(ppc)[p] # "idle" => ppc[p] # "idle"
  BY <1>a, NotifiedAll
<1> USE <1>a DEF TypeOK, Offering, config, pushVars, popVars, NoEvent, Places
<1>1. ASSUME NEW p \in Producers, PushCall(p) PROVE TypeOK' /\ Offering'
  BY <1>1 DEF PushCall, Events
<1>2. ASSUME NEW p \in Producers, PushOutcome(p) PROVE TypeOK' /\ Offering'
  <2>1. CASE Accept(p)
    <3>1. /\ cpc' \in [Consumers -> Places]
          /\ queue' \in Seq(Events)
      BY <1>b, <1>2, <2>1, AppendProperties DEF Accept, PushOutcome
    <3>2. capacity' # 0 => Len(queue') <= capacity'
      <4>1. Len(queue') = Len(queue) + 1 /\ Len(queue) \in Nat /\ capacity' = capacity
        BY <1>2, <2>1, AppendProperties DEF Accept, PushOutcome
      <4>2. capacity = 0 \/ Len(queue) < capacity
        BY <1>2, <2>1 DEF PushOutcome, Accept, Hold, HasRoom
      <4> QED
        BY <4>1, <4>2, CapacitiesAssumption
    <3>3. Offering'
      BY <1>2, <2>1 DEF PushOutcome, Accept
    <3>4. TypeOK'
      BY <1>2, <2>1, <3>1, <3>2 DEF PushOutcome, Accept
    <3> QED
      BY <3>3, <3>4
  <2>2. ASSUME NEW pc \in {"no", "spin", "parked"}, Hold(p, pc) PROVE TypeOK' /\ Offering'
    BY <1>2, <2>2 DEF PushOutcome, Hold
  <2> QED
    BY <1>2, <2>1, <2>2 DEF PushOutcome
<1>3. ASSUME NEW p \in Producers, PushReturn(p) PROVE TypeOK' /\ Offering'
  BY <1>3 DEF PushReturn
<1>4. ASSUME NEW c \in Consumers, PopCall(c) PROVE TypeOK' /\ Offering'
  BY <1>4 DEF PopCall
<1>5. ASSUME NEW c \in Consumers, PopOutcome(c) PROVE TypeOK' /\ Offering'
  <2>1. CASE Delivers(c)
    <3>1. ppc' \in [Producers -> Places] /\ \A p \in Producers : ppc'[p] # "idle" => ppc[p] # "idle"
      BY <1>b, <2>1 DEF Delivers
    <3>2. queue' \in Seq(Events) /\ Head(queue) \in 0 .. MaxEvents
      BY <2>1, HeadTailProperties DEF Delivers, Events
    <3>3. capacity' # 0 => Len(queue') <= capacity'
      <4>1. Len(queue') = Len(queue) - 1 /\ Len(queue) \in Nat /\ capacity' = capacity
        BY <1>5, <2>1, HeadTailProperties DEF Delivers, PopOutcome
      <4> QED
        BY <4>1, CapacitiesAssumption
    <3>4. Offering'
      BY <1>5, <2>1, <3>1 DEF PopOutcome, Delivers
    <3>5. TypeOK'
      BY <1>5, <2>1, <3>1, <3>2, <3>3 DEF PopOutcome, Delivers
    <3> QED
      BY <3>4, <3>5
  <2>2. ASSUME NEW pc \in {"no", "spin", "parked"}, Stays(c, pc) PROVE TypeOK' /\ Offering'
    BY <1>5, <2>2 DEF PopOutcome, Stays
  <2> QED
    BY <1>5, <2>1, <2>2 DEF PopOutcome
<1>6. ASSUME NEW c \in Consumers, PopReturn(c) PROVE TypeOK' /\ Offering'
  BY <1>6 DEF PopReturn
<1>7. CASE Close
  <2>1. /\ ppc' \in [Producers -> Places] /\ cpc' \in [Consumers -> Places]
        /\ \A p \in Producers : ppc'[p] # "idle" => ppc[p] # "idle"
    BY <1>c, <1>7 DEF Close
  <2> QED
    BY <1>7, <2>1 DEF Close
<1>8. CASE Stop
  BY <1>8 DEF Stop
<1>9. CASE SpuriousWakeup
  <2>1. CASE \E p \in ParkedIn(ppc) : ppc' = [ppc EXCEPT ![p] = "woken"] /\ cpc' = cpc
    BY <1>9, <2>1 DEF SpuriousWakeup, ParkedIn
  <2>2. CASE \E c \in ParkedIn(cpc) : cpc' = [cpc EXCEPT ![c] = "woken"] /\ ppc' = ppc
    BY <1>9, <2>2 DEF SpuriousWakeup, ParkedIn
  <2> QED
    BY <1>9, <2>1, <2>2 DEF SpuriousWakeup
<1>10. CASE UNCHANGED vars
  BY <1>10 DEF vars
<1> QED
  BY <1>1, <1>2, <1>3, <1>4, <1>5, <1>6, <1>7, <1>8, <1>9, <1>10, PushLooks, PopLooks
  DEF Next, PushStep, PopStep, Finished

\* How the move of one thread changes the number of woken ones.
LEMMA OneMoves ==
  ASSUME NEW T, IsFiniteSet(T), NEW pc \in [T -> Places], NEW t \in T, NEW to
  PROVE  LET new == [pc EXCEPT ![t] = to]
         IN  /\ Count(pc, Woken) \in Nat /\ Count(new, Woken) \in Nat
             /\ Count(new, Woken) >= Count(pc, Woken) - 1
             /\ pc[t] # "woken" => Count(new, Woken) >= Count(pc, Woken)
<1> DEFINE new == [pc EXCEPT ![t] = to]
<1>1. Count(pc, Woken) \in Nat /\ Count(new, Woken) \in Nat
  BY CountType
<1>2. Count(new, Woken) = Count(pc, Woken) + One(to, Woken) - One(pc[t], Woken)
  BY CountMove
<1>3. One(to, Woken) \in {0, 1} /\ One(pc[t], Woken) \in {0, 1} /\ (pc[t] # "woken" => One(pc[t], Woken) = 0)
  BY DEF One, Woken
<1> QED
  BY <1>1, <1>2, <1>3

\* A push looking at the queue: its event has a woken consumer, or none is parked.
LEMMA PushServes ==
  ASSUME IInv, NEW p \in Producers, PushOutcome(p)
  PROVE  ConsumersServed' /\ ProducersServed'
<1>a. /\ TypeOK /\ ConsumersServed /\ ProducersServed
      /\ capacity \in Nat /\ Len(queue) \in Nat /\ queue \in Seq(Events)
      /\ ppc \in [Producers -> Places] /\ cpc \in [Consumers -> Places]
      /\ Count(cpc, Woken) \in Nat /\ ev[p] \in Events
  BY Types DEF IInv, Offering, PushOutcome
<1>b. closed' = closed /\ stop' = stop /\ capacity' = capacity
  BY DEF PushOutcome, config
<1>1. CASE Accept(p)
  <2>1. Len(queue') = Len(queue) + 1
    BY <1>a, <1>1, AppendProperties DEF Accept
  <2>2. \A c \in Consumers : cpc'[c] = "parked" =>
          cpc[c] = "parked" /\ Count(cpc', Woken) = Count(cpc, Woken) + 1
    BY <1>a, <1>1, NotifiedOne DEF Accept
  <2>3. /\ Count(ppc', Woken) \in Nat /\ Count(ppc, Woken) \in Nat
        /\ Count(ppc', Woken) >= Count(ppc, Woken) - 1
    BY <1>a, <1>1, OneMoves DEF Accept
  <2>4. \A q \in Producers : ppc'[q] = "parked" => ppc[q] = "parked"
    BY <1>a, <1>1 DEF Accept
  <2>5. ConsumersServed'
    BY <1>a, <1>b, <2>1, <2>2 DEF ConsumersServed
  <2>6. ProducersServed'
    BY <1>a, <1>b, <2>1, <2>3, <2>4 DEF ProducersServed
  <2> QED
    BY <2>5, <2>6
<1>2. ASSUME NEW pc \in Places, Hold(p, pc) PROVE
        /\ \A c \in Consumers : cpc'[c] = cpc[c]
        /\ Count(ppc', Woken) \in Nat /\ Count(ppc, Woken) \in Nat /\ Len(queue') = Len(queue)
        /\ ppc[p] # "woken" => Count(ppc', Woken) >= Count(ppc, Woken)
        /\ ConsumersServed'
  <2>1. cpc' = cpc /\ queue' = queue /\ ppc' = [ppc EXCEPT ![p] = pc]
    BY <1>2 DEF Hold
  <2> QED
    BY <1>a, <1>b, <2>1, OneMoves DEF ConsumersServed
<1>3. CASE Hold(p, "no") /\ (closed \/ stop["push"])
  <2>1. \A q \in Producers : ppc'[q] = "parked" => ppc[q] = "parked" /\ q # p
    BY <1>a, <1>3 DEF Hold
  <2> QED
    BY <1>a, <1>b, <1>2, <1>3, <2>1 DEF ProducersServed, Places
<1>4. CASE \E pc \in {"no", "spin"} : Hold(p, pc) /\ ppc[p] # "woken"
  <2>1. PICK pc \in {"no", "spin"} : Hold(p, pc) /\ ppc[p] # "woken"
    BY <1>4
  <2>2. \A q \in Producers : ppc'[q] = "parked" => ppc[q] = "parked"
    BY <1>a, <2>1 DEF Hold
  <2>3. ConsumersServed' /\ Count(ppc', Woken) >= Count(ppc, Woken) /\ Count(ppc', Woken) \in Nat
        /\ Count(ppc, Woken) \in Nat /\ Len(queue') = Len(queue)
    BY <1>2, <2>1 DEF Places
  <2>4. ProducersServed'
    BY <1>a, <1>b, <2>2, <2>3 DEF ProducersServed
  <2> QED
    BY <2>3, <2>4
<1>5. CASE Hold(p, "parked") /\ ~closed /\ ~HasRoom
  <2>1. ConsumersServed' /\ Count(ppc', Woken) \in Nat /\ Len(queue') = Len(queue)
    BY <1>2, <1>5 DEF Places
  <2>2. ProducersServed'
    BY <1>a, <1>b, <1>5, <2>1 DEF ProducersServed, HasRoom
  <2> QED
    BY <2>1, <2>2
<1> QED
  BY <1>1, <1>3, <1>4, <1>5 DEF PushOutcome

\* A pop looking at the queue: the place it frees has a woken producer, or none
\* is parked; and it parks only on an empty queue.
LEMMA PopServes ==
  ASSUME IInv, NEW c \in Consumers, PopOutcome(c)
  PROVE  ConsumersServed' /\ ProducersServed'
<1>a. /\ TypeOK /\ ConsumersServed /\ ProducersServed
      /\ capacity \in Nat /\ Len(queue) \in Nat /\ queue \in Seq(Events)
      /\ ppc \in [Producers -> Places] /\ cpc \in [Consumers -> Places]
      /\ Count(ppc, Woken) \in Nat
  BY Types DEF IInv
<1>b. closed' = closed /\ stop' = stop /\ capacity' = capacity
  BY DEF PopOutcome, config
<1>1. CASE Delivers(c)
  <2>1. Len(queue') = Len(queue) - 1
    BY <1>a, <1>1, HeadTailProperties DEF Delivers
  <2>2. \A p \in Producers : ppc'[p] = "parked" =>
          ppc[p] = "parked" /\ Count(ppc', Woken) = Count(ppc, Woken) + 1
    BY <1>a, <1>1, NotifiedOne DEF Delivers
  <2>3. /\ Count(cpc', Woken) \in Nat /\ Count(cpc, Woken) \in Nat
        /\ Count(cpc', Woken) >= Count(cpc, Woken) - 1
    BY <1>a, <1>1, OneMoves DEF Delivers
  <2>4. \A d \in Consumers : cpc'[d] = "parked" => cpc[d] = "parked"
    BY <1>a, <1>1 DEF Delivers
  <2>5. ConsumersServed'
    BY <1>a, <1>b, <2>1, <2>3, <2>4 DEF ConsumersServed
  <2>6. ProducersServed'
    BY <1>a, <1>b, <2>1, <2>2 DEF ProducersServed
  <2> QED
    BY <2>5, <2>6
<1>2. ASSUME NEW pc \in Places, Stays(c, pc), pc # "parked" \/ ~closed
      PROVE  ConsumersServed' /\ ProducersServed'
  <2>1. queue' = <<>> /\ Len(queue') = 0 /\ Count(cpc', Woken) \in Nat
    BY <1>a, <1>2, OneMoves DEF Stays
  <2>2. \A d \in Consumers : cpc'[d] = "parked" => ~closed
    BY <1>a, <1>2 DEF Stays, ConsumersServed
  <2>3. ConsumersServed'
    BY <1>b, <2>1, <2>2 DEF ConsumersServed
  <2>4. ProducersServed'
    BY <1>a, <1>b, <1>2 DEF ProducersServed, Stays
  <2> QED
    BY <2>3, <2>4
<1> QED
  BY <1>1, <1>2 DEF PopOutcome, Places

\* The step of a thread that is not looking at the queue serves as before.
LEMMA OthersServe ==
  ASSUME IInv,
         \/ \E p \in Producers : PushCall(p) \/ PushReturn(p)
         \/ \E c \in Consumers : PopCall(c) \/ PopReturn(c)
         \/ Close \/ Stop \/ SpuriousWakeup \/ UNCHANGED vars
  PROVE  ConsumersServed' /\ ProducersServed'
<1>a. /\ TypeOK /\ ConsumersServed /\ ProducersServed
      /\ capacity \in Nat /\ Len(queue) \in Nat
      /\ ppc \in [Producers -> Places] /\ cpc \in [Consumers -> Places]
      /\ Count(ppc, Woken) \in Nat /\ Count(cpc, Woken) \in Nat
  BY Types DEF IInv
<1>1. ASSUME NEW p \in Producers, PushCall(p) \/ PushReturn(p)
      PROVE  ConsumersServed' /\ ProducersServed'
  <2>1. /\ UNCHANGED <<capacity, queue, closed, stop, cpc>> /\ ppc[p] # "woken"
        /\ \E to \in Places \ {"parked"} : ppc' = [ppc EXCEPT ![p] = to]
    BY <1>1 DEF PushCall, PushReturn, config, popVars, Places
  <2>2. Count(ppc', Woken) >= Count(ppc, Woken) /\ Count(ppc', Woken) \in Nat
    BY <1>a, <2>1, OneMoves
  <2>3. ConsumersServed'
    BY <1>a, <2>1 DEF ConsumersServed
  <2>4. \A q \in Producers : ppc'[q] = "parked" => ppc[q] = "parked"
    BY <1>a, <2>1
  <2>5. ProducersServed'
    BY <1>a, <2>1, <2>2, <2>4 DEF ProducersServed
  <2> QED
    BY <2>3, <2>5
<1>2. ASSUME NEW c \in Consumers, PopCall(c) \/ PopReturn(c)
      PROVE  ConsumersServed' /\ ProducersServed'
  <2>1. /\ UNCHANGED <<capacity, queue, closed, stop, ppc>> /\ cpc[c] # "woken"
        /\ \E to \in Places \ {"parked"} : cpc' = [cpc EXCEPT ![c] = to]
    BY <1>2 DEF PopCall, PopReturn, config, pushVars, Places
  <2>2. Count(cpc', Woken) >= Count(cpc, Woken) /\ Count(cpc', Woken) \in Nat
    BY <1>a, <2>1, OneMoves
  <2>3. ProducersServed'
    BY <1>a, <2>1 DEF ProducersServed
  <2>4. \A d \in Consumers : cpc'[d] = "parked" => cpc[d] = "parked"
    BY <1>a, <2>1
  <2>5. ConsumersServed'
    BY <1>a, <2>1, <2>2, <2>4 DEF ConsumersServed
  <2> QED
    BY <2>3, <2>5
<1>3. CASE Close
  <2>1. /\ \A c \in Consumers : cpc'[c] # "parked"
        /\ \A p \in Producers : ppc'[p] # "parked"
    BY <1>a, <1>3, NotifiedAll DEF Close
  <2> QED
    BY <2>1 DEF ConsumersServed, ProducersServed
<1>4. CASE Stop
  <2>1. UNCHANGED <<capacity, queue, closed, ppc, cpc>> /\ (stop["push"] => stop'["push"])
    BY <1>4 DEF Stop, config, pushVars, popVars, Flags
  <2> QED
    BY <1>a, <2>1 DEF ConsumersServed, ProducersServed
<1>5. CASE SpuriousWakeup
  <2>1. UNCHANGED <<capacity, queue, closed, stop>>
    BY <1>5 DEF SpuriousWakeup, config
  <2>2. CASE \E p \in ParkedIn(ppc) : ppc' = [ppc EXCEPT ![p] = "woken"] /\ cpc' = cpc
    <3>1. PICK p \in Producers : ppc[p] = "parked" /\ ppc' = [ppc EXCEPT ![p] = "woken"] /\ cpc' = cpc
      BY <1>a, <2>2 DEF ParkedIn
    <3>2. Count(ppc', Woken) >= Count(ppc, Woken) /\ Count(ppc', Woken) \in Nat
      BY <1>a, <3>1, OneMoves
    <3>3. \A q \in Producers : ppc'[q] = "parked" => ppc[q] = "parked"
      BY <1>a, <3>1
    <3> QED
      BY <1>a, <2>1, <3>1, <3>2, <3>3 DEF ConsumersServed, ProducersServed
  <2>3. CASE \E c \in ParkedIn(cpc) : cpc' = [cpc EXCEPT ![c] = "woken"] /\ ppc' = ppc
    <3>1. PICK c \in Consumers : cpc[c] = "parked" /\ cpc' = [cpc EXCEPT ![c] = "woken"] /\ ppc' = ppc
      BY <1>a, <2>3 DEF ParkedIn
    <3>2. Count(cpc', Woken) >= Count(cpc, Woken) /\ Count(cpc', Woken) \in Nat
      BY <1>a, <3>1, OneMoves
    <3>3. \A d \in Consumers : cpc'[d] = "parked" => cpc[d] = "parked"
      BY <1>a, <3>1
    <3> QED
      BY <1>a, <2>1, <3>1, <3>2, <3>3 DEF ConsumersServed, ProducersServed
  <2> QED
    BY <1>5, <2>2, <2>3 DEF SpuriousWakeup
<1>6. CASE UNCHANGED vars
  BY <1>a, <1>6 DEF vars, config, pushVars, popVars, ConsumersServed, ProducersServed
<1> QED
  BY <1>1, <1>2, <1>3, <1>4, <1>5, <1>6

\* Together the four parts are inductive.
LEMMA InvStep == IInv /\ [Next]_vars => IInv'
<1> SUFFICES ASSUME IInv, [Next]_vars PROVE IInv'
  OBVIOUS
<1>1. TypeOK' /\ Offering'
  BY TypeStep DEF IInv
<1>2. ConsumersServed' /\ ProducersServed'
  BY PushLooks, PopLooks, PushServes, PopServes, OthersServe DEF Next, PushStep, PopStep, Finished
<1> QED
  BY <1>1, <1>2 DEF IInv

\* The inductive invariant holds throughout.
THEOREM Invariance == Spec => []IInv
BY InvInit, InvStep, PTL DEF Spec

\* Every reachable state is well typed, for every capacity, strategy and set of threads.
THEOREM TypeCorrect == Spec => []TypeOK
<1>1. IInv => TypeOK
  BY DEF IInv
<1> QED
  BY <1>1, Invariance, PTL

\* Waking one thread per event and per freed place is enough: no parked thread
\* is left behind with work to do and nobody woken to do it.
THEOREM WakeupsCorrect == Spec => []NoLostWakeup
<1>1. IInv => NoLostWakeup
  BY ServedIsNoLostWakeup DEF IInv
<1> QED
  BY <1>1, Invariance, PTL

\* A consumer that pop refuses has seen the queue empty in the same look.
THEOREM DrainCorrect == Spec => DrainsBeforeRefusing
<1>1. TypeOK /\ [Next]_vars =>
        [\A c \in Consumers : cpc[c] # "no" /\ cpc'[c] = "no" => queue = <<>>]_vars
  <2> SUFFICES ASSUME TypeOK, [Next]_vars, NEW c \in Consumers, cpc[c] # "no", cpc'[c] = "no"
               PROVE  queue = <<>>
    OBVIOUS
  <2>a. cpc \in [Consumers -> Places] /\ IsFiniteSet(Consumers)
    BY Types
  <2>1. ASSUME NEW p \in Producers, PushOutcome(p) PROVE FALSE
    <3>1. cpc' \in NotifyOne(cpc) \/ cpc' = cpc
      BY <2>1 DEF PushOutcome, Accept, Hold
    <3>2. cpc'[c] = cpc[c] \/ cpc'[c] = "woken"
      BY <2>a, <3>1, NotifiedOne
    <3> QED
      BY <3>2
  <2>2. ASSUME NEW d \in Consumers, PopOutcome(d) PROVE queue = <<>>
    BY <2>a, <2>2 DEF PopOutcome, Delivers, Stays
  <2>3. ASSUME NEW p \in Producers, PushCall(p) \/ PushReturn(p) PROVE FALSE
    BY <2>3 DEF PushCall, PushReturn, popVars
  <2>4. ASSUME NEW d \in Consumers, PopCall(d) \/ PopReturn(d) PROVE FALSE
    BY <2>a, <2>4 DEF PopCall, PopReturn
  <2>5. CASE Close
    <3>1. cpc'[c] = cpc[c] \/ cpc'[c] = "woken"
      BY <2>a, <2>5, NotifiedAll DEF Close
    <3> QED
      BY <3>1
  <2>6. CASE Stop \/ SpuriousWakeup \/ UNCHANGED vars
    BY <2>a, <2>6 DEF Stop, SpuriousWakeup, ParkedIn, vars, popVars
  <2> QED
    BY <2>1, <2>2, <2>3, <2>4, <2>5, <2>6, PushLooks, PopLooks DEF Next, PushStep, PopStep, Finished
<1> QED
  BY <1>1, TypeCorrect, PTL DEF Spec, DrainsBeforeRefusing

-----------------------------------------------------------------------------
(* The queue implements the contract of IEventQueue                        *)

\* What a caller sees of one call at place pc.
PushSeen(pc, b) ==
  CASE pc = "idle" -> "idle"
    [] pc = "ok"   -> "accepted"
    [] pc = "no"   -> "refused"
    [] OTHER       -> b
PopSeen(pc) ==
  CASE pc = "idle" -> "idle"
    [] pc = "ok"   -> "delivered"
    [] pc = "no"   -> "refused"
    [] OTHER       -> "calling"

\* A call shows nothing until the look at the queue that decides it.
LEMMA SeenAt ==
  /\ \A b : PushSeen("idle", b) = "idle" /\ PushSeen("ok", b) = "accepted" /\ PushSeen("no", b) = "refused"
  /\ \A b : \A pc \in {"enter", "parked", "woken", "spin"} : PushSeen(pc, b) = b
  /\ PopSeen("idle") = "idle" /\ PopSeen("ok") = "delivered" /\ PopSeen("no") = "refused"
  /\ \A pc \in {"enter", "parked", "woken", "spin"} : PopSeen(pc) = "calling"
BY DEF PushSeen, PopSeen

\* The phases, one call at a time.
LEMMA Phases ==
  /\ PushPhase = [q \in Producers |-> PushSeen(ppc[q], policy[q])]
  /\ PushPhase' = [q \in Producers |-> PushSeen(ppc'[q], policy'[q])]
  /\ PopPhase = [c \in Consumers |-> PopSeen(cpc[c])]
  /\ PopPhase' = [c \in Consumers |-> PopSeen(cpc'[c])]
BY DEF PushPhase, PopPhase, PushSeen, PopSeen

\* When one thread moves, only what its own caller sees changes.
LEMMA PushPhaseMoves ==
  ASSUME TypeOK, NEW p \in Producers, NEW pc, NEW b, ppc' = [ppc EXCEPT ![p] = pc],
         policy' = [policy EXCEPT ![p] = b]
  PROVE  /\ PushPhase[p] = PushSeen(ppc[p], policy[p])
         /\ PushPhase' = [PushPhase EXCEPT ![p] = PushSeen(pc, b)]
<1>1. \A q \in Producers : /\ ppc'[q] = IF q = p THEN pc ELSE ppc[q]
                           /\ policy'[q] = IF q = p THEN b ELSE policy[q]
  BY DEF TypeOK
<1> QED
  BY <1>1, Phases

\* The same of a pop.
LEMMA PopPhaseMoves ==
  ASSUME TypeOK, NEW c \in Consumers, NEW pc, cpc' = [cpc EXCEPT ![c] = pc]
  PROVE  /\ PopPhase[c] = PopSeen(cpc[c])
         /\ PopPhase' = [PopPhase EXCEPT ![c] = PopSeen(pc)]
<1>1. \A d \in Consumers : cpc'[d] = IF d = c THEN pc ELSE cpc[d]
  BY DEF TypeOK
<1> QED
  BY <1>1, Phases

\* Being woken is not seen from outside.
LEMMA WakingUnseen ==
  ASSUME TypeOK
  PROVE  /\ (\A p \in Producers : ppc'[p] = ppc[p] \/ (ppc[p] = "parked" /\ ppc'[p] = "woken"))
              /\ policy' = policy => PushPhase' = PushPhase
         /\ (\A c \in Consumers : cpc'[c] = cpc[c] \/ (cpc[c] = "parked" /\ cpc'[c] = "woken"))
              => PopPhase' = PopPhase
<1>1. \A b : PushSeen("parked", b) = PushSeen("woken", b)
  BY SeenAt
<1>2. PopSeen("parked") = PopSeen("woken")
  BY SeenAt
<1> QED
  BY <1>1, <1>2, Phases

\* The empty deque is the empty queue.
LEMMA ContractInit == Init => EQ!Init
<1> SUFFICES ASSUME Init PROVE EQ!Init
  OBVIOUS
<1>1. PushPhase = [p \in Producers |-> "idle"] /\ PopPhase = [c \in Consumers |-> "idle"]
  BY DEF Init, PushPhase, PopPhase
<1> QED
  BY <1>1 DEF Init, EQ!Init, EQ!Flags, Flags

\* A look at the queue by a push inserts its event, refuses it with a reason the
\* contract knows, or decides nothing.
LEMMA ContractPush ==
  ASSUME TypeOK, NEW p \in Producers, PushOutcome(p)
  PROVE  EQ!Next \/ UNCHANGED EQ!eqvars
<1>a. /\ ppc \in [Producers -> Places] /\ cpc \in [Consumers -> Places] /\ IsFiniteSet(Consumers)
      /\ policy[p] \in EQ!Policies /\ policy' = [policy EXCEPT ![p] = policy[p]] /\ policy' = policy
      /\ UNCHANGED <<capacity, ev, closed, stop, out>>
  BY Types DEF TypeOK, EQ!Policies, PushOutcome, config
<1>b. PushPhase[p] = policy[p]
  <2>1. ppc[p] \in {"enter", "woken", "spin"}
    BY DEF PushOutcome
  <2> QED
    BY <2>1, Phases, SeenAt
<1>1. CASE Accept(p) /\ (capacity = 0 \/ HasRoom)
  <2>1. PopPhase' = PopPhase
    BY <1>a, <1>1, NotifiedOne, WakingUnseen DEF Accept
  <2>2. PushPhase' = [PushPhase EXCEPT ![p] = "accepted"]
    <3>1. PushPhase' = [PushPhase EXCEPT ![p] = PushSeen("ok", policy[p])]
      BY <1>a, <1>1, PushPhaseMoves DEF Accept
    <3> QED
      BY <3>1, SeenAt
  <2>3. EQ!PushAccept(p)
    BY <1>a, <1>b, <1>1, <2>1, <2>2 DEF Accept, HasRoom, EQ!PushAccept, EQ!HasRoom
  <2> QED
    BY <2>3 DEF EQ!Next
<1>2. CASE Hold(p, "no") /\ (closed \/ stop["push"] \/ (policy[p] = "Drop" /\ capacity # 0))
  <2>1. PushPhase' = [PushPhase EXCEPT ![p] = "refused"]
    <3>1. PushPhase' = [PushPhase EXCEPT ![p] = PushSeen("no", policy[p])]
      BY <1>a, <1>2, PushPhaseMoves DEF Hold
    <3> QED
      BY <3>1, SeenAt
  <2>2. PopPhase' = PopPhase /\ queue' = queue
    BY <1>2 DEF Hold, PopPhase
  <2>3. EQ!PushRefuse(p)
    BY <1>a, <1>b, <1>2, <2>1, <2>2 DEF EQ!PushRefuse
  <2> QED
    BY <2>3 DEF EQ!Next
<1>3. CASE Hold(p, "spin") \/ Hold(p, "parked")
  <2>1. PushPhase' = [PushPhase EXCEPT ![p] = PushPhase[p]]
    BY <1>a, <1>b, <1>3, PushPhaseMoves, SeenAt DEF Hold
  <2>2. PushPhase' = PushPhase
    BY <2>1 DEF PushPhase
  <2>3. PopPhase' = PopPhase /\ queue' = queue
    BY <1>3 DEF Hold, PopPhase
  <2> QED
    BY <1>a, <2>2, <2>3 DEF EQ!eqvars
<1> QED
  BY <1>1, <1>2, <1>3 DEF PushOutcome

\* A look at the queue by a pop.
LEMMA ContractPop ==
  ASSUME TypeOK, NEW c \in Consumers, PopOutcome(c)
  PROVE  EQ!Next \/ UNCHANGED EQ!eqvars
<1>a. /\ ppc \in [Producers -> Places] /\ cpc \in [Consumers -> Places] /\ IsFiniteSet(Producers)
      /\ UNCHANGED <<capacity, ev, closed, stop>> /\ policy' = policy
  BY Types DEF PopOutcome, config
<1>b. PopPhase[c] = "calling"
  <2>1. cpc[c] \in {"enter", "woken", "spin"}
    BY DEF PopOutcome
  <2> QED
    BY <2>1, Phases, SeenAt
<1>1. CASE Delivers(c)
  <2>1. PushPhase' = PushPhase
    BY <1>a, <1>1, NotifiedOne, WakingUnseen DEF Delivers
  <2>2. PopPhase' = [PopPhase EXCEPT ![c] = "delivered"]
    <3>1. PopPhase' = [PopPhase EXCEPT ![c] = PopSeen("ok")]
      BY <1>1, PopPhaseMoves DEF Delivers
    <3> QED
      BY <3>1, SeenAt
  <2>3. EQ!PopDeliver(c)
    BY <1>a, <1>b, <1>1, <2>1, <2>2 DEF Delivers, EQ!PopDeliver
  <2> QED
    BY <2>3 DEF EQ!Next
<1>2. ASSUME NEW pc, Stays(c, pc)
      PROVE  PushPhase' = PushPhase /\ PopPhase' = [PopPhase EXCEPT ![c] = PopSeen(pc)]
             /\ UNCHANGED <<queue, out>>
  <2>1. PopPhase' = [PopPhase EXCEPT ![c] = PopSeen(pc)]
    BY <1>2, PopPhaseMoves DEF Stays
  <2> QED
    BY <1>a, <1>2, <2>1 DEF Stays, PushPhase
<1>3. CASE Stays(c, "no") /\ (closed \/ stop["pop"])
  <2>1. EQ!PopRefuse(c)
    BY <1>a, <1>b, <1>2, <1>3, SeenAt DEF EQ!PopRefuse
  <2> QED
    BY <2>1 DEF EQ!Next
<1>4. CASE Stays(c, "parked") \/ Stays(c, "spin")
  <2>1. PopPhase' = [PopPhase EXCEPT ![c] = PopPhase[c]]
    BY <1>b, <1>2, <1>4, SeenAt
  <2>2. PopPhase' = PopPhase
    BY <2>1, ZenonT(30) DEF PopPhase
  <2> QED
    BY <1>a, <1>2, <1>4, <2>2 DEF EQ!eqvars
<1> QED
  BY <1>1, <1>3, <1>4 DEF PopOutcome

\* Each step is a step of the contract or changes nothing a caller sees.
LEMMA ContractStep == TypeOK /\ [Next]_vars => [EQ!Next]_(EQ!eqvars)
<1> SUFFICES ASSUME TypeOK, [Next]_vars PROVE EQ!Next \/ UNCHANGED EQ!eqvars
  OBVIOUS
<1>a. ppc \in [Producers -> Places] /\ cpc \in [Consumers -> Places]
  BY Types
<1>1. ASSUME NEW p \in Producers, PushCall(p) PROVE EQ!PushCall(p)
  <2>1. PICK b \in EQ!Policies : policy' = [policy EXCEPT ![p] = b]
    BY <1>1 DEF PushCall, EQ!Policies
  <2>2. /\ PushPhase[p] = PushSeen("idle", policy[p])
        /\ PushPhase' = [PushPhase EXCEPT ![p] = PushSeen("enter", b)]
    <3>1. ppc[p] = "idle" /\ ppc' = [ppc EXCEPT ![p] = "enter"]
      BY <1>1 DEF PushCall
    <3> QED
      BY <2>1, <3>1, PushPhaseMoves
  <2>3. PushPhase[p] = "idle" /\ PushPhase' = [PushPhase EXCEPT ![p] = b]
    BY <2>2, SeenAt
  <2>4. push_attempts' \in Events /\ ev' = [ev EXCEPT ![p] = push_attempts'] /\ PopPhase' = PopPhase
    BY <1>1 DEF PushCall, TypeOK, Events, popVars, PopPhase
  <2> QED
    BY <1>1, <2>3, <2>4 DEF PushCall, EQ!PushCall, config, popVars
<1>2. ASSUME NEW p \in Producers, PushReturn(p) PROVE EQ!PushReturn(p)
  <2>1. /\ PushPhase[p] = PushSeen(ppc[p], policy[p])
        /\ PushPhase' = [PushPhase EXCEPT ![p] = PushSeen("idle", "Block")]
    BY <1>2, PushPhaseMoves DEF PushReturn
  <2>2. PushPhase[p] \in {"accepted", "refused"} /\ PushPhase' = [PushPhase EXCEPT ![p] = "idle"]
    <3>1. ppc[p] \in {"ok", "no"}
      BY <1>2 DEF PushReturn
    <3>2. PushPhase' = [PushPhase EXCEPT ![p] = "idle"]
      BY <2>1, SeenAt
    <3>3. PushSeen("ok", policy[p]) = "accepted" /\ PushSeen("no", policy[p]) = "refused"
      BY SeenAt
    <3> QED
      BY <2>1, <3>1, <3>2, <3>3
  <2> QED
    BY <1>2, <2>2 DEF PushReturn, EQ!PushReturn, config, popVars, PopPhase
<1>3. ASSUME NEW c \in Consumers, PopCall(c) PROVE EQ!PopCall(c)
  <2>1. PopPhase[c] = "idle" /\ PopPhase' = [PopPhase EXCEPT ![c] = "calling"]
    <3>1. PopPhase[c] = PopSeen("idle") /\ PopPhase' = [PopPhase EXCEPT ![c] = PopSeen("enter")]
      BY <1>3, PopPhaseMoves DEF PopCall
    <3> QED
      BY <3>1, SeenAt
  <2> QED
    BY <1>3, <2>1 DEF PopCall, EQ!PopCall, config, pushVars, PushPhase
<1>4. ASSUME NEW c \in Consumers, PopReturn(c) PROVE EQ!PopReturn(c)
  <2>1. PopPhase[c] = "delivered" /\ PopPhase' = [PopPhase EXCEPT ![c] = "idle"]
    <3>1. PopPhase[c] = PopSeen("ok") /\ PopPhase' = [PopPhase EXCEPT ![c] = PopSeen("idle")]
      BY <1>4, PopPhaseMoves DEF PopReturn
    <3> QED
      BY <3>1, SeenAt
  <2> QED
    BY <1>4, <2>1 DEF PopReturn, EQ!PopReturn, config, pushVars, PushPhase
<1>5. CASE Close
  <2>1. PushPhase' = PushPhase /\ PopPhase' = PopPhase
    BY <1>a, <1>5, NotifiedAll, WakingUnseen DEF Close
  <2> QED
    BY <1>5, <2>1 DEF Close, EQ!Close, EQ!Next, config
<1>6. CASE Stop
  <2>1. EQ!Stop
    BY <1>6 DEF Stop, EQ!Stop, Flags, EQ!Flags, config, pushVars, popVars, PushPhase, PopPhase
  <2> QED
    BY <2>1 DEF EQ!Next
<1>7. CASE SpuriousWakeup
  <2>1. PushPhase' = PushPhase /\ PopPhase' = PopPhase
    BY <1>a, <1>7, WakingUnseen DEF SpuriousWakeup, ParkedIn
  <2> QED
    BY <1>7, <2>1 DEF SpuriousWakeup, EQ!eqvars, config
<1>8. CASE UNCHANGED vars
  BY <1>8 DEF vars, config, pushVars, popVars, PushPhase, PopPhase, EQ!eqvars
<1> QED
  BY <1>1, <1>2, <1>3, <1>4, <1>5, <1>6, <1>7, <1>8, PushLooks, PopLooks, ContractPush, ContractPop
  DEF Next, PushStep, PopStep, Finished, EQ!Next

\* Whatever the wait strategy and however many threads, the deque behaves as
\* the FIFO IEventQueue promises.
THEOREM Refinement == Spec => Contract
BY ContractInit, ContractStep, TypeCorrect, PTL DEF Spec, Contract, EQ!Spec

-----------------------------------------------------------------------------
(* What a step does to the queue, thread by thread                         *)

\* A thread other than the one that moves may only be woken.
Stirred(T, pc, new) == \A t \in T : new[t] = pc[t] \/ (pc[t] = "parked" /\ new[t] = "woken")

\* A look at the queue by a push.
LEMMA PushEffect ==
  ASSUME TypeOK, NEW p \in Producers, PushOutcome(p)
  PROVE  /\ UNCHANGED <<closed, push_attempts, ev, policy, out, stop>>
         /\ \A q \in Producers \ {p} : ppc'[q] = ppc[q]
         /\ ppc[p] \notin {"idle", "ok", "no"}
         /\ Stirred(Consumers, cpc, cpc')
         /\ \/ ppc'[p] = "ok" /\ queue' = Append(queue, ev[p])
            \/ /\ queue' = queue /\ ppc'[p] \in {"no", "spin", "parked"}
               /\ ppc'[p] = "no" => closed \/ stop["push"] \/ policy[p] = "Drop"
<1>a. /\ ppc \in [Producers -> Places] /\ cpc \in [Consumers -> Places] /\ IsFiniteSet(Consumers)
  BY Types
<1>1. CASE Accept(p)
  <2>1. Stirred(Consumers, cpc, cpc')
    BY <1>a, <1>1, NotifiedOne DEF Accept, Stirred
  <2> QED
    BY <1>a, <1>1, <2>1 DEF Accept, PushOutcome
<1>2. ASSUME NEW pc \in {"no", "spin", "parked"}, Hold(p, pc),
             pc = "no" => closed \/ stop["push"] \/ policy[p] = "Drop"
      PROVE  /\ ppc'[p] = pc /\ queue' = queue /\ \A q \in Producers \ {p} : ppc'[q] = ppc[q]
             /\ Stirred(Consumers, cpc, cpc')
  BY <1>a, <1>2 DEF Hold, Stirred
<1>3. \/ Accept(p)
      \/ \E pc \in {"no", "spin", "parked"} :
           Hold(p, pc) /\ (pc = "no" => closed \/ stop["push"] \/ policy[p] = "Drop")
  BY DEF PushOutcome
<1>4. UNCHANGED <<closed, push_attempts, ev, policy, out, stop>> /\ ppc[p] \notin {"idle", "ok", "no"}
  BY DEF PushOutcome
<1>5. CASE \E pc \in {"no", "spin", "parked"} :
             Hold(p, pc) /\ (pc = "no" => closed \/ stop["push"] \/ policy[p] = "Drop")
  BY <1>2, <1>4, <1>5
<1>6. CASE Accept(p)
  BY <1>1, <1>4, <1>6
<1> QED
  BY <1>3, <1>5, <1>6

\* A look at the queue by a pop.
LEMMA PopEffect ==
  ASSUME TypeOK, NEW c \in Consumers, PopOutcome(c)
  PROVE  /\ UNCHANGED <<closed, push_attempts, ev, policy, stop>>
         /\ \A d \in Consumers \ {c} : cpc'[d] = cpc[d]
         /\ cpc[c] \notin {"idle", "ok", "no"}
         /\ Stirred(Producers, ppc, ppc')
         /\ \/ /\ cpc'[c] = "ok" /\ queue # <<>> /\ queue' = Tail(queue)
               /\ out' = [out EXCEPT ![c] = Head(queue)]
            \/ /\ queue = <<>> /\ queue' = queue /\ out' = out /\ cpc'[c] \in {"no", "spin", "parked"}
               /\ cpc'[c] = "no" => closed \/ stop["pop"]
<1>a. /\ ppc \in [Producers -> Places] /\ cpc \in [Consumers -> Places] /\ IsFiniteSet(Producers)
  BY Types
<1>1. CASE Delivers(c)
  <2>1. Stirred(Producers, ppc, ppc')
    BY <1>a, <1>1, NotifiedOne DEF Delivers, Stirred
  <2> QED
    BY <1>a, <1>1, <2>1 DEF Delivers, PopOutcome
<1>2. ASSUME NEW pc \in {"no", "spin", "parked"}, Stays(c, pc), pc = "no" => closed \/ stop["pop"]
      PROVE  /\ cpc'[c] = pc /\ queue = <<>> /\ queue' = queue /\ out' = out
             /\ \A d \in Consumers \ {c} : cpc'[d] = cpc[d]
             /\ Stirred(Producers, ppc, ppc')
  BY <1>a, <1>2 DEF Stays, Stirred
<1>3. \/ Delivers(c)
      \/ \E pc \in {"no", "spin", "parked"} : Stays(c, pc) /\ (pc = "no" => closed \/ stop["pop"])
  BY DEF PopOutcome
<1>4. UNCHANGED <<closed, push_attempts, ev, policy, stop>> /\ cpc[c] \notin {"idle", "ok", "no"}
  BY DEF PopOutcome
<1>5. CASE \E pc \in {"no", "spin", "parked"} : Stays(c, pc) /\ (pc = "no" => closed \/ stop["pop"])
  BY <1>2, <1>4, <1>5
<1> QED
  BY <1>1, <1>3, <1>4, <1>5
=============================================================================
