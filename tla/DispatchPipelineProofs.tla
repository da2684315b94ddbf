------------------------ MODULE DispatchPipelineProofs ------------------------
(***************************************************************************)
(* A run of the dispatch pipeline accounts for every event, for every      *)
(* finite set of ingress threads, number of workers, and capacity.         *)
(***************************************************************************)
EXTENDS DispatchPipeline, Counting, FiniteSetTheorems, FunctionTheorems, SequenceTheorems, TLAPS

USE SizesAssumption, ThreadsAssumption

-----------------------------------------------------------------------------
(* Threads at given places                                                 *)

\* A count is a natural number, and positive as soon as a thread is there.
LEMMA CountType ==
  ASSUME NEW places, IsFiniteSet(DOMAIN places), NEW S
  PROVE  /\ Count(places, S) \in Nat
         /\ \A t \in DOMAIN places : places[t] \in S => Count(places, S) > 0
<1>1. IsFiniteSet(At(places, S)) /\ Count(places, S) \in Nat
  BY FS_Subset, FS_CardinalityType DEF At, Count
<1>2. At(places, S) # {} => Count(places, S) # 0
  BY <1>1, FS_EmptySet DEF Count
<1> QED
  BY <1>1, <1>2 DEF At

\* No thread is anywhere: the count is zero.
LEMMA CountNone ==
  ASSUME NEW places, NEW S, \A t \in DOMAIN places : places[t] \notin S
  PROVE  Count(places, S) = 0
<1>1. At(places, S) = {}
  BY DEF At
<1> QED
  BY <1>1, FS_EmptySet DEF Count

\* One thread moves: it leaves the count of where it was and enters that of
\* where it goes.
LEMMA CountMove ==
  ASSUME NEW places, IsFiniteSet(DOMAIN places), NEW S, NEW t \in DOMAIN places, NEW to
  PROVE  Count([places EXCEPT ![t] = to], S) = Count(places, S) + One(to, S) - One(places[t], S)
<1> DEFINE new == [places EXCEPT ![t] = to]
<1> USE DEF One
<1>1. IsFiniteSet(At(places, S)) /\ Count(places, S) \in Nat
  BY FS_Subset, CountType DEF At
<1>2. CASE places[t] \in S /\ to \notin S
  <2>1. At(new, S) = At(places, S) \ {t} /\ t \in At(places, S)
    BY <1>2 DEF At
  <2> QED
    <3>1. Cardinality(At(places, S) \ {t}) = Cardinality(At(places, S)) - 1
      BY <1>1, <2>1, FS_RemoveElement, Zenon
    <3>2. Count(new, S) = Count(places, S) - 1
      BY <2>1, <3>1 DEF Count
    <3> QED
      BY <1>1, <1>2, <3>2
<1>3. CASE places[t] \notin S /\ to \in S
  <2>1. At(new, S) = At(places, S) \cup {t} /\ t \notin At(places, S)
    BY <1>3 DEF At
  <2> QED
    <3>1. Count(new, S) = Count(places, S) + 1
      BY <1>1, <2>1, FS_AddElement DEF Count
    <3> QED
      BY <1>1, <1>3, <3>1
<1>4. CASE places[t] \in S <=> to \in S
  <2>1. At(new, S) = At(places, S)
    BY <1>4 DEF At
  <2> QED
    <3>1. Count(new, S) = Count(places, S)
      BY <2>1 DEF Count
    <3> QED
      BY <1>1, <1>4, <3>1
<1> QED
  BY <1>2, <1>3, <1>4

\* A count is at most the number of threads.
LEMMA CountBound ==
  ASSUME NEW places, IsFiniteSet(DOMAIN places), NEW S
  PROVE  Count(places, S) <= Cardinality(DOMAIN places) /\ Cardinality(DOMAIN places) \in Nat
<1>1. At(places, S) \in SUBSET (DOMAIN places)
  BY DEF At
<1> QED
  BY <1>1, FS_Subset, FS_CardinalityType DEF Count

-----------------------------------------------------------------------------
(* Events of a kind in a queue, and in several                             *)

\* A sequence has finitely many values of any kind, the empty one none.
LEMMA CountSeqType ==
  ASSUME NEW V, NEW s \in Seq(V), NEW S
  PROVE  /\ IsFiniteSet(DOMAIN s) /\ Count(s, S) \in Nat
         /\ s = <<>> => Count(s, S) = 0
<1>1. DOMAIN s = 1 .. Len(s) /\ Len(s) \in Nat
  OBVIOUS
<1>2. IsFiniteSet(DOMAIN s)
  BY <1>1, FS_Interval
<1>3. s = <<>> => \A i \in DOMAIN s : s[i] \notin S
  BY <1>1
<1> QED
  BY <1>2, <1>3, CountType, CountNone

\* One value is appended.
LEMMA CountAppend ==
  ASSUME NEW V, NEW s \in Seq(V), NEW e \in V, NEW S
  PROVE  Count(Append(s, e), S) = Count(s, S) + One(e, S)
<1> DEFINE new == Append(s, e)
           n   == Len(s) + 1
<1>1. /\ DOMAIN s = 1 .. Len(s) /\ DOMAIN new = 1 .. n /\ Len(s) \in Nat
      /\ new[n] = e /\ \A i \in 1 .. Len(s) : new[i] = s[i]
  BY AppendProperties
<1>2. IsFiniteSet(At(s, S)) /\ Count(s, S) \in Nat /\ n \notin At(s, S)
  BY <1>1, CountSeqType, FS_Subset DEF At
<1>3. CASE e \in S
  <2>1. At(new, S) = At(s, S) \cup {n}
    BY <1>1, <1>3 DEF At
  <2>2. Count(new, S) = Count(s, S) + 1
    BY <1>2, <2>1, FS_AddElement DEF Count
  <2> QED
    BY <1>3, <2>2 DEF One
<1>4. CASE e \notin S
  <2>1. At(new, S) = At(s, S)
    BY <1>1, <1>4 DEF At
  <2>2. Count(new, S) = Count(s, S)
    BY <2>1 DEF Count
  <2> QED
    BY <1>2, <1>4, <2>2 DEF One
<1> QED
  BY <1>3, <1>4

\* The first value is taken off.
LEMMA CountTail ==
  ASSUME NEW V, NEW s \in Seq(V), s # <<>>, NEW S
  PROVE  Count(s, S) = Count(Tail(s), S) + One(Head(s), S)
<1> DEFINE rest  == Tail(s)
           later == At(s, S) \ {1}
<1>1. /\ rest \in Seq(V) /\ DOMAIN s = 1 .. Len(s) /\ Len(s) \in Nat \ {0}
      /\ DOMAIN rest = 1 .. Len(s) - 1 /\ \A i \in 1 .. Len(s) - 1 : rest[i] = s[i + 1]
  BY HeadTailProperties
<1>2. IsFiniteSet(At(s, S)) /\ Count(s, S) \in Nat /\ IsFiniteSet(later)
  BY CountSeqType, FS_Subset DEF At
<1>3. Cardinality(At(rest, S)) = Cardinality(later)
  <2> DEFINE shift == [i \in later |-> i - 1]
  <2>1. \A i \in later : i \in 2 .. Len(s) /\ s[i] \in S
    BY <1>1 DEF At
  <2>2. shift \in [later -> At(rest, S)]
    <3>1. ASSUME NEW i \in later PROVE i - 1 \in At(rest, S)
      <4>1. i \in 2 .. Len(s) /\ s[i] \in S
        BY <2>1
      <4>2. i - 1 \in 1 .. Len(s) - 1 /\ (i - 1) + 1 = i
        BY <1>1, <4>1
      <4> QED
        BY <1>1, <4>1, <4>2 DEF At
    <3> QED
      BY <3>1
  <2>3. \A i, j \in later : shift[i] = shift[j] => i = j
    BY <2>1
  <2>4. \A k \in At(rest, S) : \E i \in later : shift[i] = k
    <3> TAKE k \in At(rest, S)
    <3>1. k \in 1 .. Len(s) - 1 /\ s[k + 1] \in S
      BY <1>1 DEF At
    <3>2. k + 1 \in later
      BY <1>1, <3>1 DEF At
    <3>3. shift[k + 1] = k
      BY <3>1, <3>2
    <3> QED
      BY <3>2, <3>3
  <2>5. shift \in Bijection(later, At(rest, S))
    BY <2>2, <2>3, <2>4 DEF Bijection, Injection, Surjection, IsInjective
  <2>6. ExistsBijection(later, At(rest, S))
    BY <2>5 DEF ExistsBijection
  <2> QED
    BY <1>2, <2>6, FS_Bijection
<1>4. Cardinality(later) = IF 1 \in At(s, S) THEN Count(s, S) - 1 ELSE Count(s, S)
  BY <1>2, FS_RemoveElement DEF Count
<1>5. 1 \in At(s, S) <=> Head(s) \in S
  <2>1. 1 \in DOMAIN s /\ Head(s) = s[1]
    BY <1>1
  <2> QED
    BY <2>1 DEF At
<1>6. Count(rest, S) = Cardinality(later)
  BY <1>3 DEF Count
<1>7. CASE Head(s) \in S
  BY <1>2, <1>4, <1>5, <1>6, <1>7 DEF One
<1>8. CASE Head(s) \notin S
  BY <1>2, <1>4, <1>5, <1>6, <1>8 DEF One
<1> QED
  BY <1>7, <1>8

\* So it is for every finite family of sequences.
LEMMA AllSized ==
  ASSUME NEW f, IsFiniteSet(DOMAIN f), NEW V, \A x \in DOMAIN f : f[x] \in Seq(V), NEW S
  PROVE  Sized(f, S)
<1>1. ASSUME NEW x \in DOMAIN f PROVE IsFiniteSet(At(f[x], S))
  <2>1. f[x] \in Seq(V)
    OBVIOUS
  <2>2. IsFiniteSet(DOMAIN f[x]) /\ At(f[x], S) \in SUBSET DOMAIN f[x]
    BY <2>1, CountSeqType DEF At
  <2> QED
    BY <2>2, FS_Subset
<1> QED
  BY <1>1 DEF Sized

\* Then there are finitely many places.
LEMMA AllAtFinite ==
  ASSUME NEW f, NEW S, Sized(f, S)
  PROVE  IsFiniteSet(AllAt(f, S)) /\ CountAll(f, S) \in Nat
<1> DEFINE X     == DOMAIN f
           part  == [x \in X |-> {x} \X At(f[x], S)]
           parts == {{x} \X At(f[x], S) : x \in X}
<1>1. ASSUME NEW x \in X PROVE IsFiniteSet({x} \X At(f[x], S))
  <2>1. IsFiniteSet(At(f[x], S)) /\ IsFiniteSet({x})
    BY FS_Singleton DEF Sized
  <2> QED
    BY <2>1, FS_Product
<1>2. part \in Surjection(X, parts)
  BY DEF Surjection
<1>3. IsFiniteSet(parts)
  BY <1>2, FS_Surjection DEF Sized
<1>4. \A T \in parts : IsFiniteSet(T)
  BY <1>1
<1>5. IsFiniteSet(UNION parts)
  BY <1>3, <1>4, FS_UNION
<1>6. AllAt(f, S) = UNION parts
  BY DEF AllAt
<1> QED
  BY <1>5, <1>6, FS_CardinalityType DEF CountAll

\* One sequence and the others.
LEMMA CountAllSplit ==
  ASSUME NEW f, NEW S, Sized(f, S), NEW x \in DOMAIN f
  PROVE  /\ CountAll(f, S) = Cardinality(Besides(f, S, x)) + Count(f[x], S)
         /\ Cardinality(Besides(f, S, x)) \in Nat /\ Count(f[x], S) \in Nat
<1> DEFINE others == Besides(f, S, x)
           own    == {x} \X At(f[x], S)
<1>1. IsFiniteSet(AllAt(f, S)) /\ IsFiniteSet(others)
  BY AllAtFinite, FS_Subset DEF Besides
<1>2. /\ IsFiniteSet(At(f[x], S)) /\ Count(f[x], S) \in Nat
      /\ IsFiniteSet({x}) /\ Cardinality({x}) = 1
  <2>1. IsFiniteSet(At(f[x], S))
    BY DEF Sized
  <2> QED
    BY <2>1, FS_Singleton, FS_CardinalityType DEF Count
<1>3. IsFiniteSet(own) /\ Cardinality(own) = Count(f[x], S)
  BY <1>2, FS_Product DEF Count
<1>4. AllAt(f, S) = others \cup own
  BY DEF AllAt, Besides
<1>5. others \cap own = {}
  BY DEF Besides
<1>6. Cardinality(others) \in Nat /\ Cardinality({}) = 0
  BY <1>1, FS_CardinalityType, FS_EmptySet
<1>7. Cardinality(others \cup own)
        = Cardinality(others) + Cardinality(own) - Cardinality(others \cap own)
  BY <1>1, <1>3, FS_Union
<1> HIDE DEF others, own
<1>8. Cardinality(AllAt(f, S)) = Cardinality(others) + Count(f[x], S) - 0
  BY <1>3, <1>4, <1>5, <1>6, <1>7
<1>9. CountAll(f, S) = Cardinality(others) + Count(f[x], S)
  BY <1>2, <1>6, <1>8 DEF CountAll
<1> QED
  BY <1>2, <1>6, <1>9 DEF others

\* One sequence changes.
LEMMA CountAllMove ==
  ASSUME NEW f, NEW g, NEW S, Sized(f, S), Sized(g, S), DOMAIN g = DOMAIN f,
         NEW x \in DOMAIN f, \A y \in DOMAIN f \ {x} : g[y] = f[y]
  PROVE  CountAll(g, S) = CountAll(f, S) + Count(g[x], S) - Count(f[x], S)
<1>1. Besides(g, S, x) = Besides(f, S, x)
  BY DEF AllAt, Besides
<1>2. /\ CountAll(g, S) = Cardinality(Besides(g, S, x)) + Count(g[x], S)
      /\ Count(g[x], S) \in Nat
  BY CountAllSplit
<1>3. /\ CountAll(f, S) = Cardinality(Besides(f, S, x)) + Count(f[x], S)
      /\ Cardinality(Besides(f, S, x)) \in Nat /\ Count(f[x], S) \in Nat
  BY CountAllSplit
<1> QED
  BY <1>1, <1>2, <1>3

\* Empty sequences have no places.
LEMMA CountAllNone ==
  ASSUME NEW f, NEW S, \A x \in DOMAIN f : f[x] = <<>>
  PROVE  CountAll(f, S) = 0
<1>1. \A x \in DOMAIN f : At(f[x], S) = {}
  BY DEF At
<1>2. AllAt(f, S) = {}
  BY <1>1 DEF AllAt
<1> QED
  BY <1>2, FS_EmptySet DEF CountAll

-----------------------------------------------------------------------------
(* The inductive invariant                                                 *)

\* The events that count, and the threads' events as the pushes hold them.
MeasuredEvents == {e \in Events \cup {NoEvent} : Measured(e)}
Offered == [i \in Ingress |-> held[i]]

\* Types; what the counters count is bounded by the balances below.
RunTypeOK ==
  /\ policy \in {"Block", "Drop"} /\ global_lock \in BOOLEAN
  /\ wait_strategy \in {"ConditionVariable", "SpinYield"} /\ parked \subseteq Ingress
  /\ queue \in [Queues -> Seq(Events)] /\ closed \in [Queues -> BOOLEAN]
  /\ ingress_stop \in BOOLEAN /\ expired \in BOOLEAN /\ failed \in BOOLEAN
  /\ main \in {"deadline", "ingress", "dispatcher", "workers", "done"}
  /\ pc \in [Threads -> {"loop", "push", "empty", "close", "exited"}]
  /\ held \in [Threads -> Events \cup {NoEvent}]
  /\ to_close \in [Threads -> Remainders]
  /\ \A t \in Threads : pc[t] = "close" <=> to_close[t] # <<>>
  /\ created \in 0 .. MaxEvents
  /\ generated \in Nat /\ accepted \in Nat /\ completed \in Nat
  /\ dropped_ingress \in Nat /\ dropped_dispatch \in Nat

\* A push carries an event; but for a push that threw, nobody else does.
Carrying ==
  /\ \A t \in Threads : pc[t] = "push" => held[t] \in Events
  /\ \A i \in Ingress : pc[i] = "loop" \/ (pc[i] # "push" /\ ~failed) => held[i] = NoEvent
  /\ pc[Dispatcher] # "push" => held[Dispatcher] = NoEvent

\* The dispatcher closes rings and never the dispatch queue.
ClosesRings ==
  pc[Dispatcher] = "close" =>
    \E k \in 2 .. WorkerThreads + 1 :
      to_close[Dispatcher] = SubSeq(AllQueues, k, WorkerThreads + 1)

\* Main has joined whom it is past joining.
Joined ==
  /\ main # "deadline" => ingress_stop
  /\ main \in {"dispatcher", "workers", "done"} => Exited(Ingress)
  /\ main \in {"workers", "done"} => pc[Dispatcher] = "exited"

\* Without an error the dispatch queue is closed after the last ingress push, and
\* a ring after the last push of the dispatcher, which leaves a closed queue.
Orderly ==
  ~failed =>
    /\ closed[dispatch_queue] => main \in {"dispatcher", "workers", "done"}
    /\ \A w \in Workers : closed[w] => pc[Dispatcher] \in {"close", "exited"}
    /\ \A t \in Threads \ {Dispatcher} : pc[t] # "close"
    /\ pc[Dispatcher] \in {"close", "exited"} =>
         closed[dispatch_queue] /\ (global_lock => queue[dispatch_queue] = <<>>)

\* The accepted events: completed, dropped on the way, in a queue, with the dispatcher.
Delivered ==
  completed + dropped_dispatch + CountAll(queue, MeasuredEvents)
    + One(held[Dispatcher], MeasuredEvents)

\* The events that ingress threads are pushing.
Pushing == Count(Offered, MeasuredEvents)

\* No accepted event is lost, but that a ring which an error closed may refuse one
\* of a Block run.
DeliveryBalanced ==
  /\ Delivered <= accepted
  /\ ~failed => Delivered = accepted
  /\ policy = "Block" => dropped_dispatch = 0

\* A generated event is being pushed, accepted or counted as dropped; but for the
\* one of each ingress thread that a Block run refuses once ingress_stop is up.
IngressBalanced ==
  /\ generated <= created
  /\ accepted + dropped_ingress + Pushing <= generated
  /\ policy = "Block" => dropped_ingress = 0
  /\ ~failed /\ policy = "Drop" => generated = accepted + dropped_ingress + Pushing
  /\ ~failed /\ policy = "Block" /\ ~ingress_stop => generated = accepted + Pushing
  /\ ~failed /\ policy = "Block" => generated <= accepted + Cardinality(Ingress)

IInv ==
  /\ RunTypeOK /\ Carrying /\ ClosesRings /\ Joined /\ Orderly
  /\ DeliveryBalanced /\ IngressBalanced

-----------------------------------------------------------------------------
(* The lists of queues to close                                            *)

\* The dispatch queue comes first, then the rings.
LEMMA Lists ==
  /\ WorkerThreads \in Nat \ {0}
  /\ AllQueues \in Seq(Queues) /\ Len(AllQueues) = WorkerThreads + 1
  /\ \A k \in 2 .. WorkerThreads + 1 : AllQueues[k] \in Workers
  /\ WorkerQueues = SubSeq(AllQueues, 2, WorkerThreads + 1) /\ WorkerQueues # <<>>
  /\ AllQueues = SubSeq(AllQueues, 1, WorkerThreads + 1) /\ AllQueues # <<>>
<1> DEFINE n == WorkerThreads
           first == <<dispatch_queue>>
<1>1. n \in Nat \ {0} /\ first \in Seq(Queues) /\ Len(first) = 1 /\ first[1] = 0
  BY DEF Queues, dispatch_queue
<1>2. WorkerQueues \in Seq(Queues) /\ Len(WorkerQueues) = n
      /\ \A w \in 1 .. n : WorkerQueues[w] = w
  BY DEF WorkerQueues, Workers, Queues
<1> HIDE DEF n, first
<1>3. /\ AllQueues \in Seq(Queues) /\ Len(AllQueues) = n + 1
      /\ \A i \in 1 .. n + 1 : AllQueues[i] = IF i <= 1 THEN first[i] ELSE WorkerQueues[i - 1]
  BY <1>1, <1>2, ConcatProperties DEF AllQueues, first
<1>4. \A k \in 2 .. n + 1 : AllQueues[k] \in Workers
  <2> TAKE k \in 2 .. n + 1
  <2>1. AllQueues[k] = WorkerQueues[k - 1] /\ k - 1 \in 1 .. n
    BY <1>1, <1>3
  <2> QED
    BY <1>2, <2>1 DEF Workers, n
<1>5. WorkerQueues = SubSeq(AllQueues, 2, n + 1)
  <2>1. 2 \in 1 + 1 .. 1 + n /\ n + 1 \in 1 + 1 .. 1 + n
    BY <1>1
  <2>2. SubSeq(AllQueues, 2, n + 1) = SubSeq(WorkerQueues, 2 - 1, (n + 1) - 1)
    BY <1>1, <1>2, <2>1, SubSeqOfConcat2 DEF AllQueues, first
  <2>3. 2 - 1 = 1 /\ (n + 1) - 1 = n
    BY <1>1
  <2>4. SubSeq(WorkerQueues, 1, n) = WorkerQueues
    BY <1>2, SubSeqFull
  <2> QED
    BY <2>2, <2>3, <2>4
<1>6. AllQueues = SubSeq(AllQueues, 1, n + 1)
  BY <1>3, SubSeqFull
<1>7. WorkerQueues # <<>> /\ AllQueues # <<>>
  BY <1>1, <1>2, <1>3
<1> QED
  BY <1>1, <1>3, <1>4, <1>5, <1>6, <1>7 DEF n

\* What is left of the list after the queues before the k-th.
Rest(k) == SubSeq(AllQueues, k, WorkerThreads + 1)

\* Taking the first queue off what is left.
LEMMA RestStep ==
  ASSUME NEW k \in 1 .. WorkerThreads + 1
  PROVE  /\ Rest(k) # <<>> /\ Head(Rest(k)) = AllQueues[k] /\ AllQueues[k] \in Queues
         /\ Tail(Rest(k)) = Rest(k + 1) /\ k + 1 \in 1 .. WorkerThreads + 2
         /\ Len(Rest(k)) = WorkerThreads + 2 - k
<1>1. /\ WorkerThreads \in Nat \ {0} /\ AllQueues \in Seq(Queues)
      /\ Len(AllQueues) = WorkerThreads + 1
  BY Lists
<1>2. k \in 1 .. Len(AllQueues) /\ Len(AllQueues) \in k .. Len(AllQueues)
  BY <1>1
<1>3. Head(Rest(k)) = AllQueues[k] /\ Tail(Rest(k)) = Rest(k + 1)
  BY <1>1, <1>2, HeadTailOfSubSeq DEF Rest
<1>4. \A i \in k .. WorkerThreads + 1 : AllQueues[i] \in Queues
  BY <1>1, ElementOfSeq
<1>5. Rest(k) \in Seq(Queues) /\ Len(Rest(k)) = (WorkerThreads + 1) - k + 1
  BY <1>1, <1>4, SubSeqProperties DEF Rest
<1>6. Len(Rest(k)) = WorkerThreads + 2 - k /\ Len(Rest(k)) > 0 /\ k + 1 \in 1 .. WorkerThreads + 2
  BY <1>1, <1>5
<1>7. Rest(k) # <<>> /\ AllQueues[k] \in Queues
  BY <1>2, <1>4, <1>6
<1> QED
  BY <1>3, <1>6, <1>7

\* The last remainder is empty, and the others have a first queue.
LEMMA RestOf ==
  /\ Rest(WorkerThreads + 2) = <<>> /\ <<>> \in Remainders
  /\ AllQueues \in Remainders /\ WorkerQueues \in Remainders
  /\ WorkerQueues = Rest(2) /\ 2 \in 2 .. WorkerThreads + 1
  /\ \A k \in 1 .. WorkerThreads + 2 : Rest(k) \in Remainders
  /\ \A l \in Remainders : l # <<>> => \E k \in 1 .. WorkerThreads + 1 : l = Rest(k)
<1>1. WorkerThreads \in Nat \ {0}
  BY Lists
<1>2. Rest(WorkerThreads + 2) = <<>>
  BY <1>1, SubSeqEmpty DEF Rest
<1>3. \A k \in 1 .. WorkerThreads + 2 : Rest(k) \in Remainders
  BY DEF Rest, Remainders
<1>4. \A l \in Remainders : \E k \in 1 .. WorkerThreads + 2 : l = Rest(k)
  BY DEF Rest, Remainders
<1>5. AllQueues = Rest(1) /\ WorkerQueues = Rest(2)
  BY Lists DEF Rest
<1>6. /\ 1 \in 1 .. WorkerThreads + 2 /\ 2 \in 1 .. WorkerThreads + 2
      /\ WorkerThreads + 2 \in 1 .. WorkerThreads + 2 /\ 2 \in 2 .. WorkerThreads + 1
      /\ \A k \in 1 .. WorkerThreads + 2 : k = WorkerThreads + 2 \/ k \in 1 .. WorkerThreads + 1
  BY <1>1
<1> QED
  BY <1>2, <1>3, <1>4, <1>5, <1>6

-----------------------------------------------------------------------------
(* What the steps of a thread change                                       *)

\* A thread's next queue to close is on its list, and it ends after the last.
LEMMA CloseEffect ==
  ASSUME RunTypeOK, NEW t \in Threads, CloseNext(t)
  PROVE  \E k \in 1 .. WorkerThreads + 1 :
           /\ to_close[t] = Rest(k) /\ AllQueues[k] \in Queues /\ Rest(k + 1) \in Remainders
           /\ closed' = [closed EXCEPT ![AllQueues[k]] = TRUE]
           /\ to_close' = [to_close EXCEPT ![t] = Rest(k + 1)]
           /\ pc' = [pc EXCEPT ![t] = IF Rest(k + 1) = <<>> THEN "exited" ELSE "close"]
           /\ k < WorkerThreads + 1 <=> Rest(k + 1) # <<>>
<1>1. to_close[t] \in Remainders /\ to_close[t] # <<>>
  BY DEF RunTypeOK, CloseNext
<1>2. PICK k \in 1 .. WorkerThreads + 1 : to_close[t] = Rest(k)
  BY <1>1, RestOf
<1>3. /\ Head(Rest(k)) = AllQueues[k] /\ AllQueues[k] \in Queues /\ Tail(Rest(k)) = Rest(k + 1)
      /\ Len(Rest(k)) = WorkerThreads + 2 - k /\ k + 1 \in 1 .. WorkerThreads + 2
  BY RestStep
<1>4. WorkerThreads \in Nat \ {0}
  BY Lists
<1>5. Len(Rest(k)) = 1 <=> k = WorkerThreads + 1
  BY <1>3, <1>4
<1>6. k < WorkerThreads + 1 <=> Rest(k + 1) # <<>>
  <2>1. CASE k = WorkerThreads + 1
    <3>1. k + 1 = WorkerThreads + 2 /\ ~(k < WorkerThreads + 1)
      BY <1>4, <2>1
    <3> QED
      BY <3>1, RestOf
  <2>2. CASE k # WorkerThreads + 1
    <3>1. k + 1 \in 1 .. WorkerThreads + 1 /\ k < WorkerThreads + 1
      BY <1>4, <2>2
    <3> QED
      BY <3>1, RestStep
  <2> QED
    BY <2>1, <2>2
<1>7. k = WorkerThreads + 1 <=> ~(k < WorkerThreads + 1)
  BY <1>4
<1>8. /\ closed' = [closed EXCEPT ![AllQueues[k]] = TRUE]
      /\ to_close' = [to_close EXCEPT ![t] = Rest(k + 1)]
  BY <1>2, <1>3 DEF CloseNext
<1>9. pc' = [pc EXCEPT ![t] = IF Rest(k + 1) = <<>> THEN "exited" ELSE "close"]
  BY <1>2, <1>5, <1>6, <1>7 DEF CloseNext, Goto
<1>10. Rest(k + 1) \in Remainders
  BY <1>3, RestOf
<1> QED
  BY <1>2, <1>3, <1>6, <1>8, <1>9, <1>10

\* A push that goes through appends the event of its thread.
LEMMA AcceptEffect ==
  ASSUME RunTypeOK, Carrying, NEW t \in Threads, NEW q \in Queues, Accept(t, q)
  PROVE  /\ pc[t] = "push" /\ held[t] \in Events /\ queue[q] \in Seq(Events)
         /\ queue' = [queue EXCEPT ![q] = Append(queue[q], held[t])]
         /\ Append(queue[q], held[t]) \in Seq(Events) /\ queue' \in [Queues -> Seq(Events)]
         /\ held' = [held EXCEPT ![t] = NoEvent] /\ pc' = [pc EXCEPT ![t] = "loop"]
<1>1. /\ pc[t] = "push" /\ held' = [held EXCEPT ![t] = NoEvent] /\ pc' = [pc EXCEPT ![t] = "loop"]
      /\ queue' = [queue EXCEPT ![q] = Append(queue[q], held[t])]
  BY DEF Accept, Goto
<1>2. held[t] \in Events /\ queue \in [Queues -> Seq(Events)] /\ queue[q] \in Seq(Events)
  BY <1>1 DEF Carrying, RunTypeOK
<1>3. Append(queue[q], held[t]) \in Seq(Events)
  BY <1>2, AppendProperties
<1> QED
  BY <1>1, <1>2, <1>3

\* A push that is refused leaves the queues alone.
LEMMA RefuseEffect ==
  ASSUME NEW t \in Threads, NEW q \in Queues, NEW stopped, Refuse(t, q, stopped)
  PROVE  /\ pc[t] = "push" /\ queue' = queue
         /\ held' = [held EXCEPT ![t] = NoEvent] /\ pc' = [pc EXCEPT ![t] = "loop"]
         /\ closed[q] \/ stopped \/ policy = "Drop"
BY DEF Refuse, Goto

\* A pop takes the oldest event.
LEMMA PopEffect ==
  ASSUME RunTypeOK, NEW q \in Queues, queue[q] # <<>>, queue' = [queue EXCEPT ![q] = Tail(queue[q])]
  PROVE  /\ queue[q] \in Seq(Events) /\ Head(queue[q]) \in Events /\ Tail(queue[q]) \in Seq(Events)
         /\ queue' \in [Queues -> Seq(Events)]
<1>1. queue \in [Queues -> Seq(Events)] /\ queue[q] \in Seq(Events)
  BY DEF RunTypeOK
<1>2. Head(queue[q]) \in Events /\ Tail(queue[q]) \in Seq(Events)
  BY <1>1, HeadTailProperties
<1> QED
  BY <1>1, <1>2

\* What a pop of a thread that works on the event at once comes to.
LEMMA TakeEffect ==
  ASSUME RunTypeOK, NEW w \in Workers, TakeEvent(w)
  PROVE  /\ pc[w] = "loop" /\ queue[w] # <<>> /\ queue' = [queue EXCEPT ![w] = Tail(queue[w])]
         /\ queue[w] \in Seq(Events) /\ Head(queue[w]) \in Events /\ Tail(queue[w]) \in Seq(Events)
         /\ queue' \in [Queues -> Seq(Events)]
         /\ completed' = CountIf(Measured(Head(queue[w])), completed)
         /\ w \in Queues /\ w # dispatch_queue
<1>1. w \in Queues /\ w # dispatch_queue
  BY DEF Queues, Workers, dispatch_queue
<1>2. /\ pc[w] = "loop" /\ queue[w] # <<>> /\ queue' = [queue EXCEPT ![w] = Tail(queue[w])]
      /\ completed' = CountIf(Measured(Head(queue[w])), completed)
  BY DEF TakeEvent
<1> QED
  BY <1>1, <1>2, PopEffect

\* So does the dispatcher's.
LEMMA DispatchTakes ==
  ASSUME RunTypeOK, TakeForDispatch
  PROVE  /\ pc[Dispatcher] = "loop" /\ queue[dispatch_queue] # <<>>
         /\ queue' = [queue EXCEPT ![dispatch_queue] = Tail(queue[dispatch_queue])]
         /\ queue[dispatch_queue] \in Seq(Events) /\ Head(queue[dispatch_queue]) \in Events
         /\ Tail(queue[dispatch_queue]) \in Seq(Events) /\ queue' \in [Queues -> Seq(Events)]
         /\ held' = [held EXCEPT ![Dispatcher] = Head(queue[dispatch_queue])]
         /\ pc' = [pc EXCEPT ![Dispatcher] = "push"]
<1>1. dispatch_queue \in Queues
  BY DEF Queues
<1>2. /\ pc[Dispatcher] = "loop" /\ queue[dispatch_queue] # <<>>
      /\ queue' = [queue EXCEPT ![dispatch_queue] = Tail(queue[dispatch_queue])]
      /\ held' = [held EXCEPT ![Dispatcher] = Head(queue[dispatch_queue])]
      /\ pc' = [pc EXCEPT ![Dispatcher] = "push"]
  BY DEF TakeForDispatch, Goto
<1> QED
  BY <1>1, <1>2, PopEffect

\* The event of a push is for one of the workers' rings, or for the dispatch queue.
LEMMA Threading ==
  /\ Dispatcher \in Threads /\ Ingress \subseteq Threads /\ Workers \subseteq Threads
  /\ Dispatcher \notin Ingress /\ Dispatcher \notin Workers /\ Ingress \cap Workers = {}
  /\ dispatch_queue \in Queues /\ Workers \subseteq Queues /\ dispatch_queue \notin Workers
  /\ \A e \in Events : e.target_worker \in Workers /\ e.id \in 1 .. MaxEvents
  /\ NoEvent \in Events \cup {NoEvent}
BY DEF Threads, Queues, Workers, dispatch_queue, Events

\* Falling asleep and waking up change nothing else.
LEMMA ParkEffect ==
  ASSUME NEW i, Park(i) \/ Wakeup(i)
  PROVE  UNCHANGED <<policy, global_lock, queue, closed, ingress_stop, expired, main, pc, held,
                     to_close, created, failed, generated, accepted, completed, dropped_ingress,
                     dropped_dispatch>>
BY DEF Park, Wakeup, config, queues, counters

-----------------------------------------------------------------------------
(* Types                                                                   *)

\* Where the threads are, and what they have still to close.
PlacesOK ==
  /\ pc \in [Threads -> {"loop", "push", "empty", "close", "exited"}]
  /\ to_close \in [Threads -> Remainders]
  /\ \A t \in Threads : pc[t] = "close" <=> to_close[t] # <<>>

\* A thread that goes on has nothing to close.
LEMMA PlacesGoto ==
  ASSUME PlacesOK, NEW t \in Threads, NEW l \in {"loop", "push", "empty", "exited"},
         pc[t] # "close", pc' = [pc EXCEPT ![t] = l], to_close' = to_close
  PROVE  PlacesOK'
BY DEF PlacesOK

\* A thread that closes has something to close.
LEMMA PlacesClose ==
  ASSUME PlacesOK, NEW t \in Threads, NEW l \in Remainders,
         pc' = [pc EXCEPT ![t] = IF l = <<>> THEN "exited" ELSE "close"],
         to_close' = [to_close EXCEPT ![t] = l]
  PROVE  PlacesOK'
BY DEF PlacesOK

\* Who takes no step at all stays.
LEMMA PlacesStay == PlacesOK /\ UNCHANGED <<pc, to_close>> => PlacesOK'
BY DEF PlacesOK

\* No step moves a thread without what it has to close.
LEMMA PlacesStep == RunTypeOK /\ Carrying /\ [Next]_vars => PlacesOK'
<1> SUFFICES ASSUME RunTypeOK, Carrying, [Next]_vars PROVE PlacesOK'
  OBVIOUS
<1>a. PlacesOK
  BY DEF RunTypeOK, PlacesOK
<1>b. /\ Dispatcher \in Threads /\ Ingress \subseteq Threads /\ Workers \subseteq Threads
      /\ AllQueues \in Remainders /\ AllQueues # <<>>
      /\ WorkerQueues \in Remainders /\ WorkerQueues # <<>>
  BY Threading, Lists, RestOf
<1>1. ASSUME NEW i \in Ingress, Generate(i) PROVE PlacesOK'
  <2>1. pc[i] = "loop" /\ pc' = [pc EXCEPT ![i] = "push"] /\ to_close' = to_close
    BY <1>1 DEF Generate, Goto
  <2> QED
    BY <1>a, <1>b, <2>1, PlacesGoto
<1>2. ASSUME NEW i \in Ingress, IngressPush(i) PROVE PlacesOK'
  <2>1. pc[i] = "push" /\ pc' = [pc EXCEPT ![i] = "loop"] /\ to_close' = to_close
    BY <1>2 DEF IngressPush, Accept, Refuse, Goto
  <2> QED
    BY <1>a, <1>b, <2>1, PlacesGoto
<1>3. ASSUME NEW i \in Ingress, LeaveIngress(i) PROVE PlacesOK'
  <2>1. pc[i] = "loop" /\ pc' = [pc EXCEPT ![i] = "exited"] /\ to_close' = to_close
    BY <1>3 DEF LeaveIngress, Goto
  <2> QED
    BY <1>a, <1>b, <2>1, PlacesGoto
<1>4. ASSUME NEW t \in Threads, CloseNext(t) PROVE PlacesOK'
  BY <1>a, <1>4, CloseEffect, PlacesClose
<1>5. ASSUME NEW t \in Threads, NEW l \in {AllQueues, WorkerQueues}, Handle(t, l) PROVE PlacesOK'
  <2>1. /\ l \in Remainders /\ l # <<>> /\ to_close' = [to_close EXCEPT ![t] = l]
        /\ pc' = [pc EXCEPT ![t] = "close"]
    BY <1>b, <1>5 DEF Handle, Goto
  <2> QED
    BY <1>a, <2>1, PlacesClose
<1>6. ASSUME NEW t \in Threads, NEW q \in Queues, FindEmpty(t, q) \/ TryAgain(t, q) PROVE PlacesOK'
  <2>1. PICK l \in {"empty", "loop"} : pc' = [pc EXCEPT ![t] = l]
    BY <1>6 DEF FindEmpty, TryAgain, Goto
  <2>2. pc[t] # "close" /\ to_close' = to_close
    BY <1>6 DEF FindEmpty, TryAgain
  <2> QED
    BY <1>a, <2>1, <2>2, PlacesGoto
<1>7. CASE TakeForDispatch \/ Dispatch
  <2>1. PICK l \in {"push", "loop"} : pc' = [pc EXCEPT ![Dispatcher] = l]
    BY <1>7 DEF TakeForDispatch, Dispatch, Accept, Refuse, Goto
  <2>2. pc[Dispatcher] # "close" /\ to_close' = to_close
    BY <1>7 DEF TakeForDispatch, Dispatch, Accept, Refuse
  <2> QED
    BY <1>a, <1>b, <2>1, <2>2, PlacesGoto
<1>8. CASE EndDispatch
  <2>1. /\ to_close' = [to_close EXCEPT ![Dispatcher] = WorkerQueues]
        /\ pc' = [pc EXCEPT ![Dispatcher] = IF WorkerQueues = <<>> THEN "exited" ELSE "close"]
    BY <1>b, <1>8 DEF EndDispatch, Goto
  <2> QED
    BY <1>a, <1>b, <2>1, PlacesClose
<1>9. ASSUME NEW w \in Workers, LeaveWorker(w) PROVE PlacesOK'
  <2>1. pc[w] = "empty" /\ pc' = [pc EXCEPT ![w] = "exited"] /\ to_close' = to_close
    BY <1>9 DEF LeaveWorker, Goto
  <2> QED
    BY <1>a, <1>b, <2>1, PlacesGoto
<1>10. CASE \/ \E i \in Ingress : Park(i) \/ Wakeup(i)
            \/ \E w \in Workers : Complete(w)
            \/ MainStep \/ Expire \/ Done \/ UNCHANGED vars
  <2>1. UNCHANGED <<pc, to_close>>
    BY <1>10, ParkEffect DEF Complete, MainStep, Expire, Done, vars
  <2> QED
    BY <1>a, <2>1, PlacesStay
<1>11. ASSUME NEW i \in Ingress, IngressThrows(i) PROVE PlacesOK'
  BY <1>b, <1>5, <1>11 DEF IngressThrows
<1>12. CASE DispatcherThrows
  BY <1>b, <1>5, <1>12 DEF DispatcherThrows
<1>13. ASSUME NEW w \in Workers, WorkerThrows(w) PROVE PlacesOK'
  BY <1>b, <1>5, <1>13 DEF WorkerThrows
<1>14. CASE DispatcherStep
  BY <1>b, <1>4, <1>6, <1>7, <1>8, <1>14, Threading DEF DispatcherStep
<1>15. ASSUME NEW w \in Workers, WorkerStep(w) PROVE PlacesOK'
  BY <1>b, <1>4, <1>6, <1>9, <1>10, <1>15, Threading DEF WorkerStep
<1>16. ASSUME NEW i \in Ingress, IngressStep(i) PROVE PlacesOK'
  BY <1>b, <1>2, <1>3, <1>4, <1>10, <1>16 DEF IngressStep
<1> QED
  BY <1>1, <1>10, <1>11, <1>12, <1>13, <1>14, <1>15, <1>16 DEF Next

\* Only an ingress thread goes to sleep.
LEMMA ParkedStep ==
  RunTypeOK /\ [Next]_vars =>
    parked' \subseteq Ingress /\ wait_strategy' \in {"ConditionVariable", "SpinYield"}
<1> SUFFICES ASSUME RunTypeOK, [Next]_vars
             PROVE  parked' \subseteq Ingress /\ wait_strategy' = wait_strategy
  BY DEF RunTypeOK
<1>a. parked \subseteq Ingress
  BY DEF RunTypeOK
<1>1. wait_strategy' = wait_strategy
  BY DEF Next, IngressStep, DispatcherStep, WorkerStep, Generate, Park, Wakeup, IngressPush,
     IngressThrows, LeaveIngress, CloseNext, FindEmpty, TryAgain, TakeForDispatch, Dispatch,
     EndDispatch, DispatcherThrows, Complete, TakeEvent, WorkerThrows, LeaveWorker, MainStep, Expire,
     Done, vars, config
<1>2. parked' \subseteq Ingress
  <2>1. ASSUME NEW t, CloseNext(t) PROVE parked' \subseteq Ingress
    BY <1>a, <2>1 DEF CloseNext, NotifyAllOf
  <2>2. CASE TakeForDispatch
    BY <1>a, <2>2 DEF TakeForDispatch, NotifyOne
  <2>3. CASE MainStep
    BY <1>a, <2>3 DEF MainStep, NotifyAllOf
  <2>4. ASSUME NEW i \in Ingress, Park(i) \/ Wakeup(i) PROVE parked' \subseteq Ingress
    BY <1>a, <2>4 DEF Park, Wakeup
  <2>5. CASE parked' = parked
    BY <1>a, <2>5
  <2>6. ASSUME ~TakeForDispatch, ~MainStep, \A t \in Threads : ~CloseNext(t),
               \A i \in Ingress : ~Park(i) /\ ~Wakeup(i)
        PROVE  parked' = parked
    BY <2>6, Threading DEF Next, IngressStep, DispatcherStep, WorkerStep, Generate, IngressPush,
       IngressThrows, LeaveIngress, FindEmpty, TryAgain, Dispatch, EndDispatch, DispatcherThrows,
       Complete, TakeEvent, WorkerThrows, LeaveWorker, Expire, Done, vars
  <2> QED
    BY <2>1, <2>2, <2>3, <2>4, <2>5, <2>6
<1> QED
  BY <1>1, <1>2

\* Whether an event counts, and counting it.
LEMMA Counted ==
  /\ Warmup \in Nat
  /\ \A e \in Events \cup {NoEvent} : Measured(e) \in BOOLEAN
  /\ ~Measured(NoEvent) /\ One(NoEvent, MeasuredEvents) = 0
  /\ \A e \in Events \cup {NoEvent} :
       /\ One(e, MeasuredEvents) \in {0, 1}
       /\ \A n \in Nat : CountIf(Measured(e), n) = n + One(e, MeasuredEvents)
  /\ \A b \in BOOLEAN, n \in Nat : CountIf(b, n) \in Nat
BY DEF Measured, Events, NoEvent, One, MeasuredEvents, CountIf

\* No step leaves the types: a push appends the event its thread holds.
LEMMA TypeStep == RunTypeOK /\ Carrying /\ [Next]_vars => RunTypeOK'
<1> SUFFICES ASSUME RunTypeOK, Carrying, [Next]_vars PROVE RunTypeOK'
  OBVIOUS
<1>a. /\ PlacesOK'
      /\ parked' \subseteq Ingress /\ wait_strategy' \in {"ConditionVariable", "SpinYield"}
  BY PlacesStep, ParkedStep
<1>b. /\ Dispatcher \in Threads /\ Ingress \subseteq Threads /\ Workers \subseteq Threads
      /\ dispatch_queue \in Queues /\ Workers \subseteq Queues
      /\ \A e \in Events : e.target_worker \in Workers
  BY Threading
<1>c. \A b \in BOOLEAN, n \in Nat : CountIf(b, n) \in Nat
  BY Counted
<1>d. /\ generated \in Nat /\ accepted \in Nat /\ completed \in Nat
      /\ dropped_ingress \in Nat /\ dropped_dispatch \in Nat
      /\ queue \in [Queues -> Seq(Events)] /\ closed \in [Queues -> BOOLEAN]
      /\ held \in [Threads -> Events \cup {NoEvent}] /\ created \in 0 .. MaxEvents
  BY DEF RunTypeOK
<1>e. \A t \in Threads : held' = [held EXCEPT ![t] = NoEvent] => held' \in [Threads -> Events \cup {NoEvent}]
  BY <1>d
<1>f. \A e \in Events \cup {NoEvent} : Measured(e) \in BOOLEAN
  BY Counted
<1>1. ASSUME NEW i \in Ingress, Generate(i) PROVE RunTypeOK'
  <2>1. PICK w \in Workers :
          held' = [held EXCEPT ![i] = [id |-> created', target_worker |-> w]]
    BY <1>1 DEF Generate
  <2>2. created' \in 1 .. MaxEvents
    BY <1>1, <1>d DEF Generate
  <2>3. [id |-> created', target_worker |-> w] \in Events
    BY <2>1, <2>2 DEF Events
  <2>4. held' \in [Threads -> Events \cup {NoEvent}] /\ held'[i] \in Events
    BY <1>b, <1>d, <2>1, <2>3
  <2>5. generated' \in Nat
    BY <1>1, <1>c, <1>d, <1>f, <2>4 DEF Generate
  <2>6. created' \in 0 .. MaxEvents
    BY <2>2
  <2> QED
    BY <1>1, <1>a, <2>4, <2>5, <2>6 DEF Generate, RunTypeOK, PlacesOK, queues, config
<1>2. ASSUME NEW i \in Ingress, IngressPush(i) PROVE RunTypeOK'
  <2>1. queue' \in [Queues -> Seq(Events)] /\ held' \in [Threads -> Events \cup {NoEvent}]
    <3>1. CASE Accept(i, dispatch_queue)
      BY <1>b, <1>e, <3>1, AcceptEffect
    <3>2. CASE Refuse(i, dispatch_queue, ingress_stop)
      BY <1>b, <1>d, <1>e, <3>2, RefuseEffect
    <3> QED
      BY <1>2, <3>1, <3>2 DEF IngressPush
  <2>2. accepted' \in Nat /\ dropped_ingress' \in Nat
    <3>1. Measured(held[i]) \in BOOLEAN
      BY <1>b, <1>d, <1>f
    <3> QED
      BY <1>2, <1>c, <1>d, <3>1 DEF IngressPush
  <2> QED
    BY <1>2, <1>a, <2>1, <2>2 DEF IngressPush, RunTypeOK, PlacesOK, config
<1>3. CASE Dispatch
  <2>1. pc[Dispatcher] = "push" /\ held[Dispatcher] \in Events
    BY <1>3, <1>b DEF Dispatch, Accept, Refuse, Carrying
  <2>2. held[Dispatcher].target_worker \in Queues
    BY <1>b, <2>1
  <2>3. queue' \in [Queues -> Seq(Events)] /\ held' \in [Threads -> Events \cup {NoEvent}]
    <3>1. CASE Accept(Dispatcher, held[Dispatcher].target_worker)
      BY <1>b, <1>e, <2>2, <3>1, AcceptEffect
    <3>2. CASE Refuse(Dispatcher, held[Dispatcher].target_worker, FALSE)
      BY <1>b, <1>d, <1>e, <2>2, <3>2, RefuseEffect
    <3> QED
      BY <1>3, <3>1, <3>2 DEF Dispatch
  <2>4. dropped_dispatch' \in Nat
    <3>1. Measured(held[Dispatcher]) \in BOOLEAN
      BY <1>f, <2>1
    <3> QED
      BY <1>3, <1>c, <1>d, <3>1 DEF Dispatch
  <2> QED
    BY <1>3, <1>a, <2>3, <2>4 DEF Dispatch, RunTypeOK, PlacesOK, config
<1>4. CASE TakeForDispatch
  <2>1. queue' \in [Queues -> Seq(Events)] /\ held' \in [Threads -> Events \cup {NoEvent}]
    BY <1>4, <1>b, <1>d, DispatchTakes
  <2> QED
    BY <1>4, <1>a, <2>1 DEF TakeForDispatch, RunTypeOK, PlacesOK, config, counters
<1>5. ASSUME NEW w \in Workers, TakeEvent(w), ingress_stop' \in BOOLEAN, failed' \in BOOLEAN
      PROVE  RunTypeOK'
  <2>1. /\ queue' \in [Queues -> Seq(Events)] /\ Head(queue[w]) \in Events
        /\ completed' = CountIf(Measured(Head(queue[w])), completed)
    BY <1>5, TakeEffect
  <2>2. Measured(Head(queue[w])) \in BOOLEAN
    BY <1>f, <2>1
  <2>3. completed' \in Nat
    BY <1>c, <1>d, <2>1, <2>2
  <2> QED
    BY <1>5, <1>a, <2>1, <2>3 DEF TakeEvent, RunTypeOK, PlacesOK, config
<1>6. ASSUME NEW w \in Workers, Complete(w) \/ WorkerThrows(w) PROVE RunTypeOK'
  <2>1. ingress_stop' \in BOOLEAN /\ failed' \in BOOLEAN
    BY <1>6 DEF Complete, WorkerThrows, Handle, RunTypeOK
  <2> QED
    BY <1>5, <1>6, <2>1 DEF Complete, WorkerThrows
<1>7. ASSUME NEW t \in Threads, CloseNext(t) PROVE RunTypeOK'
  <2>1. closed' \in [Queues -> BOOLEAN]
    BY <1>7, <1>d, CloseEffect
  <2> QED
    BY <1>7, <1>a, <2>1 DEF CloseNext, RunTypeOK, PlacesOK, config, counters
<1>8. ASSUME NEW t \in Threads, NEW l, Handle(t, l),
             UNCHANGED <<config, queues, expired, main, held, created, counters>>
      PROVE  RunTypeOK'
  BY <1>8, <1>a DEF Handle, RunTypeOK, PlacesOK, config, queues, counters
<1>9. CASE MainStep
  <2>1. closed' \in [Queues -> BOOLEAN]
    BY <1>9, <1>b, <1>d DEF MainStep
  <2>2. ingress_stop' \in BOOLEAN /\ main' \in {"deadline", "ingress", "dispatcher", "workers", "done"}
    BY <1>9 DEF MainStep, RunTypeOK
  <2> QED
    BY <1>9, <1>a, <2>1, <2>2 DEF MainStep, RunTypeOK, PlacesOK, config, counters
<1>10. CASE UNCHANGED <<config, queues, ingress_stop, main, held, created, failed, counters>>
            /\ expired' \in BOOLEAN
  BY <1>10, <1>a DEF RunTypeOK, PlacesOK, config, queues, counters
<1>11. CASE \/ \E i \in Ingress : LeaveIngress(i) \/ Park(i) \/ Wakeup(i)
            \/ \E t \in Threads, q \in Queues : FindEmpty(t, q) \/ TryAgain(t, q)
            \/ \E w \in Workers : LeaveWorker(w)
            \/ EndDispatch \/ Expire \/ Done \/ UNCHANGED vars
  <2>1. expired \in BOOLEAN
    BY DEF RunTypeOK
  <2> QED
    BY <1>10, <1>11, <2>1 DEF LeaveIngress, Park, Wakeup, FindEmpty, TryAgain, LeaveWorker, EndDispatch, Expire,
       Done, vars
<1>12. ASSUME NEW i \in Ingress, IngressThrows(i) PROVE RunTypeOK'
  BY <1>8, <1>b, <1>12 DEF IngressThrows
<1>13. CASE DispatcherThrows
  BY <1>8, <1>b, <1>13 DEF DispatcherThrows
<1>14. CASE DispatcherStep
  BY <1>b, <1>3, <1>4, <1>7, <1>11, <1>14 DEF DispatcherStep
<1>15. ASSUME NEW w \in Workers, WorkerStep(w) PROVE RunTypeOK'
  BY <1>b, <1>6, <1>7, <1>11, <1>15 DEF WorkerStep
<1>16. ASSUME NEW i \in Ingress, IngressStep(i) PROVE RunTypeOK'
  BY <1>b, <1>2, <1>7, <1>11, <1>16 DEF IngressStep
<1> QED
  BY <1>1, <1>6, <1>9, <1>11, <1>12, <1>13, <1>14, <1>15, <1>16 DEF Next

-----------------------------------------------------------------------------
(* The order of the run                                                    *)

\* What never comes back: flags stay up, queues closed, and a thread that closes
\* its queues ends.
LEMMA Latches ==
  ASSUME RunTypeOK, Carrying, [Next]_vars
  PROVE  /\ (ingress_stop => ingress_stop') /\ (failed => failed')
         /\ policy' = policy /\ global_lock' = global_lock
         /\ \A q \in Queues : closed[q] => closed'[q]
         /\ \A t \in Threads : /\ pc[t] = "exited" => pc'[t] = "exited"
                               /\ pc[t] = "close" => pc'[t] \in {"close", "exited"}
<1>a. /\ Dispatcher \in Threads /\ Ingress \subseteq Threads /\ Workers \subseteq Threads
      /\ pc \in [Threads -> {"loop", "push", "empty", "close", "exited"}]
      /\ closed \in [Queues -> BOOLEAN]
  BY Threading DEF RunTypeOK
<1>1. (ingress_stop => ingress_stop') /\ (failed => failed')
  <2>1. CASE MainStep
    BY <2>1 DEF MainStep
  <2>2. CASE \E t \in Threads, l \in {AllQueues, WorkerQueues} : Handle(t, l)
    BY <2>2 DEF Handle
  <2>3. CASE UNCHANGED <<ingress_stop, failed>>
    BY <2>3
  <2>4. MainStep \/ (\E t \in Threads, l \in {AllQueues, WorkerQueues} : Handle(t, l))
          \/ UNCHANGED <<ingress_stop, failed>>
    BY <1>a, ParkEffect DEF Next, IngressStep, DispatcherStep, WorkerStep, Generate, IngressPush,
       IngressThrows, LeaveIngress, CloseNext, FindEmpty, TryAgain, TakeForDispatch, Dispatch,
       EndDispatch, DispatcherThrows, Complete, WorkerThrows, LeaveWorker, Expire, Done, vars
  <2> QED
    BY <2>1, <2>2, <2>3, <2>4
<1>2. policy' = policy /\ global_lock' = global_lock
  BY ParkEffect DEF Next, IngressStep, DispatcherStep, WorkerStep, Generate, IngressPush, IngressThrows,
     LeaveIngress, CloseNext, Handle, FindEmpty, TryAgain, TakeForDispatch, Dispatch, EndDispatch,
     DispatcherThrows, Complete, TakeEvent, WorkerThrows, LeaveWorker, MainStep, Expire, Done, vars,
     config
<1>3. \A q \in Queues : closed[q] => closed'[q]
  <2>1. ASSUME NEW t \in Threads, CloseNext(t) PROVE \A q \in Queues : closed[q] => closed'[q]
    BY <1>a, <2>1, CloseEffect
  <2>2. CASE MainStep
    BY <1>a, <2>2 DEF MainStep
  <2>3. CASE ~MainStep /\ \A t \in Threads : ~CloseNext(t)
    BY <1>a, <2>3, ParkEffect DEF Next, IngressStep, DispatcherStep, WorkerStep, Generate, IngressPush,
       IngressThrows, LeaveIngress, Handle, FindEmpty, TryAgain, TakeForDispatch, Dispatch,
       EndDispatch, DispatcherThrows, Complete, TakeEvent, WorkerThrows, LeaveWorker, Expire, Done,
       vars, queues
  <2> QED
    BY <2>1, <2>2, <2>3
<1>4. \A t \in Threads : /\ pc[t] = "exited" => pc'[t] = "exited"
                         /\ pc[t] = "close" => pc'[t] \in {"close", "exited"}
  <2>1. ASSUME NEW s \in Threads, CloseNext(s)
        PROVE  \A t \in Threads : /\ pc[t] = "exited" => pc'[t] = "exited"
                                  /\ pc[t] = "close" => pc'[t] \in {"close", "exited"}
    BY <1>a, <2>1 DEF CloseNext, Goto
  <2>2. CASE \A t \in Threads : ~CloseNext(t)
    BY <1>a, <2>2, ParkEffect DEF Next, IngressStep, DispatcherStep, WorkerStep, Generate, IngressPush,
       IngressThrows, LeaveIngress, Handle, FindEmpty, TryAgain, TakeForDispatch, Dispatch,
       EndDispatch, DispatcherThrows, Complete, TakeEvent, WorkerThrows, LeaveWorker, MainStep,
       Expire, Done, vars, Accept, Refuse, Goto
  <2> QED
    BY <2>1, <2>2
<1> QED
  BY <1>1, <1>2, <1>3, <1>4

\* Which steps close queues, move main, and take a thread to its handler.
LEMMA Frame ==
  ASSUME RunTypeOK, [Next]_vars
  PROVE  /\ ~MainStep => main' = main
         /\ ~MainStep /\ (\A t \in Threads : ~CloseNext(t)) => closed' = closed
         /\ ~failed' => \A t \in Threads :
              pc'[t] = "close" => pc[t] = "close" \/ (t = Dispatcher /\ EndDispatch)
<1>a. /\ Dispatcher \in Threads /\ Ingress \subseteq Threads /\ Workers \subseteq Threads
      /\ pc \in [Threads -> {"loop", "push", "empty", "close", "exited"}]
  BY Threading DEF RunTypeOK
<1>1. ~MainStep => main' = main
  BY ParkEffect DEF Next, IngressStep, DispatcherStep, WorkerStep, Generate, IngressPush, IngressThrows,
     LeaveIngress, CloseNext, Handle, FindEmpty, TryAgain, TakeForDispatch, Dispatch, EndDispatch,
     DispatcherThrows, Complete, TakeEvent, WorkerThrows, LeaveWorker, Expire, Done, vars
<1>2. ~MainStep /\ (\A t \in Threads : ~CloseNext(t)) => closed' = closed
  BY <1>a, ParkEffect DEF Next, IngressStep, DispatcherStep, WorkerStep, Generate, IngressPush,
     IngressThrows, LeaveIngress, Handle, FindEmpty, TryAgain, TakeForDispatch, Dispatch,
     EndDispatch, DispatcherThrows, Complete, TakeEvent, WorkerThrows, LeaveWorker, Expire, Done,
     vars, queues
<1>3. ASSUME ~failed', NEW t \in Threads, pc'[t] = "close"
      PROVE  pc[t] = "close" \/ (t = Dispatcher /\ EndDispatch)
  <2>1. CASE EndDispatch
    BY <1>a, <1>3, <2>1 DEF EndDispatch, Goto
  <2>2. CASE \E s \in Threads : CloseNext(s)
    BY <1>a, <1>3, <2>2 DEF CloseNext, Goto
  <2>3. CASE ~EndDispatch /\ \A s \in Threads : ~CloseNext(s)
    BY <1>a, <1>3, <2>3, ParkEffect DEF Next, IngressStep, DispatcherStep, WorkerStep, Generate, IngressPush,
       IngressThrows, LeaveIngress, Handle, FindEmpty, TryAgain, TakeForDispatch, Dispatch,
       DispatcherThrows, Complete, TakeEvent, WorkerThrows, LeaveWorker, MainStep,
       Expire, Done, vars, Accept, Refuse, Goto
  <2> QED
    BY <2>1, <2>2, <2>3
<1> QED
  BY <1>1, <1>2, <1>3

\* A step that leaves the held events alone may move a thread, but not into a
\* push or out of one, unless it throws.
LEMMA CarryingKept ==
  ASSUME Carrying, held' = held, failed => failed',
         \A t \in Threads : pc'[t] = "push" => pc[t] = "push",
         \A i \in Ingress : /\ pc'[i] = "loop" => pc[i] = "loop"
                            /\ pc[i] = "push" /\ ~failed' => pc'[i] = "push",
         pc[Dispatcher] = "push" => pc'[Dispatcher] = "push"
  PROVE  Carrying'
BY DEF Carrying

\* A push takes up an event and lays it down.
LEMMA CarryingStep == RunTypeOK /\ Carrying /\ [Next]_vars => Carrying'
<1> SUFFICES ASSUME RunTypeOK, Carrying, [Next]_vars PROVE Carrying'
  OBVIOUS
<1>a. /\ Dispatcher \in Threads /\ Ingress \subseteq Threads /\ Workers \subseteq Threads
      /\ Dispatcher \notin Ingress /\ Dispatcher \notin Workers /\ Ingress \cap Workers = {}
      /\ dispatch_queue \in Queues /\ \A e \in Events : e.target_worker \in Queues
  BY Threading
<1>b. /\ pc \in [Threads -> {"loop", "push", "empty", "close", "exited"}]
      /\ held \in [Threads -> Events \cup {NoEvent}] /\ created \in 0 .. MaxEvents
  BY DEF RunTypeOK
<1>c. failed => failed'
  BY Latches
<1>1. ASSUME NEW i \in Ingress, Generate(i) PROVE Carrying'
  <2>1. PICK w \in Workers :
          held' = [held EXCEPT ![i] = [id |-> created', target_worker |-> w]]
    BY <1>1 DEF Generate
  <2>2. created' \in 1 .. MaxEvents
    BY <1>1, <1>b DEF Generate
  <2>3. [id |-> created', target_worker |-> w] \in Events
    BY <2>1, <2>2 DEF Events
  <2>4. pc' = [pc EXCEPT ![i] = "push"] /\ failed' = failed
    BY <1>1 DEF Generate, Goto
  <2> QED
    BY <1>a, <1>b, <2>1, <2>3, <2>4 DEF Carrying
<1>2. ASSUME NEW t \in Threads, pc[t] = "push", failed' = failed,
             held' = [held EXCEPT ![t] = NoEvent], pc' = [pc EXCEPT ![t] = "loop"]
      PROVE  Carrying'
  BY <1>a, <1>b, <1>2 DEF Carrying
<1>3. ASSUME NEW i \in Ingress, IngressPush(i) PROVE Carrying'
  <2>1. /\ pc[i] = "push" /\ failed' = failed
        /\ held' = [held EXCEPT ![i] = NoEvent] /\ pc' = [pc EXCEPT ![i] = "loop"]
    BY <1>3 DEF IngressPush, Accept, Refuse, Goto
  <2> QED
    BY <1>a, <1>2, <2>1
<1>4. CASE Dispatch
  <2>1. /\ pc[Dispatcher] = "push" /\ failed' = failed
        /\ held' = [held EXCEPT ![Dispatcher] = NoEvent] /\ pc' = [pc EXCEPT ![Dispatcher] = "loop"]
    BY <1>4 DEF Dispatch, Accept, Refuse, Goto
  <2> QED
    BY <1>a, <1>2, <2>1
<1>5. CASE TakeForDispatch
  <2>1. Head(queue[dispatch_queue]) \in Events /\ failed' = failed
        /\ held' = [held EXCEPT ![Dispatcher] = Head(queue[dispatch_queue])]
        /\ pc' = [pc EXCEPT ![Dispatcher] = "push"]
    BY <1>5, DispatchTakes DEF TakeForDispatch
  <2> QED
    BY <1>a, <1>b, <2>1 DEF Carrying
<1>6. ASSUME NEW t \in Threads, NEW l, Goto(t, l), held' = held, l # "push", pc[t] # "push",
             t \notin Ingress \/ l # "loop"
      PROVE  Carrying'
  BY <1>a, <1>b, <1>c, <1>6, CarryingKept DEF Goto
<1>7. CASE \/ \E t \in Threads : CloseNext(t)
           \/ \E i \in Ingress : LeaveIngress(i)
           \/ FindEmpty(Dispatcher, dispatch_queue) \/ TryAgain(Dispatcher, dispatch_queue)
           \/ EndDispatch
           \/ \E w \in Workers : FindEmpty(w, w) \/ TryAgain(w, w) \/ LeaveWorker(w)
  <2>1. ASSUME NEW t \in Threads, CloseNext(t) PROVE Carrying'
    <3>1. held' = held /\ pc[t] # "push"
          /\ Goto(t, IF Len(to_close[t]) = 1 THEN "exited" ELSE "close")
      BY <2>1 DEF CloseNext
    <3> QED
      BY <1>6, <3>1
  <2>2. ASSUME NEW i \in Ingress, LeaveIngress(i) PROVE Carrying'
    BY <1>a, <1>6, <2>2 DEF LeaveIngress
  <2>3. ASSUME NEW t \in Threads \ Ingress, NEW q, FindEmpty(t, q) \/ TryAgain(t, q) PROVE Carrying'
    BY <1>6, <2>3 DEF FindEmpty, TryAgain
  <2>4. CASE EndDispatch
    BY <1>a, <1>6, <2>4 DEF EndDispatch
  <2>5. ASSUME NEW w \in Workers, LeaveWorker(w) PROVE Carrying'
    BY <1>a, <1>6, <2>5 DEF LeaveWorker
  <2> QED
    BY <1>a, <1>7, <2>1, <2>2, <2>3, <2>4, <2>5
<1>8. ASSUME NEW t \in Threads, NEW l, Handle(t, l), held' = held, t \in Ingress \/ pc[t] # "push"
      PROVE  Carrying'
  BY <1>a, <1>b, <1>c, <1>8, CarryingKept DEF Handle, Goto
<1>9. ASSUME NEW w \in Workers, Complete(w) \/ WorkerThrows(w) PROVE Carrying'
  <2>1. CASE Complete(w)
    BY <1>b, <1>c, <2>1, CarryingKept DEF Complete, TakeEvent
  <2>2. CASE WorkerThrows(w)
    <3>1. Handle(w, AllQueues) /\ held' = held /\ pc[w] # "push"
      BY <2>2 DEF WorkerThrows, TakeEvent
    <3> QED
      BY <1>a, <1>8, <3>1
  <2> QED
    BY <1>9, <2>1, <2>2
<1>10. ASSUME NEW i \in Ingress, IngressThrows(i) PROVE Carrying'
  BY <1>a, <1>8, <1>10 DEF IngressThrows
<1>11. CASE DispatcherThrows
  BY <1>a, <1>8, <1>11 DEF DispatcherThrows
<1>12. CASE (\E i \in Ingress : Park(i) \/ Wakeup(i)) \/ MainStep \/ Expire \/ Done \/ UNCHANGED vars
  <2>1. UNCHANGED <<held, pc>>
    BY <1>12, ParkEffect DEF MainStep, Expire, Done, vars
  <2> QED
    BY <1>c, <2>1, CarryingKept
<1>13. CASE DispatcherStep
  BY <1>a, <1>4, <1>5, <1>7, <1>13 DEF DispatcherStep
<1>14. ASSUME NEW w \in Workers, WorkerStep(w) PROVE Carrying'
  BY <1>a, <1>7, <1>9, <1>14 DEF WorkerStep
<1>15. ASSUME NEW i \in Ingress, IngressStep(i) PROVE Carrying'
  BY <1>a, <1>3, <1>7, <1>12, <1>15 DEF IngressStep
<1> QED
  BY <1>1, <1>9, <1>10, <1>11, <1>12, <1>13, <1>14, <1>15 DEF Next

\* The dispatcher starts on its list behind the dispatch queue and moves on.
LEMMA ClosesRingsStep == RunTypeOK /\ Carrying /\ ClosesRings /\ [Next]_vars => ClosesRings'
<1> SUFFICES ASSUME RunTypeOK, Carrying, ClosesRings, [Next]_vars, pc'[Dispatcher] = "close"
             PROVE  \E k \in 2 .. WorkerThreads + 1 : to_close'[Dispatcher] = Rest(k)
  BY DEF ClosesRings, Rest
<1>a. /\ Dispatcher \in Threads /\ Ingress \subseteq Threads /\ Workers \subseteq Threads
      /\ Dispatcher \notin Ingress /\ Dispatcher \notin Workers
      /\ pc \in [Threads -> {"loop", "push", "empty", "close", "exited"}]
      /\ to_close \in [Threads -> Remainders]
  BY Threading DEF RunTypeOK
<1>1. CASE to_close' = [to_close EXCEPT ![Dispatcher] = WorkerQueues]
  BY <1>a, <1>1, RestOf
<1>2. CASE CloseNext(Dispatcher)
  <2>1. PICK k \in 2 .. WorkerThreads + 1 : to_close[Dispatcher] = Rest(k)
    BY <1>2 DEF CloseNext, ClosesRings, Rest
  <2>2. WorkerThreads \in Nat \ {0}
    BY Lists
  <2>3. k \in 1 .. WorkerThreads + 1
    BY <2>2
  <2>4. to_close'[Dispatcher] = Rest(k + 1)
    BY <1>2, <1>a, <2>1, <2>3, RestStep DEF CloseNext
  <2>5. to_close'[Dispatcher] # <<>>
    BY PlacesStep DEF PlacesOK, Threads
  <2>6. k # WorkerThreads + 1
    <3>1. k = WorkerThreads + 1 => k + 1 = WorkerThreads + 2
      BY <2>2
    <3> QED
      BY <2>4, <2>5, <3>1, RestOf
  <2>7. k + 1 \in 2 .. WorkerThreads + 1
    BY <2>2, <2>6
  <2> QED
    BY <2>4, <2>7
<1>3. CASE pc[Dispatcher] = "close" /\ to_close'[Dispatcher] = to_close[Dispatcher]
  BY <1>3 DEF ClosesRings, Rest
<1>4. ASSUME NEW t \in Threads \ {Dispatcher},
             CloseNext(t) \/ (\E l \in {AllQueues, WorkerQueues} : Handle(t, l))
      PROVE  pc[Dispatcher] = "close" /\ to_close'[Dispatcher] = to_close[Dispatcher]
  BY <1>a, <1>4 DEF CloseNext, Handle, Goto
<1>5. CASE EndDispatch \/ DispatcherThrows
  BY <1>1, <1>5 DEF EndDispatch, DispatcherThrows, Handle
<1>6. CASE /\ ~EndDispatch /\ ~DispatcherThrows
           /\ \A t \in Threads : ~CloseNext(t)
           /\ \A t \in Threads \ {Dispatcher}, l \in {AllQueues, WorkerQueues} : ~Handle(t, l)
  <2>1. to_close' = to_close
    BY <1>a, <1>6, ParkEffect DEF Next, IngressStep, DispatcherStep, WorkerStep, Generate, IngressPush,
       IngressThrows, LeaveIngress, FindEmpty, TryAgain, TakeForDispatch, Dispatch,
       Complete, TakeEvent, WorkerThrows, LeaveWorker, MainStep, Expire, Done, vars
  <2>2. pc[Dispatcher] = "close"
    BY <2>1, PlacesStep DEF PlacesOK, RunTypeOK, Threads
  <2> QED
    BY <1>3, <2>1, <2>2
<1> QED
  BY <1>2, <1>3, <1>4, <1>5, <1>6

\* A thread that main has joined stays where it is.
LEMMA JoinedStep == RunTypeOK /\ Carrying /\ Joined /\ [Next]_vars => Joined'
<1> SUFFICES ASSUME RunTypeOK, Carrying, Joined, [Next]_vars PROVE Joined'
  OBVIOUS
<1>a. /\ Dispatcher \in Threads /\ Ingress \subseteq Threads
      /\ ingress_stop => ingress_stop'
      /\ \A t \in Threads : pc[t] = "exited" => pc'[t] = "exited"
  BY Threading, Latches
<1>1. CASE MainStep
  <2>1. pc' = pc
    BY <1>1 DEF MainStep
  <2> QED
    BY <1>a, <1>1, <2>1 DEF MainStep, Joined, Exited
<1>2. CASE ~MainStep
  <2>1. main' = main
    BY <1>2, Frame
  <2> QED
    BY <1>a, <2>1 DEF Joined, Exited
<1> QED
  BY <1>1, <1>2

\* A thread pushes no more into a queue once it is closed, but for an error.
LEMMA NoLatePush ==
  ASSUME RunTypeOK, Joined, Orderly, ~failed
  PROVE  /\ closed[dispatch_queue] => \A i \in Ingress : pc[i] = "exited"
         /\ pc[Dispatcher] = "push" => \A w \in Workers : ~closed[w]
BY DEF Joined, Orderly, Exited

\* The queues are closed one after the other, each behind its last push.
LEMMA OrderlyStep ==
  ASSUME RunTypeOK, Carrying, ClosesRings, Joined, Orderly, [Next]_vars
  PROVE  Orderly'
<1> SUFFICES ASSUME ~failed' PROVE
      /\ closed'[dispatch_queue] => main' \in {"dispatcher", "workers", "done"}
      /\ \A w \in Workers : closed'[w] => pc'[Dispatcher] \in {"close", "exited"}
      /\ \A t \in Threads \ {Dispatcher} : pc'[t] # "close"
      /\ pc'[Dispatcher] \in {"close", "exited"} =>
           closed'[dispatch_queue] /\ (global_lock' => queue'[dispatch_queue] = <<>>)
  BY DEF Orderly
<1>a. /\ Dispatcher \in Threads /\ Ingress \subseteq Threads /\ Workers \subseteq Threads
      /\ Dispatcher \notin Ingress /\ Dispatcher \notin Workers
      /\ dispatch_queue \in Queues /\ dispatch_queue \notin Workers /\ Workers \subseteq Queues
      /\ pc \in [Threads -> {"loop", "push", "empty", "close", "exited"}]
      /\ closed \in [Queues -> BOOLEAN]
  BY Threading DEF RunTypeOK
<1>b. ~failed /\ global_lock' = global_lock
      /\ (\A q \in Queues : closed[q] => closed'[q])
      /\ \A t \in Threads : /\ pc[t] = "exited" => pc'[t] = "exited"
                            /\ pc[t] = "close" => pc'[t] \in {"close", "exited"}
  BY Latches
<1>c. /\ closed[dispatch_queue] => main \in {"dispatcher", "workers", "done"}
      /\ \A w \in Workers : closed[w] => pc[Dispatcher] \in {"close", "exited"}
      /\ \A t \in Threads \ {Dispatcher} : pc[t] # "close"
      /\ pc[Dispatcher] \in {"close", "exited"} =>
           closed[dispatch_queue] /\ (global_lock => queue[dispatch_queue] = <<>>)
  BY <1>b DEF Orderly
<1>1. \A t \in Threads \ {Dispatcher} : pc'[t] # "close"
  BY <1>c, Frame
<1>2. ASSUME NEW t \in Threads, CloseNext(t)
      PROVE  /\ t = Dispatcher /\ pc[Dispatcher] = "close" /\ closed'[dispatch_queue] = closed[dispatch_queue]
  <2>1. t = Dispatcher /\ pc[Dispatcher] = "close"
    BY <1>c, <1>2 DEF CloseNext
  <2>2. PICK k \in 2 .. WorkerThreads + 1 : to_close[Dispatcher] = Rest(k)
    BY <2>1 DEF ClosesRings, Rest
  <2>3. k \in 1 .. WorkerThreads + 1 /\ AllQueues[k] \in Workers
    BY Lists
  <2>4. closed' = [closed EXCEPT ![AllQueues[k]] = TRUE]
    BY <1>2, <2>1, <2>2, <2>3, RestStep DEF CloseNext
  <2> QED
    BY <1>a, <2>1, <2>3, <2>4
<1>3. closed'[dispatch_queue] => main' \in {"dispatcher", "workers", "done"}
  <2>1. CASE MainStep
    BY <1>a, <1>c, <2>1 DEF MainStep
  <2>2. CASE ~MainStep
    <3>1. main' = main /\ closed'[dispatch_queue] = closed[dispatch_queue]
      BY <1>2, <2>2, Frame
    <3> QED
      BY <1>c, <3>1
  <2> QED
    BY <2>1, <2>2
<1>4. \A w \in Workers : closed'[w] => pc'[Dispatcher] \in {"close", "exited"}
  <2>1. CASE \E t \in Threads : CloseNext(t)
    BY <1>a, <1>b, <1>2, <2>1
  <2>2. CASE MainStep
    <3>1. pc' = pc /\ \A w \in Workers : closed'[w] = closed[w]
      BY <1>a, <2>2 DEF MainStep
    <3> QED
      BY <1>c, <3>1
  <2>3. CASE ~MainStep /\ \A t \in Threads : ~CloseNext(t)
    <3>1. closed' = closed
      BY <2>3, Frame
    <3> QED
      BY <1>a, <1>b, <1>c, <3>1
  <2> QED
    BY <2>1, <2>2, <2>3
<1>5. ASSUME pc'[Dispatcher] \in {"close", "exited"}
      PROVE  closed'[dispatch_queue] /\ (global_lock' => queue'[dispatch_queue] = <<>>)
  <2>1. CASE EndDispatch
    <3>1. closed[dispatch_queue] /\ (global_lock => queue[dispatch_queue] = <<>>)
          /\ UNCHANGED <<queue, closed>>
      BY <2>1 DEF EndDispatch, MayEnd, queues
    <3> QED
      BY <1>b, <3>1
  <2>2. CASE pc[Dispatcher] \in {"close", "exited"}
    <3>1. closed[dispatch_queue] /\ \A i \in Ingress : pc[i] = "exited"
      BY <1>b, <1>c, <2>2, NoLatePush
    <3>2. queue'[dispatch_queue] = queue[dispatch_queue]
      <4>1. ASSUME NEW i \in Ingress PROVE ~IngressPush(i)
        BY <3>1 DEF IngressPush, Accept, Refuse
      <4>2. ~TakeForDispatch /\ ~Dispatch
        BY <2>2 DEF TakeForDispatch, Dispatch, Accept, Refuse
      <4>3. CASE \E w \in Workers : TakeEvent(w)
        BY <1>a, <4>3, TakeEffect DEF RunTypeOK
      <4>4. CASE \A w \in Workers : ~TakeEvent(w)
        BY <4>1, <4>2, <4>4, ParkEffect DEF Next, IngressStep, DispatcherStep, WorkerStep, Generate,
           IngressThrows, LeaveIngress, CloseNext, FindEmpty, TryAgain, EndDispatch,
           DispatcherThrows, Complete, WorkerThrows, LeaveWorker, MainStep, Expire, Done, vars,
           queues
      <4> QED
        BY <4>3, <4>4
    <3> QED
      BY <1>a, <1>b, <1>c, <2>2, <3>1, <3>2
  <2>3. CASE pc[Dispatcher] \notin {"close", "exited"} /\ ~EndDispatch
    <3>1. pc'[Dispatcher] = "exited"
      BY <1>a, <1>5, <2>3, Frame
    <3>2. pc'[Dispatcher] # "exited"
      <4>1. CASE DispatcherStep \/ DispatcherThrows
        BY <1>a, <2>3, <4>1 DEF DispatcherStep, CloseNext, FindEmpty, TryAgain, TakeForDispatch,
           Dispatch, Accept, Refuse, DispatcherThrows, Handle, Goto
      <4>2. CASE MainStep \/ Expire \/ Done \/ UNCHANGED vars
        BY <2>3, <4>2 DEF MainStep, Expire, Done, vars
      <4>3. ASSUME NEW i \in Ingress,
                   Generate(i) \/ IngressStep(i) \/ IngressThrows(i) \/ Wakeup(i)
            PROVE  pc'[Dispatcher] = pc[Dispatcher]
        BY <1>a, <4>3, ParkEffect DEF IngressStep, Generate, IngressPush, Accept, Refuse, IngressThrows,
           LeaveIngress, CloseNext, Handle, Goto
      <4>4. ASSUME NEW w \in Workers, WorkerStep(w) \/ WorkerThrows(w)
            PROVE  pc'[Dispatcher] = pc[Dispatcher]
        BY <1>a, <4>4 DEF WorkerStep, FindEmpty, TryAgain, Complete, TakeEvent, LeaveWorker,
           CloseNext, WorkerThrows, Handle, Goto
      <4> QED
        BY <2>3, <4>1, <4>2, <4>3, <4>4 DEF Next
    <3> QED
      BY <3>1, <3>2
  <2> QED
    BY <2>1, <2>2, <2>3
<1> QED
  BY <1>1, <1>3, <1>4, <1>5

-----------------------------------------------------------------------------
(* The balances                                                            *)

\* There are finitely many queues.
LEMMA QueuesFinite == IsFiniteSet(Queues)
<1>1. IsFiniteSet(Workers)
  BY FS_Interval DEF Workers
<1> QED
  BY <1>1, FS_Singleton, FS_Union DEF Queues

\* There are finitely many places in the queues.
LEMMA QueuesSized ==
  ASSUME NEW f \in [Queues -> Seq(Events)]
  PROVE  Sized(f, MeasuredEvents) /\ CountAll(f, MeasuredEvents) \in Nat
<1>1. IsFiniteSet(DOMAIN f) /\ \A q \in DOMAIN f : f[q] \in Seq(Events)
  BY QueuesFinite
<1>2. Sized(f, MeasuredEvents)
  BY <1>1, AllSized
<1> QED
  BY <1>2, AllAtFinite

\* The counts are numbers.
LEMMA CountTypes ==
  ASSUME RunTypeOK
  PROVE  /\ IsFiniteSet(Queues) /\ CountAll(queue, MeasuredEvents) \in Nat
         /\ Offered \in [Ingress -> Events \cup {NoEvent}]
         /\ IsFiniteSet(Ingress) /\ Cardinality(Ingress) \in Nat
         /\ Count(Offered, MeasuredEvents) \in 0 .. Cardinality(Ingress)
         /\ \A t \in Threads : One(held[t], MeasuredEvents) \in {0, 1}
<1>1. IsFiniteSet(Queues)
  BY QueuesFinite
<1>2. queue \in [Queues -> Seq(Events)] /\ held \in [Threads -> Events \cup {NoEvent}]
  BY DEF RunTypeOK
<1>3. CountAll(queue, MeasuredEvents) \in Nat
  BY <1>2, QueuesSized
<1>4. Offered \in [Ingress -> Events \cup {NoEvent}] /\ DOMAIN Offered = Ingress
  BY <1>2, Threading DEF Offered
<1>5. IsFiniteSet(Ingress) /\ Cardinality(Ingress) \in Nat
  BY FS_CardinalityType
<1>6. Count(Offered, MeasuredEvents) \in Nat
      /\ Count(Offered, MeasuredEvents) <= Cardinality(Ingress)
  BY <1>4, <1>5, CountType, CountBound
<1>7. \A t \in Threads : One(held[t], MeasuredEvents) \in {0, 1}
  BY <1>2, Counted
<1> QED
  BY <1>1, <1>3, <1>4, <1>5, <1>6, <1>7

\* A thread takes up an event, or lays it down.
LEMMA HeldMoves ==
  ASSUME RunTypeOK, NEW t \in Threads, NEW e, held' = [held EXCEPT ![t] = e]
  PROVE  /\ held'[t] = e
         /\ t \notin Ingress => Offered' = Offered
         /\ t \in Ingress => Count(Offered', MeasuredEvents)
              = Count(Offered, MeasuredEvents) + One(e, MeasuredEvents)
                  - One(held[t], MeasuredEvents)
         /\ t # Dispatcher => held'[Dispatcher] = held[Dispatcher]
<1>1. held \in [Threads -> Events \cup {NoEvent}] /\ Ingress \subseteq Threads /\ Dispatcher \in Threads
  BY Threading DEF RunTypeOK
<1>2. CASE t \in Ingress
  <2>1. Offered' = [Offered EXCEPT ![t] = e]
    BY <1>1, <1>2 DEF Offered
  <2>2. IsFiniteSet(DOMAIN Offered) /\ DOMAIN Offered = Ingress /\ Offered[t] = held[t]
    BY <1>2 DEF Offered
  <2>3. \A to : Count([Offered EXCEPT ![t] = to], MeasuredEvents)
                  = Count(Offered, MeasuredEvents) + One(to, MeasuredEvents)
                      - One(Offered[t], MeasuredEvents)
    BY <1>2, <2>2, CountMove
  <2> QED
    BY <1>1, <1>2, <2>1, <2>2, <2>3
<1>3. CASE t \notin Ingress
  <2>1. Offered' = Offered
    BY <1>1, <1>3 DEF Offered
  <2> QED
    BY <1>1, <1>3, <2>1
<1> QED
  BY <1>2, <1>3

\* One of the queues changes.
LEMMA QueuesMove ==
  ASSUME RunTypeOK, NEW q \in Queues, NEW s \in Seq(Events), queue' = [queue EXCEPT ![q] = s]
  PROVE  CountAll(queue', MeasuredEvents)
           = CountAll(queue, MeasuredEvents) + Count(s, MeasuredEvents)
               - Count(queue[q], MeasuredEvents)
<1>1. ASSUME NEW f, NEW g, DOMAIN f = Queues, DOMAIN g = Queues, NEW r \in Queues,
             Sized(f, MeasuredEvents), Sized(g, MeasuredEvents),
             \A p \in Queues \ {r} : g[p] = f[p]
      PROVE  CountAll(g, MeasuredEvents)
               = CountAll(f, MeasuredEvents) + Count(g[r], MeasuredEvents)
                   - Count(f[r], MeasuredEvents)
  BY <1>1, CountAllMove
<1>2. /\ queue \in [Queues -> Seq(Events)] /\ queue' \in [Queues -> Seq(Events)]
      /\ queue'[q] = s /\ \A r \in Queues \ {q} : queue'[r] = queue[r]
  BY DEF RunTypeOK
<1>3. /\ DOMAIN queue = Queues /\ DOMAIN queue' = Queues
      /\ Sized(queue, MeasuredEvents) /\ Sized(queue', MeasuredEvents)
  BY <1>2, QueuesSized
<1>4. CountAll(queue', MeasuredEvents)
        = CountAll(queue, MeasuredEvents) + Count(queue'[q], MeasuredEvents)
            - Count(queue[q], MeasuredEvents)
  BY <1>1, <1>2, <1>3
<1> QED
  BY <1>2, <1>4

\* An event goes into a queue.
LEMMA QueuesGain ==
  ASSUME RunTypeOK, NEW q \in Queues, NEW e \in Events,
         queue' = [queue EXCEPT ![q] = Append(queue[q], e)]
  PROVE  CountAll(queue', MeasuredEvents)
           = CountAll(queue, MeasuredEvents) + One(e, MeasuredEvents)
<1> DEFINE M == MeasuredEvents
<1>1. queue \in [Queues -> Seq(Events)] /\ queue[q] \in Seq(Events) /\ IsFiniteSet(Queues)
      /\ CountAll(queue, M) \in Nat
  BY CountTypes DEF RunTypeOK
<1>2. Append(queue[q], e) \in Seq(Events)
  BY <1>1, AppendProperties
<1>3. Count(Append(queue[q], e), M) = Count(queue[q], M) + One(e, M)
  BY <1>1, CountAppend
<1>5. Count(queue[q], M) \in Nat /\ One(e, M) \in {0, 1}
  BY <1>1, CountSeqType, Counted
<1>6. CountAll(queue', M) = CountAll(queue, M) + Count(Append(queue[q], e), M) - Count(queue[q], M)
  BY <1>2, QueuesMove
<1> QED
  BY <1>1, <1>3, <1>5, <1>6

\* An event comes out of a queue.
LEMMA QueuesLose ==
  ASSUME RunTypeOK, NEW q \in Queues, queue[q] # <<>>,
         queue' = [queue EXCEPT ![q] = Tail(queue[q])]
  PROVE  /\ CountAll(queue, MeasuredEvents)
              = CountAll(queue', MeasuredEvents) + One(Head(queue[q]), MeasuredEvents)
         /\ CountAll(queue', MeasuredEvents) \in Nat
<1> DEFINE M == MeasuredEvents
<1>1. queue \in [Queues -> Seq(Events)] /\ queue[q] \in Seq(Events) /\ IsFiniteSet(Queues)
      /\ CountAll(queue, M) \in Nat
  BY CountTypes DEF RunTypeOK
<1>2. Tail(queue[q]) \in Seq(Events) /\ Head(queue[q]) \in Events /\ queue' \in [Queues -> Seq(Events)]
  BY PopEffect
<1>3. Count(queue[q], M) = Count(Tail(queue[q]), M) + One(Head(queue[q]), M)
  BY <1>1, CountTail
<1>5. Count(Tail(queue[q]), M) \in Nat /\ One(Head(queue[q]), M) \in {0, 1}
  BY <1>2, CountSeqType, Counted
<1>6. CountAll(queue', M) = CountAll(queue, M) + Count(Tail(queue[q]), M) - Count(queue[q], M)
  BY <1>2, QueuesMove
<1>7. CountAll(queue', M) \in Nat
  BY <1>2, QueuesSized
<1> QED
  BY <1>1, <1>3, <1>5, <1>6, <1>7

\* The two sums, before a step and after it.
LEMMA Sums ==
  ASSUME RunTypeOK, RunTypeOK'
  PROVE  /\ Delivered = completed + dropped_dispatch + CountAll(queue, MeasuredEvents)
                          + One(held[Dispatcher], MeasuredEvents)
         /\ Delivered' = completed' + dropped_dispatch' + CountAll(queue', MeasuredEvents)
                           + One(held'[Dispatcher], MeasuredEvents)
         /\ Delivered \in Nat /\ Delivered' \in Nat
         /\ Pushing = Count(Offered, MeasuredEvents) /\ Pushing' = Count(Offered', MeasuredEvents)
         /\ Pushing \in 0 .. Cardinality(Ingress) /\ Pushing' \in 0 .. Cardinality(Ingress)
         /\ Cardinality(Ingress) \in Nat
<1>1. MeasuredEvents' = MeasuredEvents
  BY DEF MeasuredEvents, Measured
<1>2. /\ Delivered = completed + dropped_dispatch + CountAll(queue, MeasuredEvents)
                       + One(held[Dispatcher], MeasuredEvents)
      /\ Delivered' = completed' + dropped_dispatch' + CountAll(queue', MeasuredEvents)
                        + One(held'[Dispatcher], MeasuredEvents)
      /\ Pushing = Count(Offered, MeasuredEvents) /\ Pushing' = Count(Offered', MeasuredEvents)
  BY <1>1 DEF Delivered, Pushing
<1>3. /\ CountAll(queue, MeasuredEvents) \in Nat /\ Count(Offered, MeasuredEvents) \in 0 .. Cardinality(Ingress)
      /\ One(held[Dispatcher], MeasuredEvents) \in {0, 1} /\ Cardinality(Ingress) \in Nat
  BY CountTypes, Threading
<1>4. /\ CountAll(queue', MeasuredEvents) \in Nat /\ One(held'[Dispatcher], MeasuredEvents) \in {0, 1}
  <2>1. queue' \in [Queues -> Seq(Events)] /\ held' \in [Threads -> Events \cup {NoEvent}]
    BY DEF RunTypeOK
  <2> QED
    BY <2>1, QueuesSized, Counted, Threading
<1>5. Count(Offered', MeasuredEvents) \in 0 .. Cardinality(Ingress)
  <2>1. DOMAIN Offered' = Ingress /\ IsFiniteSet(Ingress)
    BY DEF Offered
  <2>2. Count(Offered', MeasuredEvents) \in Nat
        /\ Count(Offered', MeasuredEvents) <= Cardinality(Ingress)
    BY <2>1, CountType, CountBound
  <2> QED
    BY <1>3, <2>2
<1>6. /\ completed \in Nat /\ dropped_dispatch \in Nat /\ completed' \in Nat /\ dropped_dispatch' \in Nat
  BY DEF RunTypeOK
<1>7. Delivered \in Nat /\ Delivered' \in Nat
  BY <1>2, <1>3, <1>4, <1>6
<1> QED
  BY <1>2, <1>3, <1>5, <1>7

\* A step that moves no event keeps both balances.
LEMMA BalancesQuiet ==
  ASSUME RunTypeOK, RunTypeOK', DeliveryBalanced, IngressBalanced,
         UNCHANGED <<policy, queue, held, created, counters>>,
         failed => failed', ingress_stop => ingress_stop'
  PROVE  DeliveryBalanced' /\ IngressBalanced'
<1>1. Offered' = Offered
  BY DEF Offered
<1>2. Delivered' = Delivered /\ Pushing' = Pushing
  BY <1>1, Sums DEF counters
<1>3. UNCHANGED <<policy, created, generated, accepted, completed, dropped_ingress, dropped_dispatch>>
  BY DEF counters
<1> QED
  BY <1>2, <1>3 DEF DeliveryBalanced, IngressBalanced

\* An event is generated: it counts from the moment its thread holds it.
LEMMA BalancesGenerate ==
  ASSUME RunTypeOK, RunTypeOK', Carrying, DeliveryBalanced, IngressBalanced,
         NEW i \in Ingress, Generate(i)
  PROVE  DeliveryBalanced' /\ IngressBalanced'
<1>1. PICK w \in Workers : held' = [held EXCEPT ![i] = [id |-> created', target_worker |-> w]]
  BY DEF Generate
<1> DEFINE e == [id |-> created', target_worker |-> w]
           o == One(e, MeasuredEvents)
<1>2. /\ ~ingress_stop /\ created' = created + 1 /\ held'[i] = e /\ held[i] = NoEvent
      /\ generated' = CountIf(Measured(held'[i]), generated)
      /\ UNCHANGED <<policy, queue, failed, ingress_stop, accepted, completed, dropped_ingress,
                     dropped_dispatch>>
  BY <1>1, Threading DEF Generate, Carrying, RunTypeOK, queues, config
<1>3. e \in Events /\ o \in {0, 1} /\ generated' = generated + o
  <2>1. held'[i] \in Events \cup {NoEvent} /\ generated \in Nat /\ created' # 0
    BY <1>2, Threading DEF RunTypeOK
  <2>2. e # NoEvent
    BY <2>1 DEF NoEvent
  <2> QED
    BY <1>2, <2>1, <2>2, Counted
<1>4. Pushing' = Pushing + o /\ Delivered' = Delivered
  <2>1. /\ Count(Offered', MeasuredEvents)
             = Count(Offered, MeasuredEvents) + o - One(held[i], MeasuredEvents)
        /\ held'[Dispatcher] = held[Dispatcher]
    BY <1>1, HeldMoves, Threading
  <2>2. One(held[i], MeasuredEvents) = 0
    BY <1>2, Counted
  <2>3. Pushing' = Pushing + o - 0
    BY <2>1, <2>2, Sums
  <2>4. Delivered' = Delivered
    BY <1>2, <2>1, Sums
  <2> QED
    BY <1>3, <2>3, <2>4, Sums
<1>5. created \in Nat /\ generated \in Nat /\ accepted \in Nat /\ dropped_ingress \in Nat
  BY DEF RunTypeOK
<1> HIDE DEF e, o
<1>6. DeliveryBalanced'
  BY <1>2, <1>4 DEF DeliveryBalanced
<1>7. IngressBalanced'
  BY <1>2, <1>3, <1>4, <1>5, Sums DEF IngressBalanced
<1> QED
  BY <1>6, <1>7

\* An ingress push is accepted, dropped, or refused to a thread that is to stop.
LEMMA BalancesIngressPush ==
  ASSUME RunTypeOK, RunTypeOK', Carrying, Joined, Orderly, DeliveryBalanced, IngressBalanced,
         NEW i \in Ingress, IngressPush(i)
  PROVE  DeliveryBalanced' /\ IngressBalanced'
<1> DEFINE o == One(held[i], MeasuredEvents)
<1>1. /\ i \in Threads /\ dispatch_queue \in Queues /\ i # Dispatcher
      /\ UNCHANGED <<policy, failed, ingress_stop, created, generated, completed, dropped_dispatch>>
  BY Threading DEF IngressPush, config
<1>2. held' = [held EXCEPT ![i] = NoEvent] /\ pc[i] = "push" /\ held[i] \in Events
  BY <1>1 DEF IngressPush, Accept, Refuse, Carrying
<1>3. o \in {0, 1} /\ Pushing' = Pushing - o /\ held'[Dispatcher] = held[Dispatcher]
  <2>1. /\ Count(Offered', MeasuredEvents)
             = Count(Offered, MeasuredEvents) + One(NoEvent, MeasuredEvents) - o
        /\ held'[Dispatcher] = held[Dispatcher]
    BY <1>1, <1>2, HeldMoves
  <2>2. o \in {0, 1} /\ One(NoEvent, MeasuredEvents) = 0
    BY <1>2, Counted
  <2> QED
    BY <2>1, <2>2, Sums
<1>4. /\ accepted \in Nat /\ dropped_ingress \in Nat /\ generated \in Nat /\ created \in Nat
      /\ policy \in {"Block", "Drop"}
  BY DEF RunTypeOK
<1>5. CASE /\ Accept(i, dispatch_queue) /\ dropped_ingress' = dropped_ingress
           /\ accepted' = CountIf(Measured(held[i]), accepted)
  <2>1. accepted' = accepted + o
    BY <1>2, <1>4, <1>5, Counted
  <2>2. CountAll(queue', MeasuredEvents) = CountAll(queue, MeasuredEvents) + o
    BY <1>1, <1>2, <1>5, AcceptEffect, QueuesGain
  <2>3. Delivered' = Delivered + o
    <3>1. CountAll(queue, MeasuredEvents) \in Nat /\ One(held[Dispatcher], MeasuredEvents) \in {0, 1}
      BY CountTypes, Threading
    <3>2. completed \in Nat /\ dropped_dispatch \in Nat
      BY DEF RunTypeOK
    <3> QED
      BY <1>1, <1>3, <2>2, <3>1, <3>2, Sums
  <2> HIDE DEF o
  <2>4. DeliveryBalanced'
    BY <1>1, <1>3, <1>4, <2>1, <2>3, Sums DEF DeliveryBalanced
  <2>5. IngressBalanced'
    BY <1>1, <1>3, <1>4, <1>5, <2>1, Sums DEF IngressBalanced
  <2> QED
    BY <2>4, <2>5
<1>6. CASE /\ Refuse(i, dispatch_queue, ingress_stop) /\ accepted' = accepted
           /\ dropped_ingress' = CountIf(policy = "Drop" /\ Measured(held[i]), dropped_ingress)
  <2>1. queue' = queue /\ (closed[dispatch_queue] \/ ingress_stop \/ policy = "Drop")
    BY <1>1, <1>6, RefuseEffect
  <2>2. Delivered' = Delivered
    BY <1>1, <1>3, <2>1, Sums
  <2>3. DeliveryBalanced'
    BY <1>1, <1>6, <2>2 DEF DeliveryBalanced
  <2>4. CASE policy = "Drop"
    <3>1. dropped_ingress' = dropped_ingress + o
      <4>1. dropped_ingress' = CountIf(Measured(held[i]), dropped_ingress)
        BY <1>6, <2>4 DEF CountIf
      <4> QED
        BY <1>2, <1>4, <4>1, Counted
    <3> HIDE DEF o
    <3>2. IngressBalanced'
      BY <1>1, <1>3, <1>4, <1>6, <2>4, <3>1, Sums DEF IngressBalanced
    <3> QED
      BY <2>3, <3>2
  <2>5. CASE policy = "Block"
    <3>1. dropped_ingress' = dropped_ingress
      BY <1>6, <2>5 DEF CountIf
    <3>2. ~failed => ingress_stop
      <4>1. ~failed => ~closed[dispatch_queue]
        BY <1>2, NoLatePush
      <4> QED
        BY <2>1, <2>5, <4>1
    <3> HIDE DEF o
    <3>3. IngressBalanced'
      BY <1>1, <1>3, <1>4, <1>6, <2>5, <3>1, <3>2, Sums DEF IngressBalanced
    <3> QED
      BY <2>3, <3>3
  <2> QED
    BY <1>4, <2>4, <2>5
<1> QED
  BY <1>5, <1>6 DEF IngressPush

\* The dispatcher takes an event out of the dispatch queue.
LEMMA BalancesTake ==
  ASSUME RunTypeOK, RunTypeOK', Carrying, DeliveryBalanced, IngressBalanced, TakeForDispatch
  PROVE  DeliveryBalanced' /\ IngressBalanced'
<1> DEFINE e == Head(queue[dispatch_queue])
           o == One(e, MeasuredEvents)
<1>1. /\ held' = [held EXCEPT ![Dispatcher] = e] /\ e \in Events /\ pc[Dispatcher] = "loop"
      /\ queue[dispatch_queue] # <<>> /\ dispatch_queue \in Queues
      /\ queue' = [queue EXCEPT ![dispatch_queue] = Tail(queue[dispatch_queue])]
  BY DispatchTakes, Threading
<1>2. /\ UNCHANGED <<policy, failed, ingress_stop, created, generated, accepted, completed,
                     dropped_ingress, dropped_dispatch>>
      /\ held[Dispatcher] = NoEvent
  BY <1>1 DEF TakeForDispatch, Carrying, config, counters
<1>3. Offered' = Offered /\ held'[Dispatcher] = e
  BY <1>1, HeldMoves, Threading
<1>4. CountAll(queue, MeasuredEvents) = CountAll(queue', MeasuredEvents) + o
      /\ CountAll(queue', MeasuredEvents) \in Nat
  BY <1>1, QueuesLose
<1>5. o \in {0, 1} /\ One(held[Dispatcher], MeasuredEvents) = 0
  BY <1>1, <1>2, Counted
<1>6. completed \in Nat /\ dropped_dispatch \in Nat
  BY DEF RunTypeOK
<1>7. Delivered' = completed + dropped_dispatch + CountAll(queue', MeasuredEvents) + o
      /\ Delivered = completed + dropped_dispatch + CountAll(queue, MeasuredEvents) + 0
  BY <1>2, <1>3, <1>5, Sums
<1> HIDE DEF e, o
<1>8. Delivered' = Delivered /\ Pushing' = Pushing
  <2>1. Delivered' = Delivered
    BY <1>4, <1>5, <1>6, <1>7
  <2> QED
    BY <1>3, <2>1, Sums
<1> QED
  BY <1>2, <1>8 DEF DeliveryBalanced, IngressBalanced

\* The dispatcher hands its event on; without an error no ring it pushes to is closed.
LEMMA BalancesDispatch ==
  ASSUME RunTypeOK, RunTypeOK', Carrying, Joined, Orderly, DeliveryBalanced, IngressBalanced, Dispatch
  PROVE  DeliveryBalanced' /\ IngressBalanced'
<1> DEFINE e == held[Dispatcher]
           q == e.target_worker
           o == One(e, MeasuredEvents)
<1>1. UNCHANGED <<policy, failed, ingress_stop, created, generated, accepted, completed,
                  dropped_ingress>>
  BY DEF Dispatch, config
<1>2. held' = [held EXCEPT ![Dispatcher] = NoEvent] /\ pc[Dispatcher] = "push" /\ e \in Events
  BY Threading DEF Dispatch, Accept, Refuse, Carrying
<1>3. q \in Queues /\ q \in Workers /\ Dispatcher \in Threads /\ Dispatcher \notin Ingress
  BY <1>2, Threading
<1>4. /\ Offered' = Offered /\ One(held'[Dispatcher], MeasuredEvents) = 0 /\ o \in {0, 1}
      /\ Pushing' = Pushing
  <2>1. Offered' = Offered /\ held'[Dispatcher] = NoEvent
    BY <1>2, <1>3, HeldMoves
  <2> QED
    BY <1>2, <2>1, Counted, Sums
<1>5. /\ completed \in Nat /\ dropped_dispatch \in Nat /\ accepted \in Nat
      /\ CountAll(queue, MeasuredEvents) \in Nat /\ policy \in {"Block", "Drop"}
  BY CountTypes DEF RunTypeOK
<1>6. /\ Delivered = completed + dropped_dispatch + CountAll(queue, MeasuredEvents) + o
      /\ Delivered' = completed + dropped_dispatch' + CountAll(queue', MeasuredEvents) + 0
  BY <1>1, <1>4, Sums
<1>7. CASE Accept(Dispatcher, q) /\ dropped_dispatch' = dropped_dispatch
  <2>1. CountAll(queue', MeasuredEvents) = CountAll(queue, MeasuredEvents) + o
    BY <1>2, <1>3, <1>7, AcceptEffect, QueuesGain
  <2> HIDE DEF e, o, q
  <2>2. Delivered' = Delivered
    BY <1>4, <1>5, <1>6, <1>7, <2>1
  <2> QED
    BY <1>1, <1>4, <1>7, <2>2 DEF DeliveryBalanced, IngressBalanced
<1>8. CASE /\ Refuse(Dispatcher, q, FALSE)
           /\ dropped_dispatch' = CountIf(policy = "Drop" /\ Measured(e), dropped_dispatch)
  <2>1. queue' = queue /\ (closed[q] \/ policy = "Drop")
    BY <1>3, <1>8, RefuseEffect
  <2>2. CASE policy = "Drop"
    <3>1. dropped_dispatch' = dropped_dispatch + o
      <4>1. dropped_dispatch' = CountIf(Measured(e), dropped_dispatch)
        BY <1>8, <2>2 DEF CountIf
      <4> QED
        BY <1>2, <1>5, <4>1, Counted
    <3> HIDE DEF e, o, q
    <3>2. Delivered' = Delivered
      BY <1>4, <1>5, <1>6, <2>1, <3>1
    <3> QED
      BY <1>1, <1>4, <2>2, <3>2 DEF DeliveryBalanced, IngressBalanced
  <2>3. CASE policy = "Block"
    <3>1. dropped_dispatch' = dropped_dispatch
      BY <1>8, <2>3 DEF CountIf
    <3>2. failed
      BY <1>2, <1>3, <2>1, <2>3, NoLatePush
    <3> HIDE DEF e, o, q
    <3>3. Delivered' <= Delivered
      BY <1>4, <1>5, <1>6, <2>1, <3>1
    <3>4. DeliveryBalanced'
      BY <1>1, <1>5, <2>3, <3>1, <3>2, <3>3, Sums DEF DeliveryBalanced
    <3>5. IngressBalanced'
      BY <1>1, <1>4, <3>2 DEF IngressBalanced
    <3> QED
      BY <3>4, <3>5
  <2> QED
    BY <1>5, <2>2, <2>3
<1> QED
  BY <1>7, <1>8 DEF Dispatch

\* A worker completes an event that was in its ring.
LEMMA BalancesComplete ==
  ASSUME RunTypeOK, RunTypeOK', Carrying, DeliveryBalanced, IngressBalanced,
         NEW w \in Workers, TakeEvent(w), failed => failed', ingress_stop => ingress_stop'
  PROVE  DeliveryBalanced' /\ IngressBalanced'
<1> DEFINE o == One(Head(queue[w]), MeasuredEvents)
<1>1. /\ queue[w] # <<>> /\ queue' = [queue EXCEPT ![w] = Tail(queue[w])] /\ w \in Queues
      /\ Head(queue[w]) \in Events /\ completed' = CountIf(Measured(Head(queue[w])), completed)
  BY TakeEffect
<1>2. UNCHANGED <<policy, held, created, generated, accepted, dropped_ingress, dropped_dispatch>>
  BY DEF TakeEvent, config
<1>3. completed \in Nat /\ dropped_dispatch \in Nat /\ One(held[Dispatcher], MeasuredEvents) \in {0, 1}
  BY CountTypes, Threading DEF RunTypeOK
<1>4. completed' = completed + o /\ o \in {0, 1}
  BY <1>1, <1>3, Counted
<1>5. CountAll(queue, MeasuredEvents) = CountAll(queue', MeasuredEvents) + o
      /\ CountAll(queue', MeasuredEvents) \in Nat
  BY <1>1, QueuesLose
<1>6. Offered' = Offered
  BY <1>2 DEF Offered
<1> HIDE DEF o
<1>7. Delivered' = completed + o + dropped_dispatch + CountAll(queue', MeasuredEvents)
                     + One(held[Dispatcher], MeasuredEvents)
  BY <1>2, <1>4, Sums
<1>8. Delivered' = Delivered /\ Pushing' = Pushing
  <2>1. Delivered' = Delivered
    BY <1>3, <1>4, <1>5, <1>7, Sums
  <2> QED
    BY <1>6, <2>1, Sums
<1> QED
  BY <1>2, <1>8 DEF DeliveryBalanced, IngressBalanced

\* So every step keeps the balances.
LEMMA BalancesStep ==
  ASSUME RunTypeOK, RunTypeOK', Carrying, Joined, Orderly, DeliveryBalanced, IngressBalanced,
         [Next]_vars
  PROVE  DeliveryBalanced' /\ IngressBalanced'
<1>a. (failed => failed') /\ (ingress_stop => ingress_stop')
  BY Latches
<1>1. ASSUME NEW w \in Workers, Complete(w) \/ WorkerThrows(w)
      PROVE  DeliveryBalanced' /\ IngressBalanced'
  BY <1>a, <1>1, BalancesComplete DEF Complete, WorkerThrows
<1>2. CASE UNCHANGED <<policy, queue, held, created, counters>>
  BY <1>a, <1>2, BalancesQuiet
<1>3. ASSUME NEW t, NEW q, CloseNext(t) \/ FindEmpty(t, q) \/ TryAgain(t, q)
      PROVE  UNCHANGED <<policy, queue, held, created, counters>>
  BY <1>3 DEF CloseNext, FindEmpty, TryAgain, config, queues
<1>4. ASSUME NEW i \in Ingress, Generate(i) \/ IngressStep(i) \/ IngressThrows(i) \/ Wakeup(i)
      PROVE  DeliveryBalanced' /\ IngressBalanced'
  <2>1. CASE Generate(i)
    BY <2>1, BalancesGenerate
  <2>2. CASE IngressPush(i)
    BY <2>2, BalancesIngressPush
  <2>3. CASE LeaveIngress(i) \/ IngressThrows(i)
    BY <1>2, <2>3 DEF LeaveIngress, IngressThrows, config, queues
  <2>4. CASE CloseNext(i)
    BY <1>2, <1>3, <2>4
  <2>5. CASE Park(i) \/ Wakeup(i)
    BY <1>2, <2>5, ParkEffect DEF counters
  <2> QED
    BY <1>4, <2>1, <2>2, <2>3, <2>4, <2>5 DEF IngressStep
<1>5. CASE DispatcherStep \/ DispatcherThrows
  <2>1. CASE TakeForDispatch
    BY <2>1, BalancesTake
  <2>2. CASE Dispatch
    BY <2>2, BalancesDispatch
  <2>3. CASE EndDispatch \/ DispatcherThrows
    BY <1>2, <2>3 DEF EndDispatch, DispatcherThrows, config, queues
  <2>4. CASE \/ FindEmpty(Dispatcher, dispatch_queue) \/ TryAgain(Dispatcher, dispatch_queue)
             \/ CloseNext(Dispatcher)
    BY <1>2, <1>3, <2>4
  <2> QED
    BY <1>5, <2>1, <2>2, <2>3, <2>4 DEF DispatcherStep
<1>6. ASSUME NEW w \in Workers, WorkerStep(w) PROVE DeliveryBalanced' /\ IngressBalanced'
  <2>1. CASE LeaveWorker(w)
    BY <1>2, <2>1 DEF LeaveWorker, config, queues
  <2>2. CASE FindEmpty(w, w) \/ TryAgain(w, w) \/ CloseNext(w)
    BY <1>2, <1>3, <2>2
  <2> QED
    BY <1>1, <1>6, <2>1, <2>2 DEF WorkerStep
<1>7. CASE MainStep \/ Expire \/ Done \/ UNCHANGED vars
  <2>1. UNCHANGED <<policy, queue, held, created, counters>>
    BY <1>7 DEF MainStep, Expire, Done, vars, config, queues
  <2> QED
    BY <1>2, <2>1
<1> QED
  BY <1>1, <1>4, <1>5, <1>6, <1>7 DEF Next

-----------------------------------------------------------------------------
(* The invariant                                                           *)

\* A run starts with nothing counted and nobody holding an event.
LEMMA InvInit == Init => IInv
<1> SUFFICES ASSUME Init PROVE IInv
  OBVIOUS
<1>1. RunTypeOK
  <2>1. queue \in [Queues -> Seq(Events)] /\ to_close \in [Threads -> Remainders]
    BY RestOf DEF Init
  <2>2. \A t \in Threads : pc[t] = "close" <=> to_close[t] # <<>>
    BY DEF Init
  <2>3. created \in 0 .. MaxEvents
    BY DEF Init
  <2> QED
    BY <2>1, <2>2, <2>3 DEF Init, RunTypeOK
<1>2. Carrying /\ ClosesRings /\ Joined /\ Orderly
  BY Threading DEF Init, Carrying, ClosesRings, Joined, Orderly
<1>3. CountAll(queue, MeasuredEvents) = 0
  BY CountAllNone DEF Init
<1>4. Count(Offered, MeasuredEvents) = 0
  <2>1. \A i \in DOMAIN Offered : Offered[i] \notin MeasuredEvents
    BY Threading, Counted DEF Init, Offered, MeasuredEvents
  <2> QED
    BY <2>1, CountNone
<1>5. One(held[Dispatcher], MeasuredEvents) = 0
  BY Threading, Counted DEF Init
<1>6. Cardinality(Ingress) \in Nat
  BY <1>1, CountTypes
<1>7. DeliveryBalanced /\ IngressBalanced
  BY <1>3, <1>4, <1>5, <1>6 DEF Init, DeliveryBalanced, IngressBalanced, Delivered, Pushing
<1> QED
  BY <1>1, <1>2, <1>7 DEF IInv

\* Every step keeps it.
LEMMA InvStep == IInv /\ [Next]_vars => IInv'
<1> SUFFICES ASSUME IInv, [Next]_vars PROVE IInv'
  OBVIOUS
<1>1. RunTypeOK /\ Carrying /\ ClosesRings /\ Joined /\ Orderly /\ DeliveryBalanced /\ IngressBalanced
  BY DEF IInv
<1>2. RunTypeOK' /\ Carrying' /\ ClosesRings' /\ Joined' /\ Orderly'
  BY <1>1, TypeStep, CarryingStep, ClosesRingsStep, JoinedStep, OrderlyStep
<1>3. DeliveryBalanced' /\ IngressBalanced'
  BY <1>1, <1>2, BalancesStep
<1> QED
  BY <1>2, <1>3 DEF IInv

\* The balances, the order in which the queues are closed and what the threads
\* hold are kept by every run.
THEOREM DispatchInvariance == Spec => []IInv
BY InvInit, InvStep, PTL DEF Spec

-----------------------------------------------------------------------------
(* The properties                                                          *)

\* The counters never count more than was created: no event counts twice.
LEMMA InvType == IInv => TypeOK
<1> SUFFICES ASSUME IInv PROVE TypeOK
  OBVIOUS
<1>1. RunTypeOK /\ DeliveryBalanced /\ IngressBalanced
  BY DEF IInv
<1>2. /\ created \in 0 .. MaxEvents /\ generated \in Nat /\ accepted \in Nat /\ completed \in Nat
      /\ dropped_ingress \in Nat /\ dropped_dispatch \in Nat
  BY <1>1 DEF RunTypeOK
<1>3. /\ CountAll(queue, MeasuredEvents) \in Nat /\ Count(Offered, MeasuredEvents) \in Nat
      /\ One(held[Dispatcher], MeasuredEvents) \in {0, 1}
  <2>1. Count(Offered, MeasuredEvents) \in 0 .. Cardinality(Ingress) /\ Cardinality(Ingress) \in Nat
    BY <1>1, CountTypes
  <2> QED
    BY <1>1, <2>1, CountTypes, Threading
<1>4. completed + dropped_dispatch <= accepted /\ accepted + dropped_ingress <= generated
      /\ generated <= created
  BY <1>1, <1>2, <1>3 DEF DeliveryBalanced, IngressBalanced, Delivered, Pushing
<1>5. \A n \in {generated, accepted, completed, dropped_ingress, dropped_dispatch} : n \in 0 .. created
  BY <1>2, <1>4
<1> QED
  BY <1>1, <1>5 DEF RunTypeOK, TypeOK

\* The run's state has its type, and each counter is at most what was created
\* (runDispatchLocalSpscPipeline's counters, pipeline.cpp).
THEOREM DispatchTypeCorrect == Spec => []TypeOK
BY DispatchInvariance, InvType, PTL

\* What is left in the queues is what the balance counts there.
LEMMA LeftCounted == RunTypeOK => Left = CountAll(queue, MeasuredEvents)
<1> SUFFICES ASSUME RunTypeOK PROVE Left = CountAll(queue, MeasuredEvents)
  OBVIOUS
<1>1. ASSUME NEW q \in Queues PROVE MeasuredIn(q) = At(queue[q], MeasuredEvents)
  <2>1. queue[q] \in Seq(Events)
    BY DEF RunTypeOK
  <2>2. \A i \in DOMAIN queue[q] : queue[q][i] \in Events
    BY <2>1
  <2> QED
    BY <2>2 DEF MeasuredIn, At, MeasuredEvents
<1>2. DOMAIN queue = Queues
  BY DEF RunTypeOK
<1>3. UNION {{q} \X MeasuredIn(q) : q \in Queues} = AllAt(queue, MeasuredEvents)
  BY <1>1, <1>2 DEF AllAt
<1> QED
  BY <1>3 DEF Left, CountAll

\* When main has joined everybody, nobody holds an event.
LEMMA InvAccounted == IInv => EventsAccounted
<1> SUFFICES ASSUME IInv, main = "done", ~failed
             PROVE  /\ accepted = completed + dropped_dispatch + Left
                    /\ global_lock => queue[dispatch_queue] = <<>>
                    /\ policy = "Drop" => generated = accepted + dropped_ingress
                    /\ policy = "Block" =>
                         /\ dropped_ingress = 0 /\ dropped_dispatch = 0
                         /\ generated <= accepted + Cardinality(Ingress)
  BY DEF EventsAccounted
<1>1. RunTypeOK /\ Carrying /\ Joined /\ Orderly /\ DeliveryBalanced /\ IngressBalanced
  BY DEF IInv
<1>2. pc[Dispatcher] = "exited" /\ \A i \in Ingress : pc[i] = "exited"
  BY <1>1 DEF Joined, Exited
<1>3. held[Dispatcher] = NoEvent /\ \A i \in Ingress : held[i] = NoEvent
  BY <1>1, <1>2 DEF Carrying
<1>4. One(held[Dispatcher], MeasuredEvents) = 0
  BY <1>3, Counted
<1>5. Count(Offered, MeasuredEvents) = 0
  <2>1. \A i \in DOMAIN Offered : Offered[i] \notin MeasuredEvents
    BY <1>3, Counted DEF Offered, MeasuredEvents
  <2> QED
    BY <2>1, CountNone
<1>6. Left = CountAll(queue, MeasuredEvents) /\ Left \in Nat
  BY <1>1, LeftCounted, CountTypes
<1>7. /\ generated \in Nat /\ accepted \in Nat /\ completed \in Nat
      /\ dropped_ingress \in Nat /\ dropped_dispatch \in Nat
  BY <1>1 DEF RunTypeOK
<1>8. accepted = completed + dropped_dispatch + Left
  BY <1>1, <1>4, <1>6, <1>7 DEF DeliveryBalanced, Delivered
<1>9. global_lock => queue[dispatch_queue] = <<>>
  BY <1>1, <1>2 DEF Orderly
<1>10. policy = "Drop" => generated = accepted + dropped_ingress
  BY <1>1, <1>5, <1>7 DEF IngressBalanced, Pushing
<1> QED
  BY <1>1, <1>8, <1>9, <1>10 DEF DeliveryBalanced, IngressBalanced

\* Every event of a run without an error is accounted for when main has joined the
\* threads (runDispatchLocalSpscPipeline, pipeline.cpp).
THEOREM DispatchAccounted == Spec => []EventsAccounted
BY DispatchInvariance, InvAccounted, PTL
=============================================================================
