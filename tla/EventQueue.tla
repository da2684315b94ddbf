------------------------------ MODULE EventQueue ------------------------------
(***************************************************************************)
(* What IEventQueue (queues.hpp) promises its callers, whatever the class  *)
(* behind it: a FIFO of events between producer and consumer threads.      *)
(*                                                                         *)
(* A push inserts its event exactly once and answers true, or leaves the   *)
(* queue alone and answers false; it may refuse only when the queue is     *)
(* closed, its caller's stop flag is set, or its policy is Drop and the    *)
(* queue is bounded.  A pop hands out the oldest event and answers true,   *)
(* or answers false, which needs the queue closed or the consumers' stop   *)
(* flag set.  The four queue modules are each shown to implement Spec.     *)
(***************************************************************************)
EXTENDS Naturals, Sequences

CONSTANTS
  Producers,   \* threads that call push
  Consumers,   \* threads that call pop
  Events,      \* identities of events (Event::id)
  NoEvent      \* a value that is no event

VARIABLES
  capacity,    \* capacity_ of the queue; 0 means unbounded
  queue,       \* accepted events that no pop has taken yet, oldest first
  push,        \* each producer's call: "idle", its policy, "accepted", "refused"
  arg,         \* the event each producer offers
  pop,         \* each consumer's call: "idle", "calling", "delivered", "refused"
  out,         \* the event each consumer's pop hands out
  closed,      \* close() has been called
  stop         \* the stop flag producers pass to push, and consumers to pop

eqvars == <<capacity, queue, push, arg, pop, out, closed, stop>>

Policies == {"Block", "Drop"}
Flags    == {"push", "pop"}

HasRoom == capacity = 0 \/ Len(queue) < capacity

Init ==
  /\ capacity \in Nat
  /\ queue  = <<>>
  /\ push   = [p \in Producers |-> "idle"]
  /\ arg    = [p \in Producers |-> NoEvent]
  /\ pop    = [c \in Consumers |-> "idle"]
  /\ out    = [c \in Consumers |-> NoEvent]
  /\ closed = FALSE
  /\ stop   = [f \in Flags |-> FALSE]

PushCall(p) ==
  /\ push[p] = "idle"
  /\ \E policy \in Policies : push' = [push EXCEPT ![p] = policy]
  /\ \E e \in Events : arg' = [arg EXCEPT ![p] = e]
  /\ UNCHANGED <<capacity, queue, pop, out, closed, stop>>

PushAccept(p) ==
  /\ push[p] \in Policies
  /\ HasRoom
  /\ queue' = Append(queue, arg[p])
  /\ push' = [push EXCEPT ![p] = "accepted"]
  /\ UNCHANGED <<capacity, arg, pop, out, closed, stop>>

PushRefuse(p) ==
  /\ push[p] \in Policies
  /\ closed \/ stop["push"] \/ (push[p] = "Drop" /\ capacity # 0)
  /\ push' = [push EXCEPT ![p] = "refused"]
  /\ UNCHANGED <<capacity, queue, arg, pop, out, closed, stop>>

PushReturn(p) ==
  /\ push[p] \in {"accepted", "refused"}
  /\ push' = [push EXCEPT ![p] = "idle"]
  /\ arg' = [arg EXCEPT ![p] = NoEvent]
  /\ UNCHANGED <<capacity, queue, pop, out, closed, stop>>

PopCall(c) ==
  /\ pop[c] = "idle"
  /\ pop' = [pop EXCEPT ![c] = "calling"]
  /\ UNCHANGED <<capacity, queue, push, arg, out, closed, stop>>

PopDeliver(c) ==
  /\ pop[c] = "calling"
  /\ queue # <<>>
  /\ out' = [out EXCEPT ![c] = Head(queue)]
  /\ queue' = Tail(queue)
  /\ pop' = [pop EXCEPT ![c] = "delivered"]
  /\ UNCHANGED <<capacity, push, arg, closed, stop>>

PopRefuse(c) ==
  /\ pop[c] = "calling"
  /\ closed \/ stop["pop"]
  /\ pop' = [pop EXCEPT ![c] = "refused"]
  /\ UNCHANGED <<capacity, queue, push, arg, out, closed, stop>>

\* Every caller loops "while (pop(...))": a consumer refused once never calls again.
PopReturn(c) ==
  /\ pop[c] = "delivered"
  /\ pop' = [pop EXCEPT ![c] = "idle"]
  /\ out' = [out EXCEPT ![c] = NoEvent]
  /\ UNCHANGED <<capacity, queue, push, arg, closed, stop>>

Close ==
  /\ closed' = TRUE
  /\ UNCHANGED <<capacity, queue, push, arg, pop, out, stop>>

Stop ==
  /\ \E F \in SUBSET Flags : stop' = [f \in Flags |-> stop[f] \/ f \in F]
  /\ UNCHANGED <<capacity, queue, push, arg, pop, out, closed>>

Next ==
  \/ \E p \in Producers :
       PushCall(p) \/ PushAccept(p) \/ PushRefuse(p) \/ PushReturn(p)
  \/ \E c \in Consumers :
       PopCall(c) \/ PopDeliver(c) \/ PopRefuse(c) \/ PopReturn(c)
  \/ Close
  \/ Stop

Spec == Init /\ [][Next]_eqvars
=============================================================================
