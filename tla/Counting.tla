------------------------------- MODULE Counting -------------------------------
(***************************************************************************)
(* How many values of a function lie in a set: the threads at given places *)
(* of their programs, when pc maps each thread to its place, and the       *)
(* events of a kind in a queue, a sequence being a function too.           *)
(***************************************************************************)
EXTENDS Naturals, FiniteSets

At(pc, S)    == {t \in DOMAIN pc : pc[t] \in S}
Count(pc, S) == Cardinality(At(pc, S))

\* What one thread at a place adds to the count.
One(at, S)   == IF at \in S THEN 1 ELSE 0

\* The places in a family of sequences whose values lie in S, and their number.
AllAt(f, S)    == UNION {{x} \X At(f[x], S) : x \in DOMAIN f}
CountAll(f, S) == Cardinality(AllAt(f, S))
Besides(f, S, x) == {t \in AllAt(f, S) : t[1] # x}

\* Finitely many of them, with finitely many values in S each.
Sized(f, S) == IsFiniteSet(DOMAIN f) /\ \A x \in DOMAIN f : IsFiniteSet(At(f[x], S))
=============================================================================
