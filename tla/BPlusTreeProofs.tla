-------------------------- MODULE BPlusTreeProofs --------------------------
(***************************************************************************)
(* What holds of the B+ tree index file for every set of block sizes that  *)
(* nodes fill, every set of entries with keys of their own, and every      *)
(* order of commands and inserts.  The tree is described from above, by    *)
(* the block on each level on the way down for each integer (Paths), and   *)
(* not by walking down: what a split changes is then said level by level,  *)
(* and nothing is defined by recursion.  What the code walks (the chain of *)
(* the leaves, the children of a level) runs through a level in its order, *)
(* and there is one way to run through a set (OneRun).                     *)
(***************************************************************************)
EXTENDS BPlusTree, FiniteSetTheorems, FunctionTheorems, WellFoundedInduction, TLAPS

-----------------------------------------------------------------------------
(* Nodes, and the way down from one                                        *)

\* Entries, and nodes as readInternal returns them.
EntryType == [key : Int, value : Int]
NodeType == [firstChild : Int, separators : Seq(EntryType)]

\* The least of a set of numbers is in it.
LEMMA LeastNumber ==
  ASSUME NEW S, S \subseteq Nat, S # {}
  PROVE  Min(S) \in S /\ \A n \in S : Min(S) <= n
<1>1. PICK m \in S : \A n \in S : ~ (<<n, m>> \in OpToRel(<, Nat))
  BY WFMin, NatLessThanWellFounded, Zenon
<1>2. ASSUME NEW n \in S
      PROVE  m <= n
  <2>1. n \in Nat /\ m \in Nat
    OBVIOUS
  <2>2. n < m => <<n, m>> \in OpToRel(<, Nat)
    BY <2>1 DEF OpToRel
  <2>3. ~ (n < m)
    BY <1>1, <2>2, Zenon
  <2> QED
    BY <2>1, <2>3
<1> QED
  BY <1>2 DEF Min

\* m separators are not above k, and the others are.
At(s, k, m) ==
  /\ m \in 0 .. Len(s)
  /\ \A i \in 1 .. m : s[i].key <= k
  /\ \A i \in m + 1 .. Len(s) : s[i].key > k

\* The children of a node, from left to right.
Kid(node, m) == IF m = 0 THEN node.firstChild ELSE node.separators[m].value

\* In key order, no key twice.
Ascending(s) == \A i, j \in 1 .. Len(s) : i < j => s[i].key < s[j].key

\* getPath: the way down for a key goes right of the separators that are
\* not above it.
LEMMA ChildAt ==
  ASSUME NEW node \in NodeType, NEW k \in Int, NEW m, At(node.separators, k, m)
  PROVE  child(node, k) = Kid(node, m)
<1> DEFINE s == node.separators
          I == {i \in 1 .. Len(s) : s[i].key > k}
          above == SelectInSeq(s, LAMBDA e : e.key > k)
          last  == IF above = 0 THEN Len(s) ELSE above - 1
<1>1. s \in Seq(EntryType) /\ Len(s) \in Nat
  BY DEF NodeType
<1>2. above = IF I # {} THEN Min(I) ELSE 0
  BY DEF SelectInSeq
<1>3. child(node, k) = Kid(node, last)
  BY DEF child, Kid
<1>4. At(s, k, m)
  OBVIOUS
<1> HIDE DEF s, above
<1>5. \A i \in 1 .. Len(s) : s[i].key \in Int
  <2>1. \A i \in 1 .. Len(s) : s[i] \in EntryType
    BY <1>1
  <2> QED
    BY <2>1 DEF EntryType
<1>6. I # {} => Min(I) \in I /\ \A i \in I : Min(I) <= i
  <2>1. I \subseteq Nat
    BY <1>1
  <2> HIDE DEF I
  <2> QED
    BY LeastNumber, <2>1, Zenon
<1>7. above \in 0 .. Len(s)
  BY <1>1, <1>2, <1>6
<1>8. last = m
  <2>1. CASE m = Len(s)
    <3>1. I = {}
      BY <2>1, <1>1, <1>4, <1>5 DEF At
    <3> QED
      BY <2>1, <3>1, <1>2
  <2>2. CASE m < Len(s)
    <3>1. m + 1 \in I /\ m \in Nat
      BY <2>2, <1>1, <1>4 DEF At
    <3>2. \A i \in I : i >= m + 1
      BY <1>1, <1>5, <1>4 DEF At
    <3> QED
      BY <3>1, <3>2, <1>1, <1>2, <1>6
  <2> QED
    BY <2>1, <2>2, <1>1, <1>4 DEF At
<1> QED
  BY <1>3, <1>8

\* getPath: what satisfies its recursion is the path.
LEMMA PathIs ==
  ASSUME NEW t, NEW key, NEW p, t.depth \in Nat,
         p = [level \in 0 .. t.depth |->
                IF level = 0 THEN t.rootBID ELSE child(readInternal(t, p[level - 1]), key)]
  PROVE  getPath(t, key) = p
<1> DEFINE D == 0 .. t.depth
           R(f) == [level \in D |->
                     IF level = 0 THEN t.rootBID ELSE child(readInternal(t, f[level - 1]), key)]
           g == CHOOSE f : f = R(f)
           T == {level \in D : g[level] # p[level]}
<1>1. getPath(t, key) = g
  BY DEF getPath
<1>2. g = R(g)
  <2>1. p = R(p)
    OBVIOUS
  <2> HIDE DEF R
  <2> QED
    BY <2>1
<1> HIDE DEF g
<1>3. T = {}
  <2>1. SUFFICES ASSUME T # {} PROVE FALSE
    OBVIOUS
  <2>2. T \subseteq Nat /\ T \subseteq D
    OBVIOUS
  <2>3. PICK l \in T : \A n \in T : l <= n
    <3> HIDE DEF T
    <3> QED
      BY <2>1, <2>2, LeastNumber, Zenon
  <2>4. l # 0
    BY <1>2
  <2>5. l - 1 \in D /\ l - 1 \notin T
    <3>1. l \in D /\ l \in Nat
      BY <2>2
    <3>2. l - 1 \in D /\ ~ (l <= l - 1)
      BY <3>1, <2>4
    <3> QED
      BY <3>2, <2>3, Zenon
  <2>6. g[l - 1] = p[l - 1]
    BY <2>5
  <2>7. g[l] = child(readInternal(t, g[l - 1]), key)
    BY <1>2, <2>2, <2>4
  <2>8. p[l] = child(readInternal(t, p[l - 1]), key)
    BY <2>2, <2>4
  <2> QED
    BY <2>6, <2>7, <2>8
<1>4. \A level \in D : g[level] = p[level]
  BY <1>3
<1>5. g = [level \in D |-> g[level]]
  BY <1>2
<1>6. p = [level \in D |-> p[level]]
  OBVIOUS
<1> QED
  BY <1>1, <1>4, <1>5, <1>6

-----------------------------------------------------------------------------
(* Entries in key order                                                    *)

\* 1 .. n has n members.
LEMMA FirstNumbers ==
  ASSUME NEW n \in Nat
  PROVE  IsFiniteSet(1 .. n) /\ Cardinality(1 .. n) = n
<1>1. IsFiniteSet(1 .. n) /\ Cardinality(1 .. n) = IF 1 > n THEN 0 ELSE n - 1 + 1
  BY FS_Interval
<1> QED
  BY <1>1

\* s with e after its first m entries.
Inserting(s, e, m) ==
  [i \in 1 .. Len(s) + 1 |-> IF i <= m THEN s[i] ELSE IF i = m + 1 THEN e ELSE s[i - 1]]

\* sortEntries: an entry appended to entries in key order moves to its place among them.
LEMMA SortedInsert ==
  ASSUME NEW s \in Seq(EntryType), NEW e \in EntryType, NEW m \in 0 .. Len(s),
         Ascending(s), \A i \in 1 .. m : s[i].key < e.key,
         \A i \in m + 1 .. Len(s) : e.key < s[i].key
  PROVE  sortEntries(Append(s, e)) = Inserting(s, e, m)
<1> DEFINE a == Append(s, e)
           n == Len(s)
           Key(i) == IF i = n + 1 THEN e.key ELSE s[i].key
           Below(i) == {j \in DOMAIN a : before(a, j, i)}
           Place(r) == IF r <= m THEN r ELSE IF r = m + 1 THEN n + 1 ELSE r - 1
<1>1. n \in Nat /\ m \in Nat /\ m <= n
  OBVIOUS
<1>2. DOMAIN a = 1 .. n + 1 /\ \A i \in 1 .. n + 1 : a[i] = IF i = n + 1 THEN e ELSE s[i]
  OBVIOUS
<1>3. \A i \in 1 .. n : s[i].key \in Int
  <2>1. \A i \in 1 .. n : s[i] \in EntryType
    OBVIOUS
  <2> QED
    BY <2>1 DEF EntryType
<1>4. \A i \in 1 .. n + 1 : a[i].key = Key(i) /\ Key(i) \in Int
  BY <1>1, <1>2, <1>3 DEF EntryType
<1>20. \A i, j \in 1 .. n : i < j => Key(i) < Key(j)
  BY <1>1 DEF Ascending
<1>21. \A i \in 1 .. m : Key(i) < Key(n + 1)
  BY <1>1
<1>22. \A i \in m + 1 .. n : Key(n + 1) < Key(i)
  BY <1>1
<1>5. \A i, j \in 1 .. n + 1 : i # j => Key(i) # Key(j)
  <2> HIDE DEF Key
  <2>1. \A i \in 1 .. n : Key(i) # Key(n + 1)
    BY <1>1, <1>4, <1>21, <1>22
  <2>2. \A i, j \in 1 .. n : i # j => Key(i) # Key(j)
    BY <1>1, <1>4, <1>20
  <2> QED
    BY <1>1, <2>1, <2>2
<1>6. \A i, j \in 1 .. n + 1 : before(a, i, j) <=> Key(i) < Key(j)
  <2>1. SUFFICES ASSUME NEW i \in 1 .. n + 1, NEW j \in 1 .. n + 1
                 PROVE  before(a, i, j) <=> Key(i) < Key(j)
    OBVIOUS
  <2>2. a[i].key = Key(i) /\ a[j].key = Key(j) /\ Key(i) \in Int /\ Key(j) \in Int
    BY <1>4
  <2>3. Key(i) = Key(j) => i = j
    BY <1>5
  <2>4. a[i] = a[j] => Key(i) = Key(j)
    BY <2>2
  <2>5. i = j => ~ (a[i].value < a[j].value)
    <3>1. a[i] \in EntryType
      BY <1>2, <1>1
    <3> QED
      BY <3>1 DEF EntryType
  <2> HIDE DEF a, Key
  <2> QED
    BY <2>2, <2>3, <2>4, <2>5 DEF before
<1>7. \A i \in 1 .. m : Below(i) = 1 .. i - 1
  <2>1. SUFFICES ASSUME NEW i \in 1 .. m, NEW j \in 1 .. n + 1
                 PROVE  Key(j) < Key(i) <=> j < i
    BY <1>1, <1>2, <1>6
  <2>2. i \in 1 .. n /\ i \in 1 .. n + 1 /\ Key(i) \in Int /\ Key(j) \in Int
    BY <1>1, <1>4
  <2>3. Key(i) < Key(n + 1)
    BY <1>21
  <2> HIDE DEF Key
  <2>4. CASE j \in 1 .. n
    BY <2>2, <2>4, <1>1, <1>20
  <2>5. CASE j = n + 1
    BY <2>2, <2>3, <2>5, <1>1
  <2> QED
    BY <1>1, <2>4, <2>5
<1>8. \A i \in m + 1 .. n : Below(i) = (1 .. i - 1) \cup {n + 1}
  <2>1. SUFFICES ASSUME NEW i \in m + 1 .. n, NEW j \in 1 .. n + 1
                 PROVE  Key(j) < Key(i) <=> j < i \/ j = n + 1
    BY <1>1, <1>2, <1>6
  <2> HIDE DEF Key
  <2> QED
    BY <1>1, <1>4, <1>20, <1>21, <1>22
<1>9. Below(n + 1) = 1 .. m
  <2>1. SUFFICES ASSUME NEW j \in 1 .. n + 1
                 PROVE  Key(j) < Key(n + 1) <=> j <= m
    BY <1>1, <1>2, <1>6
  <2> HIDE DEF Key
  <2> QED
    BY <1>1, <1>4, <1>20, <1>21, <1>22
<1>23. DOMAIN a = 1 .. n + 1
  BY <1>2
<1> HIDE DEF Below, Key, a
<1>10. \A i \in 1 .. m : Cardinality(Below(i)) = i - 1
  <2>1. \A i \in 1 .. m : Cardinality(1 .. i - 1) = i - 1
    BY <1>1, FirstNumbers
  <2> QED
    BY <1>7, <2>1
<1>11. \A i \in m + 1 .. n : Cardinality(Below(i)) = i
  <2>1. SUFFICES ASSUME NEW i \in m + 1 .. n
                 PROVE  Cardinality((1 .. i - 1) \cup {n + 1}) = i
    BY <1>8
  <2>2. IsFiniteSet(1 .. i - 1) /\ Cardinality(1 .. i - 1) = i - 1
    BY <1>1, FirstNumbers
  <2>3. n + 1 \notin 1 .. i - 1
    BY <1>1
  <2>4. Cardinality((1 .. i - 1) \cup {n + 1}) = (i - 1) + 1
    BY <2>2, <2>3, FS_AddElement, Zenon
  <2> QED
    BY <2>4, <1>1
<1>12. Cardinality(Below(n + 1)) = m
  BY <1>1, <1>9, FirstNumbers
<1>13. ASSUME NEW r \in 1 .. n + 1
       PROVE  (CHOOSE i \in DOMAIN a : Cardinality(Below(i)) = r - 1) = Place(r)
  <2>1. Place(r) \in DOMAIN a /\ Cardinality(Below(Place(r))) = r - 1
    BY <1>1, <1>2, <1>10, <1>11, <1>12
  <2>2. ASSUME NEW i \in DOMAIN a, Cardinality(Below(i)) = r - 1
        PROVE  i = Place(r)
    <3>1. i \in 1 .. m \/ i \in m + 1 .. n \/ i = n + 1
      BY <1>1, <1>23
    <3>2. CASE i \in 1 .. m
      <4>1. i - 1 = r - 1
        BY <1>10, <2>2, <3>2
      <4> QED
        BY <1>1, <3>2, <4>1
    <3>3. CASE i \in m + 1 .. n
      <4>1. i = r - 1
        BY <1>11, <2>2, <3>3
      <4> QED
        BY <1>1, <3>3, <4>1
    <3>4. CASE i = n + 1
      <4>1. m = r - 1
        BY <1>12, <2>2, <3>4
      <4> QED
        BY <1>1, <3>4, <4>1
    <3> QED
      BY <3>1, <3>2, <3>3, <3>4
  <2> HIDE DEF Place
  <2> QED
    BY <2>1, <2>2
<1>14. sortEntries(a) = [r \in DOMAIN a |->
           a[CHOOSE i \in DOMAIN a : Cardinality(Below(i)) = r - 1]]
  BY Zenon DEF sortEntries, Below
<1>15. sortEntries(a) = [r \in 1 .. n + 1 |-> a[Place(r)]]
  <2>1. \A r \in DOMAIN a : (CHOOSE i \in DOMAIN a : Cardinality(Below(i)) = r - 1) = Place(r)
    BY <1>13, <1>23
  <2> HIDE DEF Place
  <2>2. sortEntries(a) = [r \in DOMAIN a |-> a[Place(r)]]
    BY <1>14, <2>1
  <2> QED
    BY <2>2, <1>23
<1>16. \A r \in 1 .. n + 1 : a[Place(r)] = Inserting(s, e, m)[r]
  BY <1>1, <1>2 DEF Inserting
<1> QED
  BY <1>15, <1>16 DEF a, Inserting

\* r has the entries of s and e, in key order.
HasInserted(s, e, r) ==
  /\ r \in Seq(EntryType) /\ Len(r) = Len(s) + 1 /\ Ascending(r)
  /\ \A i \in 1 .. Len(s) : \E j \in 1 .. Len(s) + 1 : r[j] = s[i]
  /\ \E j \in 1 .. Len(s) + 1 : r[j] = e
  /\ \A j \in 1 .. Len(s) + 1 : r[j] = e \/ \E i \in 1 .. Len(s) : r[j] = s[i]

\* An entry at its place leaves the others and the order of the keys.
LEMMA InsertingFacts ==
  ASSUME NEW s \in Seq(EntryType), NEW e \in EntryType, NEW m \in 0 .. Len(s),
         Ascending(s), \A i \in 1 .. m : s[i].key < e.key,
         \A i \in m + 1 .. Len(s) : e.key < s[i].key
  PROVE  HasInserted(s, e, Inserting(s, e, m))
<1> DEFINE n == Len(s)
           r == Inserting(s, e, m)
<1>1. n \in Nat /\ m \in Nat /\ m <= n
  OBVIOUS
<1>2. \A i \in 1 .. n : s[i] \in EntryType /\ s[i].key \in Int
  <2>1. \A i \in 1 .. n : s[i] \in EntryType
    OBVIOUS
  <2> QED
    BY <2>1 DEF EntryType
<1>3. r = [i \in 1 .. n + 1 |-> IF i <= m THEN s[i] ELSE IF i = m + 1 THEN e ELSE s[i - 1]]
  BY DEF Inserting
<1>4. \A i \in 1 .. n + 1 : r[i] = IF i <= m THEN s[i] ELSE IF i = m + 1 THEN e ELSE s[i - 1]
  BY <1>3
<1>5. \A i \in 1 .. n + 1 : r[i] \in EntryType
  BY <1>1, <1>2, <1>4
<1> HIDE DEF r
<1>6. r \in Seq(EntryType) /\ Len(r) = n + 1
  BY <1>1, <1>3, <1>5
<1>7. Ascending(r)
  <2>1. SUFFICES ASSUME NEW i \in 1 .. n + 1, NEW j \in 1 .. n + 1, i < j
                 PROVE  r[i].key < r[j].key
    BY <1>6 DEF Ascending
  <2>2. e.key \in Int
    BY DEF EntryType
  <2>3. \A p, q \in 1 .. n : p < q => s[p].key < s[q].key
    BY DEF Ascending
  <2>4. CASE i <= m
    <3>1. r[i] = s[i] /\ i \in 1 .. n
      BY <1>1, <1>4, <2>4
    <3>2. CASE j <= m
      <4>1. r[j] = s[j] /\ j \in 1 .. n
        BY <1>1, <1>4, <3>2
      <4> QED
        BY <2>1, <2>3, <3>1, <4>1
    <3>3. CASE j = m + 1
      <4>1. r[j] = e /\ i \in 1 .. m
        BY <1>1, <1>4, <2>4, <3>3
      <4> QED
        BY <3>1, <4>1
    <3>4. CASE j > m + 1
      <4>1. r[j] = s[j - 1] /\ j - 1 \in 1 .. n /\ i < j - 1
        BY <1>1, <1>4, <2>4, <3>4
      <4> QED
        BY <2>3, <3>1, <4>1
    <3> QED
      BY <1>1, <3>2, <3>3, <3>4
  <2>5. CASE i = m + 1
    <3>1. r[i] = e /\ r[j] = s[j - 1] /\ j - 1 \in m + 1 .. n
      BY <1>1, <1>4, <2>1, <2>5
    <3> QED
      BY <3>1
  <2>6. CASE i > m + 1
    <3>1. r[i] = s[i - 1] /\ r[j] = s[j - 1] /\ i - 1 \in 1 .. n /\ j - 1 \in 1 .. n
      BY <1>1, <1>4, <2>1, <2>6
    <3> QED
      BY <3>1, <2>1, <2>3
  <2> QED
    BY <1>1, <2>4, <2>5, <2>6
<1>8. \A i \in 1 .. n : r[IF i <= m THEN i ELSE i + 1] = s[i]
                         /\ (IF i <= m THEN i ELSE i + 1) \in 1 .. n + 1
  BY <1>1, <1>4
<1>9. r[m + 1] = e /\ m + 1 \in 1 .. n + 1
  BY <1>1, <1>4
<1>10. \A j \in 1 .. n + 1 : j <= m => j \in 1 .. n /\ r[j] = s[j]
  BY <1>1, <1>4
<1>11. \A j \in 1 .. n + 1 : j > m + 1 => j - 1 \in 1 .. n /\ r[j] = s[j - 1]
  BY <1>1, <1>4
<1>12. \A j \in 1 .. n + 1 : j <= m \/ j = m + 1 \/ j > m + 1
  BY <1>1
<1> QED
  BY <1>6, <1>7, <1>8, <1>9, <1>10, <1>11, <1>12 DEF r, HasInserted

-----------------------------------------------------------------------------
(* Blocks: what is written is read                                         *)

\* The type of a tree that has room for entries.
TreeType ==
  [capacity : Nat \ {0}, rootBID : Int, depth : Nat, numOfNodes : Nat,
   blocks : Seq(Seq(Int)), promoted : EntryType]

\* The words of a block: a slot per entry, and zeros in the slots left over.
LEMMA WordsOf ==
  ASSUME NEW entries \in Seq(EntryType), NEW n \in Nat
  PROVE  /\ Words(entries, n) \in Seq(Int)
         /\ Len(Words(entries, n)) = 2 * n
         /\ \A i \in 1 .. n :
              Entry(Words(entries, n)[2 * i - 1], Words(entries, n)[2 * i]) =
                IF i > Len(entries) THEN Entry(0, 0) ELSE entries[i]
<1> DEFINE Word(w) == LET i == (w + 1) \div 2
                      IN  IF i > Len(entries) THEN 0
                          ELSE IF w % 2 = 1 THEN entries[i].key ELSE entries[i].value
<1>1. Words(entries, n) = [w \in 1 .. 2 * n |-> Word(w)]
  BY DEF Words
<1>2. Len(entries) \in Nat
  OBVIOUS
<1>3. \A i \in 1 .. Len(entries) : entries[i] \in EntryType
  OBVIOUS
<1>4. \A w \in 1 .. 2 * n : (w + 1) \div 2 \in 1 .. n
  OBVIOUS
<1>5. \A w \in 1 .. 2 * n : Word(w) \in Int
  BY <1>2, <1>3, <1>4 DEF EntryType
<1>6. ASSUME NEW i \in 1 .. n
      PROVE  Entry(Word(2 * i - 1), Word(2 * i)) =
               IF i > Len(entries) THEN Entry(0, 0) ELSE entries[i]
  <2>1. (2 * i - 1 + 1) \div 2 = i /\ (2 * i + 1) \div 2 = i
    OBVIOUS
  <2>2. (2 * i - 1) % 2 = 1 /\ (2 * i) % 2 # 1
    OBVIOUS
  <2>3. i <= Len(entries) => entries[i] = Entry(entries[i].key, entries[i].value)
    BY <1>2, <1>3 DEF Entry, EntryType
  <2>4. Word(2 * i - 1) = IF i > Len(entries) THEN 0 ELSE entries[i].key
    BY <2>1, <2>2
  <2>5. Word(2 * i) = IF i > Len(entries) THEN 0 ELSE entries[i].value
    BY <2>1, <2>2
  <2> HIDE DEF Word
  <2> QED
    BY <1>2, <2>3, <2>4, <2>5
<1>7. \A i \in 1 .. n : 2 * i - 1 \in 1 .. 2 * n /\ 2 * i \in 1 .. 2 * n
  OBVIOUS
<1> HIDE DEF Word
<1>8. \A i \in 1 .. n : Words(entries, n)[2 * i - 1] = Word(2 * i - 1)
                         /\ Words(entries, n)[2 * i] = Word(2 * i)
  BY <1>1, <1>7
<1>9. 2 * n \in Nat
  OBVIOUS
<1> QED
  BY <1>1, <1>5, <1>6, <1>8, <1>9

\* readLeaf: the slots in use give back the entries written.
LEMMA UsedSlots ==
  ASSUME NEW slots, NEW n \in Nat, DOMAIN slots = 1 .. n,
         NEW entries \in Seq(EntryType), Len(entries) <= n,
         \A i \in 1 .. Len(entries) : slots[i] = entries[i] /\ entries[i].key # 0,
         \A i \in Len(entries) + 1 .. n : slots[i].key = 0
  PROVE  used(slots) = entries
<1> DEFINE at == {i \in DOMAIN slots : slots[i].key # 0}
           Below(i) == {j \in at : j < i}
           L == Len(entries)
<1>1. L \in Nat
  OBVIOUS
<1>2. at = 1 .. L
  BY <1>1
<1>3. used(slots) = [r \in 1 .. Cardinality(at) |-> slots[CHOOSE i \in at : Cardinality(Below(i)) = r - 1]]
  BY DEF used, Picked
<1>4. \A i \in 1 .. L : Below(i) = 1 .. i - 1
  BY <1>1, <1>2
<1> HIDE DEF at, Below
<1>5. \A i \in 1 .. L : Cardinality(Below(i)) = i - 1
  BY <1>1, <1>4, FirstNumbers
<1>6. \A r \in 1 .. L : (CHOOSE i \in at : Cardinality(Below(i)) = r - 1) = r
  BY <1>2, <1>5
<1>7. Cardinality(at) = L
  BY <1>1, <1>2, FirstNumbers
<1>8. used(slots) = [r \in 1 .. L |-> slots[r]]
  BY <1>3, <1>6, <1>7
<1>9. \A r \in 1 .. L : slots[r] = entries[r]
  OBVIOUS
<1>10. entries = [r \in 1 .. L |-> entries[r]]
  OBVIOUS
<1> QED
  BY <1>8, <1>9, <1>10

\* readInternal: the slots before the first empty one give back the separators
\* written.
LEMMA FirstEmptySlot ==
  ASSUME NEW slots, NEW n \in Nat, slots \in Seq(EntryType), Len(slots) = n,
         NEW entries \in Seq(EntryType), Len(entries) <= n,
         \A i \in 1 .. Len(entries) : slots[i] = entries[i] /\ entries[i].key # 0,
         \A i \in Len(entries) + 1 .. n : slots[i].key = 0
  PROVE  LET empty == SelectInSeq(slots, LAMBDA e : e.key = 0)
         IN  (IF empty = 0 THEN slots ELSE SubSeq(slots, 1, empty - 1)) = entries
<1> DEFINE I == {i \in 1 .. Len(slots) : slots[i].key = 0}
           empty == SelectInSeq(slots, LAMBDA e : e.key = 0)
           L == Len(entries)
<1> SUFFICES (IF empty = 0 THEN slots ELSE SubSeq(slots, 1, empty - 1)) = entries
  OBVIOUS
<1>1. L \in Nat
  OBVIOUS
<1>2. empty = IF I # {} THEN Min(I) ELSE 0
  BY DEF SelectInSeq
<1>3. I = L + 1 .. n
  BY <1>1
<1> HIDE DEF empty, I
<1>4. CASE L = n
  <2>1. empty = 0
    BY <1>2, <1>3, <1>4
  <2>2. slots = entries
    BY <1>4
  <2> QED
    BY <2>1, <2>2
<1>5. CASE L < n
  <2>1. I # {} /\ I \subseteq Nat /\ L + 1 \in I
    BY <1>1, <1>3, <1>5
  <2>2. Min(I) \in I /\ \A i \in I : Min(I) <= i
    BY <2>1, LeastNumber, Zenon
  <2>3. empty = L + 1
    BY <1>1, <1>2, <1>3, <2>1, <2>2
  <2>4. SubSeq(slots, 1, L) = entries
    BY <1>1, <1>5
  <2> QED
    BY <1>1, <2>3, <2>4
<1> QED
  BY <1>1, <1>4, <1>5

\* What a block may hold.
Fits(entries, room) ==
  /\ entries \in Seq(EntryType)
  /\ Len(entries) <= room
  /\ \A i \in 1 .. Len(entries) : entries[i].key # 0

\* writeLeaf, then readLeaf: what was written is read.
LEMMA LeafWritten ==
  ASSUME NEW t, NEW id, NEW entries, NEW next \in Int,
         t.capacity \in Nat, Fits(entries, t.capacity),
         t.blocks[id] = Words(entries, t.capacity) \o <<next>>
  PROVE  readLeaf(t, id) = [entries |-> entries, next |-> next]
<1> DEFINE n == t.capacity
           words == t.blocks[id]
           front == Words(entries, n)
<1>0. /\ entries \in Seq(EntryType) /\ Len(entries) \in Nat /\ Len(entries) <= n
      /\ \A i \in 1 .. Len(entries) : entries[i].key # 0
  BY DEF Fits
<1>1. front \in Seq(Int) /\ Len(front) = 2 * n
  BY <1>0, WordsOf
<1>2. \A i \in 1 .. n :
        Entry(front[2 * i - 1], front[2 * i]) =
          IF i > Len(entries) THEN Entry(0, 0) ELSE entries[i]
  BY <1>0, WordsOf
<1>3. words = front \o <<next>>
  OBVIOUS
<1>4. readLeaf(t, id) = [entries |-> used(Slots(words, n)), next |-> words[2 * n + 1]]
  BY DEF readLeaf
<1> HIDE DEF n, words, front
<1>5. n \in Nat
  BY DEF n
<1>6. words[2 * n + 1] = next
  <2>1. words[Len(front) + 1] = next
    BY <1>1, <1>3
  <2> QED
    BY <1>1, <2>1
<1>7. \A i \in 1 .. n : words[2 * i - 1] = front[2 * i - 1] /\ words[2 * i] = front[2 * i]
  <2>1. \A w \in 1 .. 2 * n : words[w] = front[w]
    BY <1>1, <1>3
  <2>2. \A i \in 1 .. n : 2 * i - 1 \in 1 .. 2 * n /\ 2 * i \in 1 .. 2 * n
    BY <1>5
  <2> QED
    BY <2>1, <2>2
<1>8. Slots(words, n) = [i \in 1 .. n |-> Entry(words[2 * i - 1], words[2 * i])]
  BY DEF Slots
<1>9. \A i \in 1 .. n :
        Slots(words, n)[i] = IF i > Len(entries) THEN Entry(0, 0) ELSE entries[i]
  BY <1>2, <1>7, <1>8
<1>10. used(Slots(words, n)) = entries
  <2>1. DOMAIN Slots(words, n) = 1 .. n
    BY <1>8
  <2>2. Len(entries) \in Nat /\ Len(entries) <= n
    BY <1>0
  <2>3. \A i \in 1 .. Len(entries) : Slots(words, n)[i] = entries[i] /\ entries[i].key # 0
    BY <1>0, <1>5, <1>9, <2>2
  <2>4. \A i \in Len(entries) + 1 .. n : Slots(words, n)[i].key = 0
    BY <1>5, <1>9, <2>2 DEF Entry
  <2> QED
    BY <1>0, <1>5, <2>1, <2>2, <2>3, <2>4, UsedSlots
<1> QED
  BY <1>4, <1>6, <1>10

\* A word put before the others.
LEMMA PrependFacts ==
  ASSUME NEW x \in Int, NEW s \in Seq(Int)
  PROVE  (<<x>> \o s)[1] = x /\ Tail(<<x>> \o s) = s
<1> DEFINE r == <<x>> \o s
<1>1. /\ r \in Seq(Int) /\ Len(r) = Len(s) + 1 /\ r[1] = x
      /\ \A i \in 1 .. Len(s) : r[i + 1] = s[i]
  OBVIOUS
<1> HIDE DEF r
<1>2. r # <<>>
  BY <1>1
<1>3. /\ Tail(r) \in Seq(Int) /\ Len(Tail(r)) = Len(s)
      /\ \A i \in 1 .. Len(s) : Tail(r)[i] = r[i + 1]
  BY <1>1, <1>2
<1>4. Tail(r) = s
  <2> DEFINE q == Tail(r)
  <2>1. q \in Seq(Int) /\ Len(q) = Len(s) /\ \A i \in 1 .. Len(s) : q[i] = s[i]
    BY <1>1, <1>3
  <2> HIDE DEF q
  <2>2. q = s
    BY <2>1, SMTT(20)
  <2> QED
    BY <2>2 DEF q
<1> QED
  BY <1>1, <1>4 DEF r

\* A part of a sequence.
LEMMA SubSeqFacts ==
  ASSUME NEW s \in Seq(EntryType), NEW i \in 1 .. Len(s) + 1, NEW j \in 0 .. Len(s), i <= j + 1
  PROVE  /\ SubSeq(s, i, j) \in Seq(EntryType)
         /\ Len(SubSeq(s, i, j)) = j - i + 1
         /\ \A x \in 1 .. j - i + 1 : SubSeq(s, i, j)[x] = s[x + i - 1]
OBVIOUS

\* writeInternal, then readInternal: what was written is read.
LEMMA InternalWritten ==
  ASSUME NEW t, NEW id, NEW firstChild \in Int, NEW separators,
         t.capacity \in Nat, Fits(separators, t.capacity),
         t.blocks[id] = <<firstChild>> \o Words(separators, t.capacity)
  PROVE  readInternal(t, id) = [firstChild |-> firstChild, separators |-> separators]
<1> DEFINE n == t.capacity
           words == t.blocks[id]
           back == Words(separators, n)
           slots == Slots(Tail(words), n)
           empty == SelectInSeq(slots, LAMBDA e : e.key = 0)
<1>0. /\ separators \in Seq(EntryType) /\ Len(separators) \in Nat /\ Len(separators) <= n
      /\ \A i \in 1 .. Len(separators) : separators[i].key # 0
  BY DEF Fits
<1>1. back \in Seq(Int) /\ Len(back) = 2 * n
  BY <1>0, WordsOf
<1>2. \A i \in 1 .. n :
        Entry(back[2 * i - 1], back[2 * i]) =
          IF i > Len(separators) THEN Entry(0, 0) ELSE separators[i]
  BY <1>0, WordsOf
<1>3. words = <<firstChild>> \o back
  OBVIOUS
<1>4. readInternal(t, id) =
        [firstChild |-> words[1],
         separators |-> IF empty = 0 THEN slots ELSE SubSeq(slots, 1, empty - 1)]
  BY DEF readInternal
<1> HIDE DEF n, words, back
<1>5. n \in Nat
  BY DEF n
<1>6. words[1] = firstChild /\ Tail(words) = back
  <2> HIDE DEF slots, empty
  <2>1. back \in Seq(Int) /\ firstChild \in Int
    BY <1>1
  <2> QED
    BY <1>3, <2>1, PrependFacts, Zenon
<1>7. slots = [i \in 1 .. n |-> Entry(back[2 * i - 1], back[2 * i])]
  BY <1>6 DEF Slots
<1>8. \A i \in 1 .. n : back[2 * i - 1] \in Int /\ back[2 * i] \in Int
  BY <1>1, <1>5
<1>9. slots \in Seq(EntryType) /\ Len(slots) = n
  <2>1. \A i \in 1 .. n : Entry(back[2 * i - 1], back[2 * i]) \in EntryType
    BY <1>8 DEF Entry, EntryType
  <2> QED
    BY <1>5, <1>7, <2>1
<1>10. \A i \in 1 .. n : slots[i] = IF i > Len(separators) THEN Entry(0, 0) ELSE separators[i]
  BY <1>2, <1>7
<1> HIDE DEF slots
<1>11. (IF empty = 0 THEN slots ELSE SubSeq(slots, 1, empty - 1)) = separators
  <2>1. Len(separators) \in Nat /\ Len(separators) <= n
    BY <1>0
  <2>4. \A i \in 1 .. Len(separators) : i \in 1 .. n /\ ~ (i > Len(separators))
    BY <1>5, <2>1
  <2>2. \A i \in 1 .. Len(separators) : slots[i] = separators[i] /\ separators[i].key # 0
    BY <1>0, <1>10, <2>4
  <2>3. \A i \in Len(separators) + 1 .. n : slots[i].key = 0
    BY <1>5, <1>10, <2>1 DEF Entry
  <2> QED
    BY <1>0, <1>5, <1>9, <2>1, <2>2, <2>3, FirstEmptySlot
<1> QED
  BY <1>4, <1>6, <1>11

\* A block that is the same reads the same.
LEMMA SameBlock ==
  ASSUME NEW t, NEW u, NEW id, u.capacity = t.capacity, u.blocks[id] = t.blocks[id]
  PROVE  readLeaf(u, id) = readLeaf(t, id) /\ readInternal(u, id) = readInternal(t, id)
BY DEF readLeaf, readInternal

\* writeBlock replaces or appends one block and leaves the others.
LEMMA BlockWritten ==
  ASSUME NEW t \in TreeType, NEW id \in 1 .. Len(t.blocks) + 1, NEW words \in Seq(Int)
  PROVE  LET u == writeBlock(t, id, words)
         IN  /\ u \in TreeType
             /\ u.capacity = t.capacity /\ u.rootBID = t.rootBID /\ u.depth = t.depth
             /\ u.numOfNodes = t.numOfNodes /\ u.promoted = t.promoted
             /\ Len(u.blocks) = IF id > Len(t.blocks) THEN id ELSE Len(t.blocks)
             /\ u.blocks[id] = words
             /\ \A j \in 1 .. Len(t.blocks) : j # id => u.blocks[j] = t.blocks[j]
<1> DEFINE b == IF id > Len(t.blocks) THEN Append(t.blocks, words)
                ELSE [t.blocks EXCEPT ![id] = words]
           u == writeBlock(t, id, words)
<1> SUFFICES /\ u \in TreeType
             /\ u.capacity = t.capacity /\ u.rootBID = t.rootBID /\ u.depth = t.depth
             /\ u.numOfNodes = t.numOfNodes /\ u.promoted = t.promoted
             /\ Len(u.blocks) = IF id > Len(t.blocks) THEN id ELSE Len(t.blocks)
             /\ u.blocks[id] = words
             /\ \A j \in 1 .. Len(t.blocks) : j # id => u.blocks[j] = t.blocks[j]
  OBVIOUS
<1>1. t.blocks \in Seq(Seq(Int)) /\ Len(t.blocks) \in Nat
  BY DEF TreeType
<1>2. u = [t EXCEPT !.blocks = b]
  BY DEF writeBlock
<1>3. b \in Seq(Seq(Int))
  BY <1>1
<1>4. Len(b) = IF id > Len(t.blocks) THEN id ELSE Len(t.blocks)
  BY <1>1
<1>5. b[id] = words /\ \A j \in 1 .. Len(t.blocks) : j # id => b[j] = t.blocks[j]
  BY <1>1
<1> HIDE DEF u, b
<1> QED
  BY <1>2, <1>3, <1>4, <1>5 DEF TreeType

-----------------------------------------------------------------------------
(* A node with one separator more, and in two halves                       *)

\* Every key has its place among separators in key order.
LEMMA Position ==
  ASSUME NEW s \in Seq(EntryType), Ascending(s), NEW k \in Int
  PROVE  \E m : At(s, k, m)
<1> DEFINE I == {i \in 1 .. Len(s) : s[i].key > k}
<1>1. Len(s) \in Nat
  OBVIOUS
<1>2. \A i \in 1 .. Len(s) : s[i].key \in Int
  <2>1. \A i \in 1 .. Len(s) : s[i] \in EntryType
    OBVIOUS
  <2> QED
    BY <2>1 DEF EntryType
<1>3. CASE I = {}
  <2>1. \A i \in 1 .. Len(s) : s[i].key <= k
    BY <1>2, <1>3
  <2>2. At(s, k, Len(s))
    BY <1>1, <2>1 DEF At
  <2> QED
    BY <2>2
<1>4. CASE I # {}
  <2>1. I \subseteq Nat
    BY <1>1
  <2>2. Min(I) \in I /\ \A i \in I : Min(I) <= i
    <3> HIDE DEF I
    <3> QED
      BY <1>4, <2>1, LeastNumber, Zenon
  <2>3. PICK f : f = Min(I)
    OBVIOUS
  <2>4. f \in 1 .. Len(s) /\ s[f].key > k
    BY <2>2, <2>3
  <2>5. \A i \in 1 .. f - 1 : s[i].key <= k
    <3>1. SUFFICES ASSUME NEW i \in 1 .. f - 1
                   PROVE  s[i].key <= k
      OBVIOUS
    <3>2. i \in 1 .. Len(s) /\ ~ (f <= i)
      BY <1>1, <2>4
    <3>3. i \notin I
      <4> HIDE DEF I
      <4> QED
        BY <2>2, <2>3, <3>2, Zenon
    <3> QED
      BY <1>2, <3>2, <3>3
  <2>6. \A i \in f .. Len(s) : s[i].key > k
    <3>1. SUFFICES ASSUME NEW i \in f + 1 .. Len(s)
                   PROVE  s[i].key > k
      BY <1>1, <2>4
    <3>2. i \in 1 .. Len(s) /\ f < i
      BY <1>1, <2>4
    <3>3. s[f].key < s[i].key /\ s[f].key \in Int /\ s[i].key \in Int
      BY <1>2, <2>4, <3>2 DEF Ascending
    <3> QED
      BY <2>4, <3>3
  <2>7. At(s, k, f - 1)
    BY <1>1, <2>4, <2>5, <2>6 DEF At
  <2> QED
    BY <2>7
<1> QED
  BY <1>3, <1>4

\* A node the way down can rely on: separators in key order, room for them, and no
\* child twice.
GoodNode(node, room) ==
  /\ node \in NodeType
  /\ Len(node.separators) <= room
  /\ Ascending(node.separators)
  /\ \A i \in 1 .. Len(node.separators) : node.separators[i].key # 0
  /\ \A i, j \in 0 .. Len(node.separators) : Kid(node, i) = Kid(node, j) => i = j

\* The parts of a node have their types.
LEMMA SeparatorsOf ==
  ASSUME NEW node \in NodeType
  PROVE  /\ node.separators \in Seq(EntryType)
         /\ node.firstChild \in Int
         /\ Len(node.separators) \in Nat
         /\ \A i \in 1 .. Len(node.separators) :
              /\ node.separators[i] \in EntryType
              /\ node.separators[i].key \in Int
              /\ node.separators[i].value \in Int
         /\ \A i \in 0 .. Len(node.separators) : Kid(node, i) \in Int
<1>1. node.separators \in Seq(EntryType) /\ node.firstChild \in Int
  BY DEF NodeType
<1>2. Len(node.separators) \in Nat /\ \A i \in 1 .. Len(node.separators) : node.separators[i] \in EntryType
  BY <1>1
<1>3. \A i \in 1 .. Len(node.separators) :
        node.separators[i].key \in Int /\ node.separators[i].value \in Int
  BY <1>2 DEF EntryType
<1> QED
  BY <1>1, <1>2, <1>3 DEF Kid

\* The way down for a separator's key goes to the child right of it.
LEMMA KidReached ==
  ASSUME NEW node, NEW room, GoodNode(node, room), NEW i \in 1 .. Len(node.separators)
  PROVE  child(node, node.separators[i].key) = Kid(node, i)
<1>1. node \in NodeType /\ Ascending(node.separators)
  BY DEF GoodNode
<1>2. /\ Len(node.separators) \in Nat
      /\ \A j \in 1 .. Len(node.separators) : node.separators[j].key \in Int
  BY <1>1, SeparatorsOf
<1>3. At(node.separators, node.separators[i].key, i)
  <2>1. \A j \in 1 .. i : node.separators[j].key <= node.separators[i].key
    <3>1. SUFFICES ASSUME NEW j \in 1 .. i
                   PROVE  node.separators[j].key <= node.separators[i].key
      OBVIOUS
    <3>2. j \in 1 .. Len(node.separators) /\ (j = i \/ j < i)
      BY <1>2
    <3> QED
      BY <1>1, <1>2, <3>2 DEF Ascending
  <2>2. \A j \in i + 1 .. Len(node.separators) :
          node.separators[j].key > node.separators[i].key
    BY <1>1, <1>2 DEF Ascending
  <2> QED
    BY <1>2, <2>1, <2>2 DEF At
<1> QED
  BY <1>1, <1>2, <1>3, ChildAt

\* The way down for a key below all separators goes to the first child.
LEMMA FirstChildReached ==
  ASSUME NEW node, NEW room, GoodNode(node, room), NEW k \in Int,
         node.separators = <<>> \/ k < node.separators[1].key
  PROVE  child(node, k) = node.firstChild
<1>1. node \in NodeType /\ Ascending(node.separators)
  BY DEF GoodNode
<1>2. /\ Len(node.separators) \in Nat
      /\ \A j \in 1 .. Len(node.separators) : node.separators[j].key \in Int
      /\ node.separators \in Seq(EntryType)
  BY <1>1, SeparatorsOf
<1>3. \A j \in 1 .. Len(node.separators) : node.separators[j].key > k
  <2>1. SUFFICES ASSUME NEW j \in 1 .. Len(node.separators)
                 PROVE  node.separators[j].key > k
    OBVIOUS
  <2>2. k < node.separators[1].key /\ 1 \in 1 .. Len(node.separators) /\ (j = 1 \/ 1 < j)
    BY <1>2
  <2> QED
    BY <1>1, <1>2, <2>2 DEF Ascending
<1>4. At(node.separators, k, 0)
  BY <1>2, <1>3 DEF At
<1> QED
  BY <1>1, <1>4, ChildAt DEF Kid

\* A node that has got one more separator.
WithSeparator(node, sep) ==
  [firstChild |-> node.firstChild, separators |-> sortEntries(Append(node.separators, sep))]

\* With the separator, the keys from it on that led to the divided child lead to
\* the new one, and no other key changes its way.
Extended(node, sep, room) ==
  LET more == WithSeparator(node, sep)
  IN  /\ GoodNode(more, room + 1)
      /\ Len(more.separators) = Len(node.separators) + 1
      /\ \A k \in Int :
           child(more, k) = IF child(node, k) = child(node, sep.key) /\ k >= sep.key THEN sep.value
                            ELSE child(node, k)
      /\ \A i \in 1 .. Len(node.separators) + 1 :
           \/ more.separators[i] = sep
           \/ \E j \in 1 .. Len(node.separators) : more.separators[i] = node.separators[j]

\* propagate: a separator whose key divides the keys of one child, and whose child is
\* new, may be put into the node.
LEMMA NodeInsert ==
  ASSUME NEW node, NEW room \in Nat, GoodNode(node, room), NEW sep \in EntryType, sep.key # 0,
         \E k \in Int : k < sep.key /\ child(node, k) = child(node, sep.key),
         \A i \in 0 .. Len(node.separators) : Kid(node, i) # sep.value
  PROVE  Extended(node, sep, room)
<1> DEFINE s == node.separators
           n == Len(s)
           more == WithSeparator(node, sep)
<1>1. /\ node \in NodeType /\ n <= room /\ Ascending(s)
      /\ \A i \in 1 .. n : s[i].key # 0
      /\ \A i, j \in 0 .. n : Kid(node, i) = Kid(node, j) => i = j
  BY DEF GoodNode
<1>2. /\ s \in Seq(EntryType) /\ node.firstChild \in Int /\ n \in Nat
      /\ \A i \in 1 .. n : s[i] \in EntryType /\ s[i].key \in Int /\ s[i].value \in Int
      /\ \A i \in 0 .. n : Kid(node, i) \in Int
  BY <1>1, SeparatorsOf
<1>3. sep.key \in Int /\ sep.value \in Int
  BY DEF EntryType
<1>0. PICK k0 \in Int : k0 < sep.key /\ child(node, k0) = child(node, sep.key)
  OBVIOUS
<1>4. PICK m : At(s, sep.key, m)
  BY <1>1, <1>2, <1>3, Position
<1>5. PICK m0 : At(s, k0, m0)
  BY <1>1, <1>2, Position
<1>6. child(node, sep.key) = Kid(node, m) /\ child(node, k0) = Kid(node, m0)
  BY <1>1, <1>3, <1>4, <1>5, ChildAt
<1>7. m = m0 /\ m \in 0 .. n
  BY <1>0, <1>1, <1>4, <1>5, <1>6 DEF At
<1>8. \A i \in 1 .. m : s[i].key < sep.key
  <2>1. \A i \in 1 .. m : s[i].key <= k0
    BY <1>5, <1>7 DEF At
  <2>2. \A i \in 1 .. m : s[i].key \in Int
    BY <1>2, <1>7
  <2> HIDE DEF s
  <2> QED
    BY <1>0, <1>3, <2>1, <2>2
<1>9. \A i \in m + 1 .. n : sep.key < s[i].key
  BY <1>2, <1>3, <1>4 DEF At
<1> DEFINE r == Inserting(s, sep, m)
<1>10. more.separators = r /\ more.firstChild = node.firstChild
  BY <1>1, <1>2, <1>7, <1>8, <1>9, SortedInsert DEF WithSeparator
<1>11. /\ r \in Seq(EntryType) /\ Len(r) = n + 1 /\ Ascending(r)
       /\ \A j \in 1 .. n + 1 : r[j] = sep \/ \E i \in 1 .. n : r[j] = s[i]
  <2>1. s \in Seq(EntryType) /\ m \in 0 .. Len(s) /\ Ascending(s)
    BY <1>1, <1>2, <1>7
  <2>2. HasInserted(s, sep, r)
    BY <1>8, <1>9, <2>1, InsertingFacts
  <2> QED
    BY <2>2 DEF HasInserted
<1>12. \A i \in 1 .. n + 1 : r[i] = IF i <= m THEN s[i] ELSE IF i = m + 1 THEN sep ELSE s[i - 1]
  BY <1>2 DEF Inserting
<1>20. \A i \in 1 .. n + 1 :
         \/ i <= m /\ i \in 1 .. n /\ r[i] = s[i]
         \/ i = m + 1 /\ r[i] = sep
         \/ i > m + 1 /\ i - 1 \in 1 .. n /\ r[i] = s[i - 1]
  <2> HIDE DEF s, r
  <2> QED
    BY <1>2, <1>7, <1>12
<1>13. more \in NodeType
  BY <1>2, <1>10, <1>11 DEF NodeType, WithSeparator
<1> HIDE DEF s, n, more, r
<1>14. \A i \in 1 .. n + 1 : r[i].key # 0
  BY <1>1, <1>11
<1>15. \A i \in 0 .. n + 1 : Kid(more, i) = IF i <= m THEN Kid(node, i)
                                           ELSE IF i = m + 1 THEN sep.value
                                           ELSE Kid(node, i - 1)
  <2>1. \A i \in 0 .. n + 1 : Kid(more, i) = IF i = 0 THEN node.firstChild ELSE r[i].value
    BY <1>10 DEF Kid
  <2>2. \A i \in 0 .. n : Kid(node, i) = IF i = 0 THEN node.firstChild ELSE s[i].value
    BY DEF Kid, s
  <2>3. SUFFICES ASSUME NEW i \in 0 .. n + 1
                 PROVE  Kid(more, i) = IF i <= m THEN Kid(node, i)
                                       ELSE IF i = m + 1 THEN sep.value
                                       ELSE Kid(node, i - 1)
    OBVIOUS
  <2>4. CASE i = 0
    BY <1>2, <1>7, <2>1, <2>2, <2>4
  <2>5. CASE i \in 1 .. n + 1 /\ i <= m
    <3>1. r[i] = s[i] /\ i \in 0 .. n /\ i # 0
      BY <1>2, <1>7, <1>20, <2>5
    <3> QED
      BY <2>1, <2>2, <2>5, <3>1
  <2>6. CASE i = m + 1
    BY <1>2, <1>7, <1>20, <2>1, <2>2, <2>6
  <2>7. CASE i \in 1 .. n + 1 /\ i > m + 1
    <3>1. i - 1 \in 1 .. n /\ r[i] = s[i - 1] /\ i # 0 /\ i - 1 # 0
      BY <1>2, <1>7, <1>20, <2>7
    <3>2. Kid(more, i) = s[i - 1].value /\ Kid(node, i - 1) = s[i - 1].value
      BY <1>2, <2>1, <2>2, <3>1
    <3> QED
      BY <1>2, <1>7, <2>7, <3>2
  <2> QED
    BY <1>2, <1>7, <2>4, <2>5, <2>6, <2>7
<1>16. \A i, j \in 0 .. n + 1 : Kid(more, i) = Kid(more, j) => i = j
  <2>1. \A i \in 0 .. n : Kid(node, i) # sep.value
    BY DEF n, s
  <2> QED
    BY <1>1, <1>2, <1>7, <1>15, <2>1
<1>17. GoodNode(more, room + 1)
  BY <1>1, <1>2, <1>10, <1>11, <1>13, <1>14, <1>16 DEF GoodNode
<1>18. ASSUME NEW k \in Int
       PROVE  child(more, k) =
                IF child(node, k) = child(node, sep.key) /\ k >= sep.key THEN sep.value
                ELSE child(node, k)
  <2>1. PICK q : At(s, k, q)
    BY <1>1, <1>2, Position
  <2>2. q \in 0 .. n /\ (\A i \in 1 .. q : s[i].key <= k) /\ (\A i \in q + 1 .. n : s[i].key > k)
    BY <2>1 DEF At, n
  <2>3. child(node, k) = Kid(node, q)
    BY <1>1, <2>1, ChildAt DEF s
  <2>4. child(node, k) = child(node, sep.key) <=> q = m
    BY <1>1, <1>6, <1>7, <2>2, <2>3
  <2>5. ASSUME NEW p \in 0 .. n + 1, \A i \in 1 .. p : r[i].key <= k,
               \A i \in p + 1 .. n + 1 : r[i].key > k
        PROVE  child(more, k) = Kid(more, p)
    <3>1. At(more.separators, k, p)
      BY <1>10, <1>11, <2>5 DEF At
    <3> QED
      BY <1>13, <3>1, ChildAt
  <2>6. CASE q < m
    <3>1. q \in 0 .. n + 1 /\ \A i \in 1 .. q : r[i].key <= k
      BY <1>2, <1>7, <1>12, <2>2, <2>6
    <3>2. m \in q + 1 .. n /\ s[m].key > k /\ s[m].key < sep.key /\ m \in 1 .. m
      BY <1>2, <1>7, <1>8, <2>2, <2>6
    <3>3. sep.key > k
      BY <1>2, <1>3, <3>2
    <3>4. \A i \in q + 1 .. n + 1 : r[i].key > k
      <4>1. SUFFICES ASSUME NEW i \in q + 1 .. n + 1
                     PROVE  r[i].key > k
        OBVIOUS
      <4>2. i \in 1 .. n + 1
        BY <1>2, <2>2
      <4>3. CASE i <= m /\ i \in 1 .. n /\ r[i] = s[i]
        <5>1. i \in q + 1 .. n
          BY <1>2, <2>2, <4>1, <4>3
        <5> QED
          BY <2>2, <4>3, <5>1
      <4>4. CASE i = m + 1 /\ r[i] = sep
        BY <1>2, <1>3, <1>7, <2>2, <2>6, <3>3, <4>1, <4>4
      <4>5. CASE i > m + 1 /\ i - 1 \in 1 .. n /\ r[i] = s[i - 1]
        <5>1. i - 1 \in q + 1 .. n
          BY <1>2, <1>7, <2>2, <2>6, <3>3, <4>1, <4>5
        <5> QED
          BY <2>2, <4>5, <5>1
      <4> QED
        BY <1>20, <4>2, <4>3, <4>4, <4>5
    <3>5. child(more, k) = Kid(more, q) /\ Kid(more, q) = Kid(node, q)
      BY <1>7, <1>15, <2>5, <2>6, <3>1, <3>4
    <3> QED
      BY <2>3, <2>4, <2>6, <3>5, <1>7
  <2>7. CASE q = m /\ k < sep.key
    <3>a. q \in 0 .. n + 1 /\ \A i \in 1 .. q : i <= m /\ i \in 1 .. n + 1
      BY <1>2, <1>7, <2>2, <2>7
    <3>1. q \in 0 .. n + 1 /\ \A i \in 1 .. q : r[i].key <= k
      BY <1>12, <2>2, <3>a
    <3>2. \A i \in q + 1 .. n + 1 : r[i].key > k
      <4>1. SUFFICES ASSUME NEW i \in q + 1 .. n + 1
                     PROVE  r[i].key > k
        OBVIOUS
      <4>2. i \in 1 .. n + 1
        BY <1>2, <2>2
      <4>3. CASE i <= m /\ i \in 1 .. n /\ r[i] = s[i]
        <5>1. i \in q + 1 .. n
          BY <1>2, <2>2, <4>1, <4>3
        <5> QED
          BY <2>2, <4>3, <5>1
      <4>4. CASE i = m + 1 /\ r[i] = sep
        BY <1>2, <1>3, <1>7, <2>2, <2>7, <4>1, <4>4
      <4>5. CASE i > m + 1 /\ i - 1 \in 1 .. n /\ r[i] = s[i - 1]
        <5>1. i - 1 \in q + 1 .. n
          BY <1>2, <1>7, <2>2, <2>7, <4>1, <4>5
        <5> QED
          BY <2>2, <4>5, <5>1
      <4> QED
        BY <1>20, <4>2, <4>3, <4>4, <4>5
    <3>3. child(more, k) = Kid(more, q) /\ Kid(more, q) = Kid(node, q)
      BY <1>7, <1>15, <2>5, <2>7, <3>1, <3>2
    <3> QED
      BY <1>3, <2>3, <2>7, <3>3
  <2>8. CASE q = m /\ k >= sep.key
    <3>1. q + 1 \in 0 .. n + 1 /\ \A i \in 1 .. q + 1 : r[i].key <= k
      BY <1>2, <1>3, <1>7, <1>12, <2>2, <2>8
    <3>2. \A i \in q + 1 + 1 .. n + 1 : r[i].key > k
      <4>1. SUFFICES ASSUME NEW i \in q + 1 + 1 .. n + 1
                     PROVE  r[i].key > k
        OBVIOUS
      <4>2. i \in 1 .. n + 1
        BY <1>2, <2>2
      <4> QED
        BY <1>2, <1>3, <1>7, <1>20, <2>2, <2>8, <4>2
    <3>3. child(more, k) = Kid(more, q + 1) /\ Kid(more, q + 1) = sep.value
      BY <1>7, <1>15, <2>5, <2>8, <3>1, <3>2
    <3> QED
      BY <2>4, <2>8, <3>3
  <2>9. CASE q > m
    <3>1. q + 1 \in 0 .. n + 1
      BY <1>2, <2>2
    <3>2. m + 1 \in 1 .. q /\ m + 1 \in m + 1 .. n
      BY <1>2, <1>7, <2>2, <2>9
    <3>3. sep.key <= k
      <4>1. s[m + 1].key <= k /\ sep.key < s[m + 1].key /\ s[m + 1].key \in Int
        BY <1>2, <1>7, <1>9, <2>2, <3>2
      <4> QED
        BY <1>3, <4>1
    <3>4. \A i \in 1 .. q + 1 : r[i].key <= k
      <4>1. SUFFICES ASSUME NEW i \in 1 .. q + 1 PROVE r[i].key <= k
        OBVIOUS
      <4>2. i \in 1 .. n + 1
        BY <1>2, <2>2
      <4>3. CASE i <= m /\ i \in 1 .. n /\ r[i] = s[i]
        <5>1. i \in 1 .. q
          BY <1>2, <1>7, <2>2, <2>9, <4>1, <4>3
        <5> QED
          BY <2>2, <4>3, <5>1
      <4>4. CASE i = m + 1 /\ r[i] = sep
        BY <3>3, <4>4
      <4>5. CASE i > m + 1 /\ i - 1 \in 1 .. n /\ r[i] = s[i - 1]
        <5>1. i - 1 \in 1 .. q
          BY <2>2, <4>1, <4>5
        <5> QED
          BY <2>2, <4>5, <5>1
      <4> QED
        BY <1>20, <4>2, <4>3, <4>4, <4>5
    <3>5. \A i \in q + 1 + 1 .. n + 1 : r[i].key > k
      <4>1. SUFFICES ASSUME NEW i \in q + 1 + 1 .. n + 1
                     PROVE  r[i].key > k
        OBVIOUS
      <4>2. i \in 1 .. n + 1
        BY <1>2, <2>2
      <4>3. CASE i <= m /\ i \in 1 .. n /\ r[i] = s[i]
        <5>1. i \in q + 1 .. n
          BY <1>2, <2>2, <4>1, <4>3
        <5> QED
          BY <2>2, <4>3, <5>1
      <4>4. CASE i = m + 1 /\ r[i] = sep
        BY <1>2, <1>3, <1>7, <2>2, <2>9, <4>1, <4>4
      <4>5. CASE i > m + 1 /\ i - 1 \in 1 .. n /\ r[i] = s[i - 1]
        <5>1. i - 1 \in q + 1 .. n
          BY <1>2, <1>7, <2>2, <2>9, <4>1, <4>5
        <5> QED
          BY <2>2, <4>5, <5>1
      <4> QED
        BY <1>20, <4>2, <4>3, <4>4, <4>5
    <3>6. child(more, k) = Kid(more, q + 1) /\ Kid(more, q + 1) = Kid(node, q)
      BY <1>7, <1>15, <2>2, <2>5, <2>9, <3>1, <3>4, <3>5
    <3> QED
      BY <1>7, <2>2, <2>3, <2>4, <2>9, <3>6
  <2> QED
    BY <1>3, <1>7, <2>2, <2>6, <2>7, <2>8, <2>9
<1> QED
  BY <1>10, <1>11, <1>17, <1>18 DEF s, n, more, Extended

\* What is left and right of the separator that moves up.
LeftHalf(node, mid)  == [firstChild |-> node.firstChild,
                         separators |-> SubSeq(node.separators, 1, mid)]
RightHalf(node, mid) == [firstChild |-> node.separators[mid + 1].value,
                         separators |-> SubSeq(node.separators, mid + 2, Len(node.separators))]

\* Below the separator that moves up a key finds its way in the left half, from it
\* on in the right one; no child is in both.
NodeHalved(node, mid, room) ==
  LET up == node.separators[mid + 1]
      left == LeftHalf(node, mid)
      right == RightHalf(node, mid)
  IN  /\ up.key \in Int /\ up.key # 0
      /\ node.separators[1].key < up.key
      /\ GoodNode(left, room) /\ GoodNode(right, room)
      /\ \A k \in Int : child(node, k) = IF k < up.key THEN child(left, k) ELSE child(right, k)
      /\ \A j, k \in Int : child(node, j) = child(node, k) => (j < up.key <=> k < up.key)
      /\ \A i \in 1 .. Len(left.separators) :
           /\ left.separators[i].key < up.key
           /\ i \in 1 .. Len(node.separators) /\ left.separators[i] = node.separators[i]
      /\ \A i \in 1 .. Len(right.separators) :
           /\ up.key < right.separators[i].key
           /\ mid + 1 + i \in 1 .. Len(node.separators)
           /\ right.separators[i] = node.separators[mid + 1 + i]

\* propagate: a node with one separator too many divides into two good ones.
LEMMA NodeSplit ==
  ASSUME NEW node, NEW room \in Nat, NEW mid \in 1 .. room, GoodNode(node, room + 1),
         Len(node.separators) = room + 1
  PROVE  NodeHalved(node, mid, room)
<1> DEFINE s == node.separators
           n == room + 1
           up == s[mid + 1]
           left == LeftHalf(node, mid)
           right == RightHalf(node, mid)
           ls == SubSeq(s, 1, mid)
           rs == SubSeq(s, mid + 2, n)
<1>1. /\ node \in NodeType /\ Ascending(s) /\ Len(s) = n
      /\ \A i \in 1 .. n : s[i].key # 0
      /\ \A i, j \in 0 .. n : Kid(node, i) = Kid(node, j) => i = j
  BY DEF GoodNode
<1>2. /\ s \in Seq(EntryType) /\ node.firstChild \in Int /\ n \in Nat
      /\ \A i \in 1 .. n : s[i] \in EntryType /\ s[i].key \in Int /\ s[i].value \in Int
  BY <1>1, SeparatorsOf
<1>3. \A i, j \in 1 .. n : i < j => s[i].key < s[j].key
  BY <1>1 DEF Ascending
<1>4. left.separators = ls /\ left.firstChild = node.firstChild
  BY DEF LeftHalf
<1>5. right.separators = rs /\ right.firstChild = up.value
  BY <1>1 DEF RightHalf
<1>6. mid \in Nat /\ mid + 1 \in 1 .. n /\ mid < n
  OBVIOUS
<1>7. ls \in Seq(EntryType) /\ Len(ls) = mid /\ \A i \in 1 .. mid : ls[i] = s[i]
  BY <1>1, <1>2, <1>6
<1>8. rs \in Seq(EntryType) /\ Len(rs) = n - mid - 1 /\ \A i \in 1 .. n - mid - 1 : rs[i] = s[mid + 1 + i]
  BY <1>1, <1>2, <1>6
<1>9. left \in NodeType /\ right \in NodeType
  BY <1>2, <1>4, <1>5, <1>6, <1>7, <1>8 DEF NodeType, LeftHalf, RightHalf
<1> SUFFICES /\ up.key \in Int /\ up.key # 0
             /\ s[1].key < up.key
             /\ GoodNode(left, room) /\ GoodNode(right, room)
             /\ \A k \in Int : child(node, k) = IF k < up.key THEN child(left, k) ELSE child(right, k)
             /\ \A j, k \in Int : child(node, j) = child(node, k) => (j < up.key <=> k < up.key)
             /\ \A i \in 1 .. Len(ls) :
                  ls[i].key < up.key /\ i \in 1 .. n /\ ls[i] = s[i]
             /\ \A i \in 1 .. Len(rs) :
                  up.key < rs[i].key /\ mid + 1 + i \in 1 .. n /\ rs[i] = s[mid + 1 + i]
  BY <1>1, <1>4, <1>5 DEF NodeHalved
<1>10. \A i \in 0 .. n : Kid(node, i) = IF i = 0 THEN node.firstChild ELSE s[i].value
  BY DEF Kid
<1> HIDE DEF s, left, right, ls, rs, n
<1>11. n \in Nat /\ n = room + 1
  BY DEF n
<1>12. \A i \in 0 .. mid : Kid(left, i) = Kid(node, i)
  BY <1>4, <1>6, <1>7, <1>10, <1>11 DEF Kid
<1>13. \A i \in 0 .. n - mid - 1 : Kid(right, i) = Kid(node, mid + 1 + i)
  <2>1. \A i \in 0 .. n - mid - 1 : Kid(right, i) = IF i = 0 THEN up.value ELSE rs[i].value
    BY <1>5 DEF Kid
  <2>2. Kid(right, 0) = Kid(node, mid + 1)
    BY <1>6, <1>10, <1>11, <2>1
  <2>3. \A i \in 1 .. n - mid - 1 : mid + 1 + i \in 0 .. n /\ mid + 1 + i # 0
    BY <1>6, <1>11
  <2>4. \A i \in 1 .. n - mid - 1 : Kid(node, mid + 1 + i) = s[mid + 1 + i].value
    BY <1>10, <2>3
  <2>5. \A i \in 1 .. n - mid - 1 : Kid(right, i) = s[mid + 1 + i].value
    BY <1>8, <2>1
  <2> QED
    BY <1>6, <1>11, <2>2, <2>4, <2>5
<1>14. GoodNode(left, room)
  <2>1. Len(ls) <= room /\ \A i \in 1 .. mid : ls[i].key # 0
    BY <1>1, <1>6, <1>7, <1>11
  <2>2. Ascending(ls)
    BY <1>3, <1>6, <1>7, <1>11, SMTT(30) DEF Ascending
  <2>3. \A i, j \in 0 .. mid : Kid(left, i) = Kid(left, j) => i = j
    BY <1>1, <1>6, <1>11, <1>12
  <2> QED
    BY <1>4, <1>7, <1>9, <2>1, <2>2, <2>3 DEF GoodNode
<1>15. GoodNode(right, room)
  <2>1. Len(rs) <= room /\ \A i \in 1 .. n - mid - 1 : rs[i].key # 0
    BY <1>1, <1>6, <1>8, <1>11
  <2>2. Ascending(rs)
    <3>1. SUFFICES ASSUME NEW i \in 1 .. n - mid - 1, NEW j \in 1 .. n - mid - 1, i < j
                   PROVE  rs[i].key < rs[j].key
      BY <1>8 DEF Ascending
    <3>2. mid + 1 + i \in 1 .. n /\ mid + 1 + j \in 1 .. n /\ mid + 1 + i < mid + 1 + j
      BY <1>6, <1>11, <3>1
    <3> QED
      BY <1>3, <1>8, <3>2
  <2>3. \A i, j \in 0 .. n - mid - 1 : Kid(right, i) = Kid(right, j) => i = j
    BY <1>1, <1>6, <1>11, <1>13
  <2> QED
    BY <1>5, <1>8, <1>9, <2>1, <2>2, <2>3 DEF GoodNode
<1>16. up.key \in Int /\ up.key # 0 /\ s[1].key < up.key
  BY <1>1, <1>2, <1>3, <1>6, <1>11
<1>17. ASSUME NEW k \in Int
       PROVE  \E q \in 0 .. n :
                /\ child(node, k) = Kid(node, q)
                /\ q <= mid => k < up.key /\ child(left, k) = Kid(node, q)
                /\ q > mid => k >= up.key /\ child(right, k) = Kid(node, q)
  <2>1. PICK q : At(s, k, q)
    BY <1>1, <1>2, Position
  <2>2. q \in 0 .. n /\ (\A i \in 1 .. q : s[i].key <= k) /\ (\A i \in q + 1 .. n : s[i].key > k)
    BY <1>1, <2>1 DEF At
  <2>3. child(node, k) = Kid(node, q)
    BY <1>1, <2>1, ChildAt DEF s
  <2>4. ASSUME q <= mid
        PROVE  k < up.key /\ child(left, k) = Kid(node, q)
    <3>1. mid + 1 \in q + 1 .. n
      BY <1>6, <2>2, <2>4, <1>11
    <3>2. At(ls, k, q)
      <4>1. Len(ls) = mid /\ q \in 0 .. mid
        BY <1>7, <1>11, <2>2, <2>4
      <4>2. \A i \in 1 .. q : i \in 1 .. mid /\ ls[i].key <= k
        BY <1>6, <1>7, <1>11, <2>2, <2>4
      <4>3. \A i \in q + 1 .. mid : i \in 1 .. mid /\ i \in q + 1 .. n /\ ls[i].key > k
        BY <1>6, <1>7, <1>11, <2>2, <2>4
      <4> QED
        BY <4>1, <4>2, <4>3 DEF At
    <3>3. child(left, k) = Kid(left, q)
      BY <1>4, <1>9, <3>2, ChildAt
    <3> QED
      BY <1>6, <1>12, <1>16, <2>2, <2>4, <3>1, <3>3
  <2>5. ASSUME q > mid
        PROVE  k >= up.key /\ child(right, k) = Kid(node, q)
    <3>1. mid + 1 \in 1 .. q
      BY <1>6, <2>2, <2>5
    <3>2. q - mid - 1 \in 0 .. n - mid - 1
      BY <1>6, <1>11, <2>2, <2>5
    <3>3. \A i \in 1 .. q - mid - 1 : rs[i].key <= k
      <4>1. \A i \in 1 .. q - mid - 1 : i \in 1 .. n - mid - 1 /\ mid + 1 + i \in 1 .. q
        BY <1>6, <1>11, <2>2
      <4> QED
        BY <1>8, <2>2, <4>1
    <3>4. \A i \in q - mid - 1 + 1 .. n - mid - 1 : rs[i].key > k
      BY <1>6, <1>8, <1>11, <2>2, <3>2
    <3>5. At(rs, k, q - mid - 1)
      BY <1>8, <3>2, <3>3, <3>4 DEF At
    <3>6. child(right, k) = Kid(right, q - mid - 1)
      BY <1>5, <1>9, <3>5, ChildAt
    <3>7. Kid(right, q - mid - 1) = Kid(node, q)
      BY <1>6, <1>11, <1>13, <2>2, <3>2
    <3> QED
      BY <1>16, <2>2, <3>1, <3>6, <3>7
  <2> QED
    BY <2>2, <2>3, <2>4, <2>5
<1>18. ASSUME NEW k \in Int
       PROVE  child(node, k) = IF k < up.key THEN child(left, k) ELSE child(right, k)
  <2>1. PICK q \in 0 .. n :
          /\ child(node, k) = Kid(node, q)
          /\ q <= mid => k < up.key /\ child(left, k) = Kid(node, q)
          /\ q > mid => k >= up.key /\ child(right, k) = Kid(node, q)
    BY <1>17
  <2>2. q <= mid \/ q > mid
    BY <1>6, <1>11
  <2>3. up.key \in Int
    BY <1>16
  <2> HIDE DEF up
  <2> QED
    BY <2>1, <2>2, <2>3
<1>19. ASSUME NEW j \in Int, NEW k \in Int, child(node, j) = child(node, k)
       PROVE  j < up.key <=> k < up.key
  <2>1. PICK p \in 0 .. n : child(node, j) = Kid(node, p) /\ (p <= mid => j < up.key) /\ (p > mid => j >= up.key)
    BY <1>17
  <2>2. PICK q \in 0 .. n : child(node, k) = Kid(node, q) /\ (q <= mid => k < up.key) /\ (q > mid => k >= up.key)
    BY <1>17
  <2>3. p = q
    BY <1>1, <1>19, <2>1, <2>2
  <2> QED
    BY <1>6, <1>16, <2>1, <2>2, <2>3
<1>20. \A i \in 1 .. Len(ls) : ls[i].key < up.key /\ i \in 1 .. n /\ ls[i] = s[i]
  BY <1>3, <1>6, <1>7, <1>11
<1>21. \A i \in 1 .. Len(rs) : up.key < rs[i].key /\ mid + 1 + i \in 1 .. n /\ rs[i] = s[mid + 1 + i]
  <2>1. ASSUME NEW i \in 1 .. Len(rs) PROVE mid + 1 + i \in 1 .. n /\ rs[i] = s[mid + 1 + i]
    BY <1>6, <1>8, <1>11
  <2>2. \A i \in 1 .. Len(rs) : mid + 1 < mid + 1 + i
    BY <1>6, <1>8, <1>11
  <2>3. up = s[mid + 1] /\ mid + 1 \in 1 .. n
    BY <1>6, <1>11
  <2> QED
    BY <1>3, <2>1, <2>2, <2>3
<1> QED
  BY <1>14, <1>15, <1>16, <1>18, <1>19, <1>20, <1>21

-----------------------------------------------------------------------------
(* What the writes of an insert do to the blocks of the file               *)

\* As many blocks as the tree counts, each with the words of a node.
Sound(t) ==
  /\ t \in TreeType
  /\ Len(t.blocks) = t.numOfNodes
  /\ \A id \in 1 .. t.numOfNodes : Len(t.blocks[id]) = 2 * t.capacity + 1

\* Every block but one reads as before.
Untouched(u, t, id) ==
  /\ u.capacity = t.capacity /\ u.rootBID = t.rootBID /\ u.depth = t.depth
  /\ \A j \in 1 .. t.numOfNodes : j # id =>
       readLeaf(u, j) = readLeaf(t, j) /\ readInternal(u, j) = readInternal(t, j)

\* The words of a leaf fill its block.
LEMMA LeafWords ==
  ASSUME NEW n \in Nat, NEW entries, Fits(entries, n), NEW next \in Int
  PROVE  /\ Words(entries, n) \o <<next>> \in Seq(Int)
         /\ Len(Words(entries, n) \o <<next>>) = 2 * n + 1
<1>1. Words(entries, n) \in Seq(Int) /\ Len(Words(entries, n)) = 2 * n
  BY WordsOf DEF Fits
<1> QED
  BY <1>1

\* The words of an internal node fill its block.
LEMMA NodeWords ==
  ASSUME NEW n \in Nat, NEW separators, Fits(separators, n), NEW firstChild \in Int
  PROVE  /\ <<firstChild>> \o Words(separators, n) \in Seq(Int)
         /\ Len(<<firstChild>> \o Words(separators, n)) = 2 * n + 1
<1>1. Words(separators, n) \in Seq(Int) /\ Len(Words(separators, n)) = 2 * n
  BY WordsOf DEF Fits
<1> QED
  BY <1>1

\* writeLeaf on a block of the tree changes what this block reads, and no other.
LEMMA LeafFits ==
  ASSUME NEW t, Sound(t), NEW id \in 1 .. t.numOfNodes, NEW entries, Fits(entries, t.capacity),
         NEW next \in Int
  PROVE  LET u == writeLeaf(t, id, entries, next)
         IN  /\ Sound(u) /\ Untouched(u, t, id)
             /\ u.numOfNodes = t.numOfNodes /\ u.promoted = t.promoted
             /\ readLeaf(u, id) = [entries |-> entries, next |-> next]
<1> DEFINE words == Words(entries, t.capacity) \o <<next>>
           u == writeLeaf(t, id, entries, next)
<1> SUFFICES /\ Sound(u) /\ Untouched(u, t, id)
             /\ u.numOfNodes = t.numOfNodes /\ u.promoted = t.promoted
             /\ readLeaf(u, id) = [entries |-> entries, next |-> next]
  OBVIOUS
<1>1. t \in TreeType /\ t.capacity \in Nat /\ t.numOfNodes \in Nat /\ Len(t.blocks) = t.numOfNodes
  BY DEF Sound, TreeType
<1>2. words \in Seq(Int) /\ Len(words) = 2 * t.capacity + 1
  BY <1>1, LeafWords
<1>3. u = writeBlock(t, id, words) /\ id \in 1 .. Len(t.blocks) + 1
  BY <1>1 DEF writeLeaf
<1> HIDE DEF words, u
<1>4. /\ u \in TreeType
      /\ u.capacity = t.capacity /\ u.rootBID = t.rootBID /\ u.depth = t.depth
      /\ u.numOfNodes = t.numOfNodes /\ u.promoted = t.promoted
      /\ Len(u.blocks) = IF id > Len(t.blocks) THEN id ELSE Len(t.blocks)
      /\ u.blocks[id] = words
      /\ \A j \in 1 .. Len(t.blocks) : j # id => u.blocks[j] = t.blocks[j]
  BY <1>1, <1>2, <1>3, BlockWritten
<1>5. Sound(u)
  <2>1. \A j \in 1 .. t.numOfNodes : Len(t.blocks[j]) = 2 * t.capacity + 1
    BY DEF Sound
  <2>2. \A j \in 1 .. u.numOfNodes : Len(u.blocks[j]) = 2 * u.capacity + 1
    BY <1>1, <1>2, <1>4, <2>1
  <2> QED
    BY <1>1, <1>4, <2>2 DEF Sound
<1>6. Untouched(u, t, id)
  BY <1>1, <1>4, SameBlock DEF Untouched
<1>7. readLeaf(u, id) = [entries |-> entries, next |-> next]
  <2>1. u.capacity \in Nat /\ Fits(entries, u.capacity)
    BY <1>1, <1>4
  <2>2. u.blocks[id] = Words(entries, u.capacity) \o <<next>>
    BY <1>4 DEF words
  <2> QED
    BY <2>1, <2>2, LeafWritten
<1> QED
  BY <1>4, <1>5, <1>6, <1>7

\* What is written when a promoted separator fits into its node.
NodeWritten(t, id, firstChild, separators) ==
  LET u == [writeInternal(t, id, firstChild, separators) EXCEPT !.promoted = NO_SPLIT]
  IN  /\ Sound(u) /\ Untouched(u, t, id)
      /\ u.numOfNodes = t.numOfNodes /\ u.promoted = NO_SPLIT
      /\ readInternal(u, id) = [firstChild |-> firstChild, separators |-> separators]

\* writeInternal on a block of the tree changes what this block reads, and no
\* other.
LEMMA NodeFits ==
  ASSUME NEW t, Sound(t), NEW id \in 1 .. t.numOfNodes, NEW separators,
         Fits(separators, t.capacity), NEW firstChild \in Int
  PROVE  NodeWritten(t, id, firstChild, separators)
<1> DEFINE words == <<firstChild>> \o Words(separators, t.capacity)
           v == writeInternal(t, id, firstChild, separators)
           u == [v EXCEPT !.promoted = NO_SPLIT]
<1> SUFFICES /\ Sound(u) /\ Untouched(u, t, id)
             /\ u.numOfNodes = t.numOfNodes /\ u.promoted = NO_SPLIT
             /\ readInternal(u, id) = [firstChild |-> firstChild, separators |-> separators]
  BY DEF NodeWritten
<1>1. t \in TreeType /\ t.capacity \in Nat /\ t.numOfNodes \in Nat /\ Len(t.blocks) = t.numOfNodes
  BY DEF Sound, TreeType
<1>2. words \in Seq(Int) /\ Len(words) = 2 * t.capacity + 1
  BY <1>1, NodeWords
<1>3. v = writeBlock(t, id, words) /\ id \in 1 .. Len(t.blocks) + 1
  BY <1>1 DEF writeInternal
<1> HIDE DEF words, v
<1>4. /\ v \in TreeType
      /\ v.capacity = t.capacity /\ v.rootBID = t.rootBID /\ v.depth = t.depth
      /\ v.numOfNodes = t.numOfNodes
      /\ Len(v.blocks) = IF id > Len(t.blocks) THEN id ELSE Len(t.blocks)
      /\ v.blocks[id] = words
      /\ \A j \in 1 .. Len(t.blocks) : j # id => v.blocks[j] = t.blocks[j]
  BY <1>1, <1>2, <1>3, BlockWritten
<1>5. NO_SPLIT \in EntryType
  BY DEF NO_SPLIT, Entry, EntryType
<1>6. /\ u \in TreeType /\ u.promoted = NO_SPLIT /\ u.blocks = v.blocks
      /\ u.capacity = v.capacity /\ u.rootBID = v.rootBID /\ u.depth = v.depth
      /\ u.numOfNodes = v.numOfNodes
  BY <1>4, <1>5 DEF TreeType
<1> HIDE DEF u
<1>7. Sound(u)
  <2>1. \A j \in 1 .. t.numOfNodes : Len(t.blocks[j]) = 2 * t.capacity + 1
    BY DEF Sound
  <2>2. Len(v.blocks) = t.numOfNodes
    BY <1>1, <1>4
  <2>3. \A j \in 1 .. t.numOfNodes : Len(v.blocks[j]) = 2 * t.capacity + 1
    BY <1>1, <1>2, <1>4, <2>1
  <2>4. Len(u.blocks) = u.numOfNodes /\ \A j \in 1 .. u.numOfNodes : Len(u.blocks[j]) = 2 * u.capacity + 1
    BY <1>4, <1>6, <2>2, <2>3
  <2> QED
    BY <1>6, <2>4 DEF Sound
<1>8. Untouched(u, t, id)
  <2>1. u.capacity = t.capacity /\ u.rootBID = t.rootBID /\ u.depth = t.depth
    BY <1>4, <1>6
  <2>2. \A j \in 1 .. t.numOfNodes : j # id => u.blocks[j] = t.blocks[j]
    BY <1>1, <1>4, <1>6
  <2> QED
    BY <2>1, <2>2, SameBlock DEF Untouched
<1>9. readInternal(u, id) = [firstChild |-> firstChild, separators |-> separators]
  <2>1. u.capacity = t.capacity
    BY <1>4, <1>6
  <2>2. u.capacity \in Nat /\ Fits(separators, u.capacity)
    BY <1>1, <2>1
  <2>3. u.blocks[id] = words
    BY <1>4, <1>6
  <2>4. u.blocks[id] = <<firstChild>> \o Words(separators, u.capacity)
    BY <2>1, <2>3 DEF words
  <2> QED
    BY <2>2, <2>4, InternalWritten, ZenonT(40)
<1> QED
  BY <1>4, <1>6, <1>7, <1>8, <1>9

\* The split index leaves both halves of a full block an entry.
LEMMA SplitIndex ==
  ASSUME NEW t \in TreeType
  PROVE  splitIndex(t) \in 1 .. t.capacity
BY DEF TreeType, splitIndex

\* The two blocks of a split, written one after the other.
SplitBlock(t, id, one, two, key) ==
  [writeBlock(writeBlock(t, id, one), t.numOfNodes + 1, two) EXCEPT
     !.numOfNodes = t.numOfNodes + 1, !.promoted = Entry(key, t.numOfNodes + 1)]

\* The two writes of a split: one block rewritten, one appended, the others as
\* before.
LEMMA TwoWritten ==
  ASSUME NEW t, Sound(t), NEW id \in 1 .. t.numOfNodes, NEW key \in Int,
         NEW one \in Seq(Int), NEW two \in Seq(Int),
         Len(one) = 2 * t.capacity + 1, Len(two) = 2 * t.capacity + 1
  PROVE  /\ Sound(SplitBlock(t, id, one, two, key))
         /\ Untouched(SplitBlock(t, id, one, two, key), t, id)
         /\ SplitBlock(t, id, one, two, key).numOfNodes = t.numOfNodes + 1
         /\ SplitBlock(t, id, one, two, key).promoted = Entry(key, t.numOfNodes + 1)
         /\ SplitBlock(t, id, one, two, key).blocks[id] = one
         /\ SplitBlock(t, id, one, two, key).blocks[t.numOfNodes + 1] = two
<1> DEFINE new == t.numOfNodes + 1
           v == writeBlock(t, id, one)
           w == writeBlock(v, new, two)
           u == SplitBlock(t, id, one, two, key)
<1> SUFFICES /\ Sound(u) /\ Untouched(u, t, id)
             /\ u.numOfNodes = new /\ u.promoted = Entry(key, new)
             /\ u.blocks[id] = one /\ u.blocks[new] = two
  OBVIOUS
<1>0. u = [w EXCEPT !.numOfNodes = new, !.promoted = Entry(key, new)]
  BY DEF SplitBlock
<1> HIDE DEF u
<1>1. /\ t \in TreeType /\ t.capacity \in Nat /\ t.numOfNodes \in Nat /\ Len(t.blocks) = t.numOfNodes
      /\ id \in 1 .. Len(t.blocks) + 1
  BY DEF Sound, TreeType
<1> HIDE DEF v
<1>2. /\ v \in TreeType
      /\ v.capacity = t.capacity /\ v.rootBID = t.rootBID /\ v.depth = t.depth
      /\ v.numOfNodes = t.numOfNodes
      /\ Len(v.blocks) = t.numOfNodes
      /\ v.blocks[id] = one
      /\ \A j \in 1 .. t.numOfNodes : j # id => v.blocks[j] = t.blocks[j]
  BY <1>1, BlockWritten DEF v
<1> HIDE DEF w
<1>3. new \in 1 .. Len(v.blocks) + 1 /\ new \in Nat
  <2>1. Len(v.blocks) = t.numOfNodes /\ t.numOfNodes \in Nat
    BY <1>1, <1>2
  <2> QED
    BY <2>1
<1>4. /\ w \in TreeType
      /\ w.capacity = v.capacity /\ w.rootBID = v.rootBID /\ w.depth = v.depth
      /\ Len(w.blocks) = new
      /\ w.blocks[new] = two
      /\ \A j \in 1 .. t.numOfNodes : w.blocks[j] = v.blocks[j]
  <2>1. /\ w \in TreeType
        /\ w.capacity = v.capacity /\ w.rootBID = v.rootBID /\ w.depth = v.depth
        /\ Len(w.blocks) = IF new > Len(v.blocks) THEN new ELSE Len(v.blocks)
        /\ w.blocks[new] = two
        /\ \A j \in 1 .. Len(v.blocks) : j # new => w.blocks[j] = v.blocks[j]
    BY <1>2, <1>3, BlockWritten, SMTT(20) DEF w
  <2> QED
    BY <1>1, <1>2, <2>1
<1>5. Entry(key, new) \in EntryType
  BY <1>3 DEF Entry, EntryType
<1>6. /\ u \in TreeType /\ u.promoted = Entry(key, new) /\ u.blocks = w.blocks
      /\ u.capacity = w.capacity /\ u.rootBID = w.rootBID /\ u.depth = w.depth
      /\ u.numOfNodes = new
  BY <1>0, <1>3, <1>4, <1>5 DEF TreeType
<1>7. Sound(u)
  <2>1. \A j \in 1 .. t.numOfNodes : Len(t.blocks[j]) = 2 * t.capacity + 1
    BY DEF Sound
  <2>2. \A j \in 1 .. t.numOfNodes : Len(w.blocks[j]) = 2 * t.capacity + 1
    BY <1>1, <1>2, <1>4, <2>1
  <2>3. Len(u.blocks) = u.numOfNodes /\ u.numOfNodes = t.numOfNodes + 1 /\ u.capacity = t.capacity
    BY <1>2, <1>4, <1>6
  <2>4. Len(w.blocks[new]) = 2 * t.capacity + 1
    BY <1>4
  <2>5. ASSUME NEW j \in 1 .. u.numOfNodes
        PROVE  Len(u.blocks[j]) = 2 * u.capacity + 1
    <3>1. j \in 1 .. t.numOfNodes \/ j = new
      BY <1>1, <2>3
    <3>2. u.blocks[j] = w.blocks[j]
      BY <1>6
    <3> QED
      BY <2>2, <2>3, <2>4, <3>1, <3>2
  <2> QED
    BY <1>6, <2>3, <2>5 DEF Sound
<1>8. Untouched(u, t, id)
  <2>1. u.capacity = t.capacity /\ u.rootBID = t.rootBID /\ u.depth = t.depth
    BY <1>2, <1>4, <1>6
  <2>2. \A j \in 1 .. t.numOfNodes : j # id => u.blocks[j] = t.blocks[j]
    BY <1>2, <1>4, <1>6
  <2> QED
    BY <2>1, <2>2, SameBlock DEF Untouched
<1> QED
  BY <1>2, <1>4, <1>6, <1>7, <1>8

\* insertLeaf: both halves are read back, the left one linked to the right one and
\* this to the old successor.
LEMMA LeafSplit ==
  ASSUME NEW t, Sound(t), NEW id \in 1 .. t.numOfNodes, NEW next \in Int,
         NEW entries, Fits(entries, t.capacity + 1), Len(entries) = t.capacity + 1
  PROVE  LET u == splitLeaf(t, id, entries, next)
             mid == splitIndex(t)
             new == t.numOfNodes + 1
         IN  /\ Sound(u) /\ Untouched(u, t, id)
             /\ u.numOfNodes = new /\ u.promoted = Entry(entries[mid + 1].key, new)
             /\ readLeaf(u, id) = [entries |-> SubSeq(entries, 1, mid), next |-> new]
             /\ readLeaf(u, new) = [entries |-> SubSeq(entries, mid + 1, Len(entries)), next |-> next]
<1> DEFINE mid == splitIndex(t)
           new == t.numOfNodes + 1
           left == SubSeq(entries, 1, mid)
           right == SubSeq(entries, mid + 1, Len(entries))
           one == Words(left, t.capacity) \o <<new>>
           two == Words(right, t.capacity) \o <<next>>
           v == writeBlock(t, id, one)
           u == splitLeaf(t, id, entries, next)
<1> SUFFICES /\ Sound(u) /\ Untouched(u, t, id)
             /\ u.numOfNodes = new /\ u.promoted = Entry(entries[mid + 1].key, new)
             /\ readLeaf(u, id) = [entries |-> left, next |-> new]
             /\ readLeaf(u, new) = [entries |-> right, next |-> next]
  OBVIOUS
<1>1. /\ t \in TreeType /\ t.capacity \in Nat /\ t.numOfNodes \in Nat /\ Len(t.blocks) = t.numOfNodes
      /\ id \in 1 .. Len(t.blocks) + 1
  BY DEF Sound, TreeType
<1>2. mid \in 1 .. t.capacity
  BY <1>1, SplitIndex
<1>3. v.capacity = t.capacity
  BY DEF writeBlock
<1>4. u = [writeBlock(v, new, two) EXCEPT
             !.numOfNodes = new, !.promoted = Entry(entries[mid + 1].key, new)]
  BY <1>3, Zenon DEF splitLeaf, writeLeaf
<1> HIDE DEF mid
<1>5. Fits(left, t.capacity) /\ Fits(right, t.capacity)
  <2> DEFINE c == t.capacity
  <2>1. entries \in Seq(EntryType) /\ \A i \in 1 .. c + 1 : entries[i].key # 0
    BY DEF Fits
  <2>2. c \in Nat /\ mid \in Nat /\ 1 <= mid /\ mid <= c /\ Len(entries) = c + 1
    BY <1>1, <1>2
  <2> HIDE DEF c
  <2>3. left \in Seq(EntryType) /\ Len(left) = mid /\ \A i \in 1 .. mid : left[i] = entries[i]
    <3>1. Len(left) = mid - 1 + 1 /\ \A i \in 1 .. mid - 1 + 1 : left[i] = entries[i + 1 - 1]
      BY <2>1, <2>2, SubSeqFacts
    <3>2. left \in Seq(EntryType)
      BY <2>1, <2>2, SubSeqFacts
    <3> HIDE DEF left
    <3> QED
      BY <2>1, <2>2, <3>1, <3>2
  <2>4. /\ right \in Seq(EntryType) /\ Len(right) = c + 1 - mid
        /\ \A i \in 1 .. c + 1 - mid : right[i] = entries[mid + i]
    <3>1. /\ Len(right) = c + 1 - (mid + 1) + 1
          /\ \A i \in 1 .. c + 1 - (mid + 1) + 1 : right[i] = entries[i + (mid + 1) - 1]
      BY <2>1, <2>2, SubSeqFacts
    <3>2. right \in Seq(EntryType)
      BY <2>1, <2>2, SubSeqFacts
    <3> HIDE DEF right
    <3> QED
      BY <2>1, <2>2, <3>1, <3>2
  <2> HIDE DEF left, right
  <2>5. Fits(left, c)
    BY <2>1, <2>2, <2>3 DEF Fits
  <2>6. Fits(right, c)
    BY <2>1, <2>2, <2>4 DEF Fits
  <2> QED
    BY <2>5, <2>6 DEF c
<1>6. entries[mid + 1].key \in Int
  <2>1. entries[mid + 1] \in EntryType
    BY <1>1, <1>2 DEF Fits
  <2> QED
    BY <2>1 DEF EntryType
<1> HIDE DEF left, right
<1>7. one \in Seq(Int) /\ Len(one) = 2 * t.capacity + 1
  <2>1. new \in Int
    BY <1>1
  <2> HIDE DEF new
  <2> QED
    BY <1>1, <1>5, <2>1, LeafWords
<1>8. two \in Seq(Int) /\ Len(two) = 2 * t.capacity + 1
  BY <1>1, <1>5, LeafWords
<1> HIDE DEF one, two, u
<1>9. /\ Sound(u) /\ Untouched(u, t, id)
      /\ u.numOfNodes = new /\ u.promoted = Entry(entries[mid + 1].key, new)
      /\ u.blocks[id] = one /\ u.blocks[new] = two
  <2>1. u = SplitBlock(t, id, one, two, entries[mid + 1].key)
    BY <1>4 DEF v, SplitBlock
  <2> QED
    BY <1>6, <1>7, <1>8, <2>1, TwoWritten
<1>10. u.capacity = t.capacity
  BY <1>9 DEF Untouched
<1>11. readLeaf(u, id) = [entries |-> left, next |-> new]
  <2>1. u.capacity \in Nat /\ Fits(left, u.capacity) /\ new \in Int
    BY <1>1, <1>5, <1>10
  <2>2. u.blocks[id] = Words(left, u.capacity) \o <<new>>
    BY <1>9, <1>10 DEF one
  <2> HIDE DEF new
  <2> QED
    BY <2>1, <2>2, LeafWritten
<1>12. readLeaf(u, new) = [entries |-> right, next |-> next]
  <2>1. u.capacity \in Nat /\ Fits(right, u.capacity) /\ next \in Int
    BY <1>1, <1>5, <1>10
  <2>2. u.blocks[new] = Words(right, u.capacity) \o <<next>>
    BY <1>9, <1>10 DEF two
  <2> HIDE DEF new
  <2> QED
    BY <2>1, <2>2, LeafWritten
<1> QED
  BY <1>9, <1>11, <1>12

\* The split of propagate, of a node that has its separators already.
SplitNode(t, id, node) ==
  LET mid == splitIndex(t)
      up  == node.separators[mid + 1]
      new == t.numOfNodes + 1
      left == writeInternal(t, id, node.firstChild, SubSeq(node.separators, 1, mid))
  IN  [writeInternal(left, new, up.value, SubSeq(node.separators, mid + 2, Len(node.separators)))
         EXCEPT !.numOfNodes = new, !.promoted = Entry(up.key, new)]

\* The split of propagate: both halves are read back.
LEMMA InternalSplit ==
  ASSUME NEW t, Sound(t), NEW id \in 1 .. t.numOfNodes, NEW node \in NodeType,
         Fits(node.separators, t.capacity + 1), Len(node.separators) = t.capacity + 1
  PROVE  LET u == SplitNode(t, id, node)
             mid == splitIndex(t)
             new == t.numOfNodes + 1
         IN  /\ Sound(u) /\ Untouched(u, t, id)
             /\ u.numOfNodes = new /\ u.promoted = Entry(node.separators[mid + 1].key, new)
             /\ readInternal(u, id) = LeftHalf(node, mid)
             /\ readInternal(u, new) = RightHalf(node, mid)
<1> DEFINE mid == splitIndex(t)
           new == t.numOfNodes + 1
           up  == node.separators[mid + 1]
           left == SubSeq(node.separators, 1, mid)
           right == SubSeq(node.separators, mid + 2, Len(node.separators))
           one == <<node.firstChild>> \o Words(left, t.capacity)
           two == <<up.value>> \o Words(right, t.capacity)
           v == writeBlock(t, id, one)
           u == SplitNode(t, id, node)
<1> SUFFICES /\ Sound(u) /\ Untouched(u, t, id)
             /\ u.numOfNodes = new /\ u.promoted = Entry(up.key, new)
             /\ readInternal(u, id) = [firstChild |-> node.firstChild, separators |-> left]
             /\ readInternal(u, new) = [firstChild |-> up.value, separators |-> right]
  BY DEF LeftHalf, RightHalf
<1>1. /\ t \in TreeType /\ t.capacity \in Nat /\ t.numOfNodes \in Nat /\ Len(t.blocks) = t.numOfNodes
      /\ id \in 1 .. Len(t.blocks) + 1
  BY DEF Sound, TreeType
<1>2. mid \in 1 .. t.capacity
  BY <1>1, SplitIndex
<1>3. v.capacity = t.capacity
  BY DEF writeBlock
<1>4. u = [writeBlock(v, new, two) EXCEPT !.numOfNodes = new, !.promoted = Entry(up.key, new)]
  BY <1>3, Zenon DEF SplitNode, writeInternal
<1> HIDE DEF mid
<1>5. Fits(left, t.capacity) /\ Fits(right, t.capacity)
  <2> DEFINE s == node.separators
             c == t.capacity
  <2>1. s \in Seq(EntryType) /\ Len(s) = c + 1 /\ \A i \in 1 .. c + 1 : s[i].key # 0
    BY DEF Fits
  <2> HIDE DEF s
  <2>2. left \in Seq(EntryType) /\ Len(left) = mid /\ \A i \in 1 .. mid : left[i] = s[i]
    BY <1>1, <1>2, <2>1 DEF s
  <2>3. /\ right \in Seq(EntryType) /\ Len(right) = c - mid
        /\ \A i \in 1 .. c - mid : right[i] = s[mid + 1 + i]
    <3>1. right \in Seq(EntryType) /\ Len(right) = c - mid
      BY <1>1, <1>2, <2>1, SMTT(30) DEF s
    <3>2. \A i \in 1 .. c - mid : right[i] = s[mid + 1 + i]
      BY <1>1, <1>2, <2>1, SMTT(30) DEF s
    <3> QED
      BY <3>1, <3>2
  <2> HIDE DEF left, right
  <2>4. \A i \in 1 .. mid : i \in 1 .. c + 1
    BY <1>1, <1>2
  <2>5. \A i \in 1 .. c - mid : mid + 1 + i \in 1 .. c + 1
    BY <1>1, <1>2
  <2>6. mid <= c /\ c - mid <= c
    BY <1>1, <1>2
  <2>7. \A i \in 1 .. mid : left[i].key # 0
    BY <2>1, <2>2, <2>4
  <2>8. \A i \in 1 .. c - mid : right[i].key # 0
    BY <2>1, <2>3, <2>5
  <2>9. Fits(left, c)
    BY <2>2, <2>6, <2>7 DEF Fits
  <2>10. Fits(right, c)
    BY <2>3, <2>6, <2>8 DEF Fits
  <2> QED
    BY <2>9, <2>10
<1>6. node.firstChild \in Int /\ up.key \in Int /\ up.value \in Int
  <2>1. mid + 1 \in 1 .. Len(node.separators)
    BY <1>1, <1>2
  <2> QED
    BY <2>1, SeparatorsOf
<1> HIDE DEF left, right, up
<1>7. one \in Seq(Int) /\ Len(one) = 2 * t.capacity + 1
  BY <1>1, <1>5, <1>6, NodeWords
<1>8. two \in Seq(Int) /\ Len(two) = 2 * t.capacity + 1
  BY <1>1, <1>5, <1>6, NodeWords
<1> HIDE DEF one, two, u
<1>9. /\ Sound(u) /\ Untouched(u, t, id)
      /\ u.numOfNodes = new /\ u.promoted = Entry(up.key, new)
      /\ u.blocks[id] = one /\ u.blocks[new] = two
  <2>1. u = SplitBlock(t, id, one, two, up.key)
    BY <1>4 DEF v, SplitBlock
  <2> QED
    BY <1>6, <1>7, <1>8, <2>1, TwoWritten
<1>10. u.capacity = t.capacity
  BY <1>9 DEF Untouched
<1>11. readInternal(u, id) = [firstChild |-> node.firstChild, separators |-> left]
  <2>1. u.capacity \in Nat /\ Fits(left, u.capacity)
    BY <1>1, <1>5, <1>10
  <2>2. u.blocks[id] = <<node.firstChild>> \o Words(left, u.capacity)
    BY <1>9, <1>10 DEF one
  <2> QED
    BY <1>6, <2>1, <2>2, InternalWritten
<1>12. readInternal(u, new) = [firstChild |-> up.value, separators |-> right]
  <2>1. u.capacity \in Nat /\ Fits(right, u.capacity)
    BY <1>1, <1>5, <1>10
  <2>2. u.blocks[new] = <<up.value>> \o Words(right, u.capacity)
    BY <1>9, <1>10 DEF two
  <2> HIDE DEF new
  <2> QED
    BY <1>6, <2>1, <2>2, InternalWritten
<1> QED
  BY <1>9, <1>11, <1>12

\* The new root: one block more, with the old root left of the promoted separator.
LEMMA RootWritten ==
  ASSUME NEW t, Sound(t), t.promoted.key # 0
  PROVE  LET u == newRoot(t)
             new == t.numOfNodes + 1
         IN  /\ Sound(u)
             /\ u.capacity = t.capacity /\ u.rootBID = new /\ u.depth = t.depth + 1
             /\ u.numOfNodes = new /\ u.promoted = NO_SPLIT
             /\ readInternal(u, new) = [firstChild |-> t.rootBID, separators |-> <<t.promoted>>]
             /\ \A j \in 1 .. t.numOfNodes :
                  readLeaf(u, j) = readLeaf(t, j) /\ readInternal(u, j) = readInternal(t, j)
<1> DEFINE new == t.numOfNodes + 1
           separators == <<t.promoted>>
           words == <<t.rootBID>> \o Words(separators, t.capacity)
           v == writeBlock(t, new, words)
           u == newRoot(t)
<1> SUFFICES /\ Sound(u)
             /\ u.capacity = t.capacity /\ u.rootBID = new /\ u.depth = t.depth + 1
             /\ u.numOfNodes = new /\ u.promoted = NO_SPLIT
             /\ readInternal(u, new) = [firstChild |-> t.rootBID, separators |-> separators]
             /\ \A j \in 1 .. t.numOfNodes :
                  readLeaf(u, j) = readLeaf(t, j) /\ readInternal(u, j) = readInternal(t, j)
  OBVIOUS
<1>1. /\ t \in TreeType /\ t.capacity \in Nat \ {0} /\ t.numOfNodes \in Nat
      /\ Len(t.blocks) = t.numOfNodes /\ t.promoted \in EntryType /\ t.rootBID \in Int
      /\ t.depth \in Nat
  BY DEF Sound, TreeType
<1>2. new \in 1 .. Len(t.blocks) + 1 /\ new \in Nat
  BY <1>1
<1>3. Fits(separators, t.capacity)
  BY <1>1 DEF Fits
<1>4. u = [v EXCEPT !.numOfNodes = new, !.rootBID = new, !.depth = @ + 1, !.promoted = NO_SPLIT]
  BY DEF newRoot, writeInternal
<1> HIDE DEF separators
<1>5. words \in Seq(Int) /\ Len(words) = 2 * t.capacity + 1
  BY <1>1, <1>3, NodeWords
<1> HIDE DEF words, v, u
<1>6. /\ v \in TreeType
      /\ v.capacity = t.capacity /\ v.depth = t.depth
      /\ Len(v.blocks) = IF new > Len(t.blocks) THEN new ELSE Len(t.blocks)
      /\ v.blocks[new] = words
      /\ \A j \in 1 .. Len(t.blocks) : j # new => v.blocks[j] = t.blocks[j]
  BY <1>1, <1>2, <1>5, BlockWritten DEF v
<1>7. NO_SPLIT \in EntryType
  BY DEF NO_SPLIT, Entry, EntryType
<1>8. /\ u \in TreeType /\ u.capacity = t.capacity /\ u.rootBID = new /\ u.depth = t.depth + 1
      /\ u.numOfNodes = new /\ u.promoted = NO_SPLIT /\ u.blocks = v.blocks
  <2>1. v.depth + 1 \in Nat /\ new \in Int
    BY <1>1, <1>2, <1>6
  <2> HIDE DEF new
  <2>2. u \in TreeType
    BY <1>2, <1>4, <1>6, <1>7, <2>1 DEF TreeType
  <2>3. /\ u.capacity = v.capacity /\ u.rootBID = new /\ u.depth = v.depth + 1
        /\ u.numOfNodes = new /\ u.promoted = NO_SPLIT /\ u.blocks = v.blocks
    BY <1>4, <1>6 DEF TreeType
  <2> QED
    BY <1>6, <2>2, <2>3
<1>9. Len(u.blocks) = new /\ \A j \in 1 .. t.numOfNodes : u.blocks[j] = t.blocks[j]
  BY <1>1, <1>6, <1>8
<1>10. Sound(u)
  <2>1. \A j \in 1 .. t.numOfNodes : Len(t.blocks[j]) = 2 * t.capacity + 1
    BY DEF Sound
  <2>2. \A j \in 1 .. t.numOfNodes : Len(u.blocks[j]) = 2 * u.capacity + 1
    BY <1>8, <1>9, <2>1
  <2>3. Len(u.blocks[new]) = 2 * u.capacity + 1
    BY <1>5, <1>6, <1>8
  <2>4. \A j \in 1 .. new : j = new \/ j \in 1 .. t.numOfNodes
    BY <1>1
  <2>5. \A j \in 1 .. u.numOfNodes : Len(u.blocks[j]) = 2 * u.capacity + 1
    BY <1>8, <2>2, <2>3, <2>4
  <2> QED
    BY <1>8, <1>9, <2>5 DEF Sound
<1>11. readInternal(u, new) = [firstChild |-> t.rootBID, separators |-> separators]
  <2>1. u.capacity \in Nat /\ Fits(separators, u.capacity)
    BY <1>1, <1>3, <1>8
  <2>2. u.blocks[new] = <<t.rootBID>> \o Words(separators, u.capacity)
    BY <1>6, <1>8 DEF words
  <2> HIDE DEF new
  <2> QED
    BY <1>1, <2>1, <2>2, InternalWritten
<1> QED
  BY <1>8, <1>9, <1>10, <1>11, SameBlock

-----------------------------------------------------------------------------
(* The entries of a leaf                                                   *)

\* sortEntries: a new entry is among the others, and in key order.
LEMMA SortAdds ==
  ASSUME NEW s \in Seq(EntryType), Ascending(s), NEW e \in EntryType,
         \A i \in 1 .. Len(s) : s[i].key # e.key
  PROVE  LET r == sortEntries(Append(s, e))
         IN  /\ r \in Seq(EntryType) /\ Len(r) = Len(s) + 1
             /\ Ascending(r) /\ ToSet(r) = ToSet(s) \cup {e}
<1>1. e.key \in Int
  BY DEF EntryType
<1>2. PICK m : At(s, e.key, m)
  BY <1>1, Position
<1>3. m \in 0 .. Len(s)
  BY <1>2 DEF At
<1>4. \A i \in 1 .. Len(s) : s[i].key \in Int
  <2>1. \A i \in 1 .. Len(s) : s[i] \in EntryType
    OBVIOUS
  <2> QED
    BY <2>1 DEF EntryType
<1>5. \A i \in 1 .. m : s[i].key < e.key
  BY <1>1, <1>2, <1>4 DEF At
<1>6. \A i \in m + 1 .. Len(s) : e.key < s[i].key
  BY <1>1, <1>2, <1>4 DEF At
<1> DEFINE r == Inserting(s, e, m)
<1>7. sortEntries(Append(s, e)) = r
  BY <1>3, <1>5, <1>6, SortedInsert
<1>8. /\ r \in Seq(EntryType) /\ Len(r) = Len(s) + 1 /\ Ascending(r)
      /\ \A i \in 1 .. Len(s) : \E j \in 1 .. Len(s) + 1 : r[j] = s[i]
      /\ \E j \in 1 .. Len(s) + 1 : r[j] = e
      /\ \A j \in 1 .. Len(s) + 1 : r[j] = e \/ \E i \in 1 .. Len(s) : r[j] = s[i]
  <2>1. s \in Seq(EntryType) /\ m \in 0 .. Len(s) /\ Ascending(s)
    BY <1>3, <1>5, <1>6
  <2>2. HasInserted(s, e, r)
    BY <1>3, <1>5, <1>6, <2>1, InsertingFacts
  <2> QED
    BY <2>2 DEF HasInserted
<1> HIDE DEF r
<1>9. DOMAIN r = 1 .. Len(s) + 1 /\ DOMAIN s = 1 .. Len(s)
  BY <1>8
<1>10. ToSet(r) = ToSet(s) \cup {e}
  <2>1. ToSet(r) = {r[j] : j \in 1 .. Len(s) + 1} /\ ToSet(s) = {s[i] : i \in 1 .. Len(s)}
    BY <1>9, Zenon DEF ToSet
  <2> QED
    BY <1>8, <2>1
<1> QED
  BY <1>7, <1>8, <1>10

\* The halves of the entries of a leaf, and the key that divides them.
Halves(s, mid, n) ==
  LET up == s[mid + 1].key
      left == SubSeq(s, 1, mid)
      right == SubSeq(s, mid + 1, Len(s))
  IN  /\ up \in Int /\ up # 0 /\ s[1].key < up
      /\ Fits(left, n) /\ left # <<>> /\ Ascending(left)
      /\ ToSet(left) = {e \in ToSet(s) : e.key < up}
      /\ Fits(right, n) /\ right # <<>> /\ Ascending(right)
      /\ ToSet(right) = {e \in ToSet(s) : e.key >= up}

\* insertLeaf: what is before and after the split index, each with its entries.
LEMMA LeafHalves ==
  ASSUME NEW n \in Nat, NEW mid \in 1 .. n, NEW s, Fits(s, n + 1), Len(s) = n + 1, Ascending(s)
  PROVE  Halves(s, mid, n)
<1> DEFINE up == s[mid + 1].key
           left == SubSeq(s, 1, mid)
           right == SubSeq(s, mid + 1, Len(s))
<1> SUFFICES /\ up \in Int /\ up # 0 /\ s[1].key < up
             /\ Fits(left, n) /\ left # <<>> /\ Ascending(left)
             /\ ToSet(left) = {e \in ToSet(s) : e.key < up}
             /\ Fits(right, n) /\ right # <<>> /\ Ascending(right)
             /\ ToSet(right) = {e \in ToSet(s) : e.key >= up}
  BY DEF Halves
<1>1. s \in Seq(EntryType) /\ \A i \in 1 .. n + 1 : s[i].key # 0
  BY DEF Fits
<1>2. \A i \in 1 .. n + 1 : s[i].key \in Int
  <2>1. \A i \in 1 .. n + 1 : s[i] \in EntryType
    BY <1>1
  <2> QED
    BY <2>1 DEF EntryType
<1>3. \A i, j \in 1 .. n + 1 : i < j => s[i].key < s[j].key
  BY DEF Ascending
<1>4. mid + 1 \in 1 .. n + 1 /\ mid \in Nat /\ 1 \in 1 .. n + 1 /\ 1 < mid + 1
  OBVIOUS
<1>5. up \in Int /\ up # 0 /\ s[1].key < up
  BY <1>1, <1>2, <1>3, <1>4
<1>6. left \in Seq(EntryType) /\ Len(left) = mid /\ \A i \in 1 .. mid : left[i] = s[i]
  BY <1>1, <1>4
<1>7. /\ right \in Seq(EntryType) /\ Len(right) = n + 1 - mid
      /\ \A i \in 1 .. n + 1 - mid : right[i] = s[mid + i]
  BY <1>1, <1>4
<1> HIDE DEF left, right, up
<1>8. \A i \in 1 .. mid : i \in 1 .. n + 1
  BY <1>4
<1>9. \A i \in 1 .. n + 1 - mid : mid + i \in 1 .. n + 1
  BY <1>4
<1>10. Fits(left, n) /\ left # <<>>
  <2>1. \A i \in 1 .. mid : left[i].key # 0
    BY <1>1, <1>6, <1>8
  <2>2. left # <<>>
    BY <1>6
  <2> QED
    BY <1>6, <2>1, <2>2 DEF Fits
<1>11. Fits(right, n) /\ right # <<>>
  <2>1. \A i \in 1 .. n + 1 - mid : right[i].key # 0
    BY <1>1, <1>7, <1>9
  <2>2. right # <<>>
    BY <1>7
  <2>3. n + 1 - mid <= n
    OBVIOUS
  <2> QED
    BY <1>7, <2>1, <2>2, <2>3 DEF Fits
<1>12. Ascending(left)
  BY <1>3, <1>6, <1>8 DEF Ascending
<1>13. Ascending(right)
  <2>1. SUFFICES ASSUME NEW i \in 1 .. n + 1 - mid, NEW j \in 1 .. n + 1 - mid, i < j
                 PROVE  right[i].key < right[j].key
    BY <1>7 DEF Ascending
  <2>2. mid + i \in 1 .. n + 1 /\ mid + j \in 1 .. n + 1 /\ mid + i < mid + j
    BY <1>4, <2>1
  <2> QED
    BY <1>3, <1>7, <2>2
<1>14. DOMAIN s = 1 .. n + 1 /\ DOMAIN left = 1 .. mid /\ DOMAIN right = 1 .. n + 1 - mid
  BY <1>1, <1>6, <1>7
<1>15. \A i \in 1 .. n + 1 : s[i].key < up <=> i \in 1 .. mid
  <2>1. SUFFICES ASSUME NEW i \in 1 .. n + 1
                 PROVE  s[i].key < up <=> i \in 1 .. mid
    OBVIOUS
  <2>2. CASE i < mid + 1
    BY <1>3, <1>4, <2>2 DEF up
  <2>3. CASE i = mid + 1
    BY <1>2, <1>4, <2>3 DEF up
  <2>4. CASE mid + 1 < i
    BY <1>2, <1>3, <1>4, <2>4 DEF up
  <2> QED
    BY <1>4, <2>2, <2>3, <2>4
<1>16. ToSet(left) = {e \in ToSet(s) : e.key < up}
  <2>1. \A i \in 1 .. mid : left[i] \in ToSet(s) /\ left[i].key < up
    BY <1>6, <1>8, <1>14, <1>15 DEF ToSet
  <2>2. \A e \in ToSet(s) : e.key < up => \E i \in 1 .. mid : left[i] = e
    BY <1>6, <1>14, <1>15 DEF ToSet
  <2> QED
    BY <1>14, <2>1, <2>2 DEF ToSet
<1>17. ToSet(right) = {e \in ToSet(s) : e.key >= up}
  <2>1. \A i \in 1 .. n + 1 - mid : right[i] \in ToSet(s) /\ right[i].key >= up
    <3>1. SUFFICES ASSUME NEW i \in 1 .. n + 1 - mid
                   PROVE  right[i] \in ToSet(s) /\ right[i].key >= up
      OBVIOUS
    <3>2. mid + i \in 1 .. n + 1 /\ mid + i \notin 1 .. mid
      BY <1>4
    <3>3. ~ (s[mid + i].key < up) /\ s[mid + i].key \in Int
      BY <1>2, <1>15, <3>2
    <3>4. right[i] = s[mid + i] /\ s[mid + i] \in ToSet(s)
      BY <1>7, <1>14, <3>2 DEF ToSet
    <3> QED
      BY <1>5, <3>3, <3>4
  <2>2. ASSUME NEW e \in ToSet(s), e.key >= up
        PROVE  \E i \in 1 .. n + 1 - mid : right[i] = e
    <3>1. PICK j \in 1 .. n + 1 : e = s[j]
      BY <1>14 DEF ToSet
    <3>2. j \notin 1 .. mid
      BY <1>2, <1>5, <1>15, <2>2, <3>1
    <3>3. j - mid \in 1 .. n + 1 - mid /\ mid + (j - mid) = j
      BY <1>4, <3>2
    <3> QED
      BY <1>7, <3>1, <3>3
  <2> QED
    BY <1>14, <2>1, <2>2 DEF ToSet
<1> QED
  BY <1>5, <1>10, <1>11, <1>12, <1>13, <1>16, <1>17

-----------------------------------------------------------------------------
(* Levels, and a block of a level divided                                  *)

\* P[l][k] is the block on level l on the way down for the key k.  The levels share
\* no block; keys that meet on a level have met on the levels above it; between two
\* keys of a block are keys of that block; and every block is on the way for some
\* key.  The root is level 0 and the leaves are level d.
Paths(P, d, last) ==
  /\ P \in [0 .. d -> [Int -> 1 .. last]]
  /\ \A l, m \in 0 .. d : \A j, k \in Int : P[l][j] = P[m][k] => l = m
  /\ \A l \in 1 .. d : \A j, k \in Int : P[l][j] = P[l][k] => P[l - 1][j] = P[l - 1][k]
  /\ \A l \in 0 .. d : \A i, j, k \in Int :
       i <= j /\ j <= k /\ P[l][i] = P[l][k] => P[l][j] = P[l][i]
  /\ \A id \in 1 .. last : \E l \in 0 .. d : \E k \in Int : P[l][k] = id

\* On level l the keys from s on lead to new where they led to id.
Divide(P, l, id, s, new) ==
  [m \in DOMAIN P |->
    [k \in Int |-> IF m = l /\ P[m][k] = id /\ k >= s THEN new ELSE P[m][k]]]

\* The levels as they were before new was split from id.
Whole(P, l, new, id) ==
  [m \in DOMAIN P |-> [k \in Int |-> IF m = l /\ P[m][k] = new THEN id ELSE P[m][k]]]

\* A level may be divided where the levels above and below it allow it.
LEMMA DividePaths ==
  ASSUME NEW d \in Nat, NEW last \in Nat, NEW P, Paths(P, d, last), NEW l \in 0 .. d,
         NEW s \in Int, \E k \in Int : k < s /\ P[l][k] = P[l][s],
         l < d => \A j, k \in Int :
                    P[l][j] = P[l][s] /\ P[l + 1][j] = P[l + 1][k] => (j < s <=> k < s)
  PROVE  Paths(Divide(P, l, P[l][s], s, last + 1), d, last + 1)
<1> DEFINE new == last + 1
           id == P[l][s]
           Q == Divide(P, l, id, s, new)
<1>1. P \in [0 .. d -> [Int -> 1 .. last]]
  BY DEF Paths
<1>0. PICK k0 \in Int : k0 < s /\ P[l][k0] = P[l][s]
  OBVIOUS
<1>2. \A m \in 0 .. d : \A k \in Int : P[m][k] \in 1 .. last
  BY <1>1
<1>3. new \in Nat /\ \A x \in 1 .. last : x \in 1 .. new /\ x # new
  OBVIOUS
<1>4. id \in 1 .. last
  BY <1>2
<1>5. Q = [m \in 0 .. d |->
            [k \in Int |-> IF m = l /\ P[m][k] = id /\ k >= s THEN new ELSE P[m][k]]]
  BY <1>1 DEF Divide
<1>6. \A m \in 0 .. d : \A k \in Int :
        Q[m][k] = IF m = l /\ P[m][k] = id /\ k >= s THEN new ELSE P[m][k]
  BY <1>5
<1> HIDE DEF Q, id, new
<1>7. Q \in [0 .. d -> [Int -> 1 .. new]]
  BY <1>2, <1>3, <1>5 DEF new
<1>8. \A m, n \in 0 .. d : \A j, k \in Int : Q[m][j] = Q[n][k] => m = n
  <2>1. SUFFICES ASSUME NEW m \in 0 .. d, NEW n \in 0 .. d, NEW j \in Int, NEW k \in Int,
                        Q[m][j] = Q[n][k]
                 PROVE  m = n
    OBVIOUS
  <2>2. P[m][j] = P[n][k] => m = n
    BY DEF Paths
  <2>3. /\ Q[m][j] = IF m = l /\ P[m][j] = id /\ j >= s THEN new ELSE P[m][j]
        /\ Q[n][k] = IF n = l /\ P[n][k] = id /\ k >= s THEN new ELSE P[n][k]
        /\ P[m][j] # new /\ P[n][k] # new
    BY <1>2, <1>3, <1>6
  <2> QED
    BY <2>1, <2>2, <2>3
<1>9. \A m \in 1 .. d : \A j, k \in Int : Q[m][j] = Q[m][k] => Q[m - 1][j] = Q[m - 1][k]
  <2>1. SUFFICES ASSUME NEW m \in 1 .. d, NEW j \in Int, NEW k \in Int, Q[m][j] = Q[m][k]
                 PROVE  Q[m - 1][j] = Q[m - 1][k]
    OBVIOUS
  <2>2. m \in 0 .. d /\ m - 1 \in 0 .. d /\ m \in Int
    OBVIOUS
  <2>3. /\ Q[m][j] = IF m = l /\ P[m][j] = id /\ j >= s THEN new ELSE P[m][j]
        /\ Q[m][k] = IF m = l /\ P[m][k] = id /\ k >= s THEN new ELSE P[m][k]
        /\ P[m][j] # new /\ P[m][k] # new
    BY <1>2, <1>3, <1>6, <2>2
  <2>4. P[m][j] = P[m][k]
    BY <2>1, <2>3
  <2>5. P[m - 1][j] = P[m - 1][k]
    BY <2>4 DEF Paths
  <2>6. CASE m - 1 = l
    <3>1. m = l + 1 /\ l < d
      BY <2>2, <2>6
    <3>2. P[l][j] = id => (j < s <=> k < s)
      BY <2>4, <3>1 DEF id
    <3>3. /\ Q[l][j] = IF P[l][j] = id /\ j >= s THEN new ELSE P[l][j]
          /\ Q[l][k] = IF P[l][k] = id /\ k >= s THEN new ELSE P[l][k]
      BY <1>6
    <3> QED
      BY <2>5, <2>6, <3>2, <3>3
  <2>7. CASE m - 1 # l
    BY <1>6, <2>2, <2>5, <2>7
  <2> QED
    BY <2>6, <2>7
<1>10. \A m \in 0 .. d : \A i, j, k \in Int :
         i <= j /\ j <= k /\ Q[m][i] = Q[m][k] => Q[m][j] = Q[m][i]
  <2>1. SUFFICES ASSUME NEW m \in 0 .. d, NEW i \in Int, NEW j \in Int, NEW k \in Int,
                        i <= j, j <= k, Q[m][i] = Q[m][k]
                 PROVE  Q[m][j] = Q[m][i]
    OBVIOUS
  <2>2. P[m][i] = P[m][k] => P[m][j] = P[m][i]
    <3>1. \A x, y, z \in Int : x <= y /\ y <= z /\ P[m][x] = P[m][z] => P[m][y] = P[m][x]
      BY Zenon DEF Paths
    <3> QED
      BY <2>1, <3>1
  <2>3. /\ Q[m][i] = IF m = l /\ P[m][i] = id /\ i >= s THEN new ELSE P[m][i]
        /\ Q[m][j] = IF m = l /\ P[m][j] = id /\ j >= s THEN new ELSE P[m][j]
        /\ Q[m][k] = IF m = l /\ P[m][k] = id /\ k >= s THEN new ELSE P[m][k]
        /\ P[m][i] # new /\ P[m][j] # new /\ P[m][k] # new
    BY <1>2, <1>3, <1>6
  <2>4. P[m][i] = P[m][k]
    BY <2>1, <2>3
  <2>5. P[m][j] = P[m][i]
    BY <2>2, <2>4
  <2>6. m = l /\ P[m][i] = id => (i >= s <=> k >= s)
    BY <2>1, <2>3, <2>4
  <2>7. CASE m = l /\ P[m][i] = id
    <3>1. (i >= s => j >= s) /\ (~ (k >= s) => ~ (j >= s)) /\ (i >= s <=> k >= s)
      BY <2>1, <2>6, <2>7
    <3> QED
      BY <2>3, <2>4, <2>5, <2>7, <3>1
  <2>8. CASE ~ (m = l /\ P[m][i] = id)
    BY <2>3, <2>5, <2>8
  <2> QED
    BY <2>7, <2>8
<1>11. \A x \in 1 .. new : \E m \in 0 .. d : \E k \in Int : Q[m][k] = x
  <2>1. SUFFICES ASSUME NEW x \in 1 .. new
                 PROVE  \E m \in 0 .. d : \E k \in Int : Q[m][k] = x
    OBVIOUS
  <2>2. CASE x = new
    BY <1>6, <2>2 DEF id
  <2>3. CASE x = id /\ x \in 1 .. last
    <3>1. Q[l][k0] = x
      BY <1>0, <1>6, <2>3 DEF id
    <3> QED
      BY <3>1
  <2>4. CASE x # id /\ x \in 1 .. last
    <3>1. PICK m \in 0 .. d, k \in Int : P[m][k] = x
      BY <2>4 DEF Paths
    <3>2. Q[m][k] = x
      BY <1>6, <2>4, <3>1
    <3> QED
      BY <3>2
  <2>5. x = new \/ x \in 1 .. last
    BY <1>3 DEF new
  <2> QED
    BY <2>2, <2>3, <2>4, <2>5
<1> QED
  BY <1>7, <1>8, <1>9, <1>10, <1>11 DEF Paths, Q, id, new

\* To make a divided level whole again is to undo the division.
LEMMA WholeDivide ==
  ASSUME NEW d \in Nat, NEW last \in Nat, NEW P, Paths(P, d, last),
         NEW l \in 0 .. d, NEW id, NEW s \in Int
  PROVE  Whole(Divide(P, l, id, s, last + 1), l, last + 1, id) = P
<1> DEFINE new == last + 1
           Q == Divide(P, l, id, s, new)
           W == Whole(Q, l, new, id)
<1>0. P \in [0 .. d -> [Int -> 1 .. last]]
  BY DEF Paths
<1>1. \A m \in 0 .. d : \A k \in Int : P[m][k] # new
  <2>1. \A m \in 0 .. d : \A k \in Int : P[m][k] \in 1 .. last
    BY <1>0
  <2>2. \A x \in 1 .. last : x # new
    BY <1>0
  <2> QED
    BY <2>1, <2>2
<1>2. Q = [m \in 0 .. d |->
            [k \in Int |-> IF m = l /\ P[m][k] = id /\ k >= s THEN new ELSE P[m][k]]]
  BY <1>0 DEF Divide
<1> HIDE DEF Q, new
<1>3. W = [m \in 0 .. d |-> [k \in Int |-> IF m = l /\ Q[m][k] = new THEN id ELSE Q[m][k]]]
  BY <1>2 DEF Whole
<1>4. \A m \in 0 .. d : \A k \in Int :
        (IF m = l /\ Q[m][k] = new THEN id ELSE Q[m][k]) = P[m][k]
  BY <1>1, <1>2
<1>5. W = [m \in 0 .. d |-> [k \in Int |-> P[m][k]]]
  BY <1>3, <1>4
<1>6. \A m \in 0 .. d : P[m] = [k \in Int |-> P[m][k]]
  BY <1>0
<1>7. P = [m \in 0 .. d |-> P[m]]
  BY <1>0
<1> QED
  BY <1>5, <1>6, <1>7 DEF Q, new

-----------------------------------------------------------------------------
(* The tree: what its blocks say of the entries                            *)

\* The leaf that holds k is followed by the leaf of the first key beyond it.
Chained(p, k, next) ==
  \/ next = 0 /\ \A j \in Int : j >= k => p[j] = p[k]
  \/ \E b \in Int :
       /\ k < b /\ p[b] = next /\ p[b] # p[k]
       /\ \A j \in Int : k <= j /\ j < b => p[j] = p[k]

\* The entries of S whose keys p leads to a block.
Under(S, p, id) == {e \in S : p[e.key] = id}

\* entries are the entries of S under a block, in key order.
Lists(entries, room, S, p, id) ==
  /\ Fits(entries, room) /\ Ascending(entries)
  /\ entries # <<>>
  /\ ToSet(entries) = Under(S, p, id)

\* The leaf that p leads to with k has the entries of its keys, and the chain goes on
\* with the next leaf.
LeafHolds(t, S, p, k) ==
  LET leaf == readLeaf(t, p[k])
  IN  /\ Lists(leaf.entries, t.capacity, S, p, p[k])
      /\ leaf.next \in Int /\ Chained(p, k, leaf.next)

\* What the separators of a node say.
Bounds(S, p, k, node) ==
  \A i \in 1 .. Len(node.separators) :
    LET s == node.separators[i].key
    IN  /\ p[s] = p[k]
        /\ \E j \in Int : j < s /\ p[j] = p[k]
        /\ \E e \in S : e.key = s

\* The node that p leads to with k goes on to the block that w leads to.
NodeHolds(t, S, p, w, k) ==
  LET node == readInternal(t, p[k])
  IN  GoodNode(node, t.capacity) /\ Bounds(S, p, k, node) /\ child(node, k) = w[k]

\* t has the entries S.  P are the levels the blocks are on, and W those that the
\* nodes above lead to: the two differ while a split has not reached the next level.
Tree(t, S, P, W) ==
  /\ Sound(t)
  /\ Paths(P, t.depth, t.numOfNodes)
  /\ \A k \in Int : LeafHolds(t, S, P[t.depth], k)
  /\ \A l \in 0 .. t.depth - 1 : \A k \in Int : NodeHolds(t, S, P[l], W[l + 1], k)
  /\ \A k \in Int : W[0][k] = t.rootBID

\* A tree that no split is left to do in.
Held(t, S, P) == Tree(t, S, P, P) /\ t.promoted = NO_SPLIT

\* id on level l has been split: new has its keys from that of the promoted entry
\* on, and nothing above leads to new yet.
Pending(t, S, P, l, id) ==
  LET s   == t.promoted.key
      new == t.numOfNodes
  IN  /\ Tree(t, S, P, Whole(P, l, new, id))
      /\ t.promoted.value = new /\ s # 0
      /\ l \in 0 .. t.depth /\ id \in 1 .. new - 1
      /\ \A k \in Int : P[l][k] = new => k >= s
      /\ \A k \in Int : P[l][k] = id => k < s
      /\ P[l][s] = new
      /\ \E k \in Int : k < s /\ P[l][k] = id
      /\ \E e \in S : e.key = s
      /\ l > 0 => \A j \in Int : P[l][j] = id => P[l - 1][j] = P[l - 1][s]

\* Between two keys of a block are keys of that block.
Convex(p) == \A i, j, k \in Int : i <= j /\ j <= k /\ p[i] = p[k] => p[j] = p[i]

\* q leads to new where p leads to id with a key from s on.
Divided(p, q, id, s, new) ==
  /\ s \in Int /\ p[s] = id /\ \E k \in Int : k < s /\ p[k] = id
  /\ \A k \in Int : p[k] # new
  /\ \A k \in Int : q[k] = IF p[k] = id /\ k >= s THEN new ELSE p[k]

\* insertLeaf: the chain of the leaves goes through the new leaf.
LEMMA ChainDivided ==
  ASSUME NEW p, NEW q, NEW id, NEW new, NEW s, Divided(p, q, id, s, new), Convex(p),
         NEW k \in Int, NEW next
  PROVE  /\ p[k] # id /\ Chained(p, k, next) => Chained(q, k, next)
         /\ p[k] = id /\ k < s => Chained(q, k, new)
         /\ p[k] = id /\ k >= s /\ Chained(p, k, next) => Chained(q, k, next)
<1>4. PICK k0 \in Int : k0 < s /\ p[k0] = id
  BY DEF Divided
<1>5. /\ s \in Int /\ p[s] = id
      /\ \A i, j, m \in Int : i <= j /\ j <= m /\ p[i] = p[m] => p[j] = p[i]
      /\ \A i \in Int : p[i] # new
      /\ \A i \in Int : q[i] = IF p[i] = id /\ i >= s THEN new ELSE p[i]
  BY DEF Divided, Convex
<1>1. ASSUME p[k] # id, Chained(p, k, next) PROVE Chained(q, k, next)
  <2>1. CASE next = 0 /\ \A j \in Int : j >= k => p[j] = p[k]
    BY <1>1, <1>5, <2>1 DEF Chained
  <2>2. ASSUME NEW b \in Int, k < b, p[b] = next, p[b] # p[k],
               \A j \in Int : k <= j /\ j < b => p[j] = p[k]
        PROVE  Chained(q, k, next)
    <3>1. p[b] = id => b < s
      <4>1. SUFFICES ASSUME p[b] = id, b >= s PROVE FALSE
        BY <1>5
      <4>2. CASE k0 < k
        <5>1. k0 <= k /\ k <= b /\ p[k0] = p[b]
          BY <1>4, <1>5, <2>2, <4>1, <4>2
        <5> QED
          BY <1>1, <1>4, <1>5, <5>1
      <4>3. CASE k <= k0
        <5>1. k0 < b
          BY <1>4, <1>5, <4>1
        <5> QED
          BY <1>1, <1>4, <1>5, <2>2, <4>3, <5>1
      <4> QED
        BY <1>4, <4>2, <4>3
    <3>2. q[b] = p[b] /\ q[k] = p[k]
      BY <1>1, <1>5, <3>1
    <3>3. \A j \in Int : k <= j /\ j < b => q[j] = q[k]
      BY <1>1, <1>5, <2>2, <3>2
    <3> QED
      BY <2>2, <3>2, <3>3 DEF Chained
  <2> QED
    BY <1>1, <2>1, <2>2 DEF Chained
<1>2. ASSUME p[k] = id, k < s PROVE Chained(q, k, new)
  <2>1. q[s] = new /\ q[k] = id /\ id # new
    BY <1>2, <1>5
  <2>2. \A j \in Int : k <= j /\ j < s => q[j] = q[k]
    <3>1. SUFFICES ASSUME NEW j \in Int, k <= j, j < s PROVE q[j] = q[k]
      OBVIOUS
    <3>2. p[j] = p[k]
      BY <1>2, <1>5, <3>1
    <3> QED
      BY <1>2, <1>5, <2>1, <3>1, <3>2
  <2> QED
    BY <1>2, <1>5, <2>1, <2>2 DEF Chained
<1>3. ASSUME p[k] = id, k >= s, Chained(p, k, next) PROVE Chained(q, k, next)
  <2>1. q[k] = new
    BY <1>3, <1>5
  <2>2. CASE next = 0 /\ \A j \in Int : j >= k => p[j] = p[k]
    <3>1. \A j \in Int : j >= k => q[j] = q[k]
      BY <1>3, <1>5, <2>1, <2>2
    <3> QED
      BY <2>2, <3>1 DEF Chained
  <2>3. ASSUME NEW b \in Int, k < b, p[b] = next, p[b] # p[k],
               \A j \in Int : k <= j /\ j < b => p[j] = p[k]
        PROVE  Chained(q, k, next)
    <3>1. q[b] = p[b] /\ q[b] # q[k]
      BY <1>3, <1>5, <2>1, <2>3
    <3>2. \A j \in Int : k <= j /\ j < b => q[j] = q[k]
      BY <1>3, <1>5, <2>1, <2>3
    <3> QED
      BY <2>3, <3>1, <3>2 DEF Chained
  <2> QED
    BY <1>3, <2>2, <2>3 DEF Chained
<1> QED
  BY <1>1, <1>2, <1>3

\* A node whose block is the same holds as before, with more entries too.
LEMMA NodeKept ==
  ASSUME NEW t, NEW u, NEW S, NEW T, S \subseteq T, NEW p, NEW w, NEW k,
         NodeHolds(t, S, p, w, k), u.capacity = t.capacity,
         readInternal(u, p[k]) = readInternal(t, p[k])
  PROVE  NodeHolds(u, T, p, w, k)
<1>1. Bounds(S, p, k, readInternal(t, p[k])) => Bounds(T, p, k, readInternal(t, p[k]))
  BY DEF Bounds
<1> QED
  BY <1>1 DEF NodeHolds

\* Every block on a level is a block of the file, and the levels share none.
Within(P, d, last) == \A l \in 0 .. d : \A k \in Int : P[l][k] \in 1 .. last
Apart(P, d) == \A l, m \in 0 .. d : \A j, k \in Int : l # m => P[l][j] # P[m][k]

\* What the levels say, clause by clause.
LEMMA OnLevels ==
  ASSUME NEW P, NEW d \in Nat, NEW last, Paths(P, d, last)
  PROVE  /\ P \in [0 .. d -> [Int -> 1 .. last]]
         /\ Within(P, d, last) /\ Apart(P, d)
         /\ \A l \in 0 .. d : Convex(P[l])
<1>1. P \in [0 .. d -> [Int -> 1 .. last]]
  BY DEF Paths
<1>2. \A l \in 0 .. d : \A k \in Int : P[l][k] \in 1 .. last
  BY <1>1
<1>3. \A l, m \in 0 .. d : \A j, k \in Int : P[l][j] = P[m][k] => l = m
  BY Zenon DEF Paths
<1>4. \A l, m \in 0 .. d : \A j, k \in Int : l # m => P[l][j] # P[m][k]
  BY <1>3
<1>5. \A l \in 0 .. d : \A i, j, k \in Int :
        i <= j /\ j <= k /\ P[l][i] = P[l][k] => P[l][j] = P[l][i]
  BY Zenon DEF Paths
<1> QED
  BY <1>1, <1>2, <1>4, <1>5, Zenon DEF Within, Apart, Convex

\* The members of a sequence are at its indices.
LEMMA ToSetIs ==
  ASSUME NEW s \in Seq(EntryType)
  PROVE  /\ ToSet(s) = {s[i] : i \in 1 .. Len(s)}
         /\ \A i \in 1 .. Len(s) : s[i] \in ToSet(s)
         /\ \A x \in ToSet(s) : \E i \in 1 .. Len(s) : s[i] = x
<1>1. DOMAIN s = 1 .. Len(s)
  OBVIOUS
<1>2. ToSet(s) = {s[i] : i \in 1 .. Len(s)}
  BY <1>1, Zenon DEF ToSet
<1> QED
  BY <1>2

\* The entries of a leaf with one more.
WithEntry(t, e, id) == sortEntries(Append(readLeaf(t, id).entries, e))

\* An entry that may be inserted: its key is not 0 and not in S.
New(S, e) ==
  /\ S \subseteq EntryType
  /\ e \in EntryType /\ e.key # 0
  /\ \A x \in S : x.key # e.key

-----------------------------------------------------------------------------
(* An entry put into its leaf                                              *)

\* insertLeaf: the leaf on the way for the key lists its entries with the new one.
LEMMA LeafAdds ==
  ASSUME NEW t, NEW S, NEW p \in [Int -> Int], NEW e, New(S, e), t.capacity \in Nat,
         LeafHolds(t, S, p, e.key)
  PROVE  Lists(WithEntry(t, e, p[e.key]), t.capacity + 1, S \cup {e}, p, p[e.key])
<1> DEFINE id == p[e.key]
           a == readLeaf(t, id).entries
           s == WithEntry(t, e, id)
<1>1. a \in Seq(EntryType) /\ Ascending(a) /\ Len(a) <= t.capacity
      /\ \A i \in 1 .. Len(a) : a[i].key # 0
  BY DEF LeafHolds, Lists, Fits
<1>2. ToSet(a) = Under(S, p, id)
  BY DEF LeafHolds, Lists
<1> HIDE DEF a, id
<1>3. \A i \in 1 .. Len(a) : a[i] \in S
  <2>1. \A i \in 1 .. Len(a) : a[i] \in ToSet(a)
    BY <1>1, ToSetIs
  <2> QED
    BY <1>2, <2>1 DEF Under
<1>4. \A i \in 1 .. Len(a) : a[i].key # e.key
  BY <1>3 DEF New
<1>5. /\ s \in Seq(EntryType) /\ Len(s) = Len(a) + 1
      /\ Ascending(s) /\ ToSet(s) = ToSet(a) \cup {e}
  BY <1>1, <1>4, SortAdds DEF New, WithEntry, a
<1>6. ToSet(s) = Under(S \cup {e}, p, id)
  BY <1>2, <1>5 DEF id, Under
<1>7. \A i \in 1 .. Len(s) : s[i].key # 0
  <2>1. SUFFICES ASSUME NEW i \in 1 .. Len(s) PROVE s[i].key # 0
    OBVIOUS
  <2>2. s[i] \in ToSet(a) \cup {e}
    <3> HIDE DEF s
    <3>1. s[i] \in ToSet(s)
      BY <1>5, ToSetIs
    <3> QED
      BY <1>5, <3>1
  <2>3. \A x \in ToSet(a) : \E j \in 1 .. Len(a) : a[j] = x
    BY <1>1, ToSetIs
  <2> QED
    BY <1>1, <2>2, <2>3 DEF New
<1> HIDE DEF s
<1>8. Fits(s, t.capacity + 1) /\ s # <<>>
  <2>1. Len(a) \in Nat /\ Len(a) <= t.capacity /\ Len(s) = Len(a) + 1
    BY <1>1, <1>5
  <2>2. \A x \in Nat : \A y : x <= t.capacity /\ y = x + 1 =>
          y \in Nat /\ y > 0 /\ y <= t.capacity + 1
    OBVIOUS
  <2>3. Len(s) \in Nat /\ Len(s) > 0 /\ Len(s) <= t.capacity + 1
    BY <2>1, <2>2, Zenon
  <2> QED
    BY <1>5, <1>7, <2>3 DEF Fits
<1> QED
  BY <1>5, <1>6, <1>8 DEF id, s, Lists

\* What a tree says, clause by clause.
LEMMA TreeFacts ==
  ASSUME NEW t, NEW S, NEW P, NEW W, Tree(t, S, P, W)
  PROVE  /\ Sound(t) /\ t.capacity \in Nat \ {0} /\ t.depth \in Nat /\ t.numOfNodes \in Nat
         /\ t.rootBID \in Int /\ Paths(P, t.depth, t.numOfNodes)
         /\ P[t.depth] \in [Int -> Int]
         /\ \A k \in Int : LeafHolds(t, S, P[t.depth], k)
         /\ \A l \in 0 .. t.depth - 1 : \A k \in Int : NodeHolds(t, S, P[l], W[l + 1], k)
         /\ \A k \in Int : W[0][k] = t.rootBID
<1>1. /\ Sound(t) /\ t.capacity \in Nat \ {0} /\ t.depth \in Nat /\ t.numOfNodes \in Nat
      /\ t.rootBID \in Int
  <2>1. t \in TreeType /\ Sound(t) /\ Len(t.blocks) = t.numOfNodes
    BY DEF Tree, Sound
  <2> QED
    BY <2>1 DEF TreeType
<1>2. Paths(P, t.depth, t.numOfNodes)
  BY DEF Tree
<1>3. P \in [0 .. t.depth -> [Int -> 1 .. t.numOfNodes]]
  BY <1>1, <1>2, OnLevels, Zenon
<1>4. P[t.depth] \in [Int -> Int]
  <2>1. t.depth \in 0 .. t.depth
    BY <1>1
  <2>2. P[t.depth] \in [Int -> 1 .. t.numOfNodes]
    BY <1>3, <2>1
  <2> QED
    BY <1>1, <2>2
<1> QED
  BY <1>1, <1>2, <1>4 DEF Tree

\* v is a tree at rest for S, with the room in its blocks that t has.
Becomes(v, t, S) == v.capacity = t.capacity /\ \E R : Held(v, S, R)

\* insertLeaf: where the leaf has room, the tree holds one entry more.
LEMMA InsertLeafFits ==
  ASSUME NEW t, NEW S, NEW P, NEW e, Held(t, S, P), New(S, e),
         Len(WithEntry(t, e, P[t.depth][e.key])) <= t.capacity
  PROVE  Becomes(insertLeaf(t, e, P[t.depth][e.key]), t, S \cup {e})
<1> DEFINE d == t.depth
           p == P[d]
           id == p[e.key]
           s == WithEntry(t, e, id)
           next == readLeaf(t, id).next
           T == S \cup {e}
           u == writeLeaf(t, id, s, next)
<1>1. e.key \in Int
  BY DEF New, EntryType
<1>0. Tree(t, S, P, P) /\ t.promoted = NO_SPLIT
  BY DEF Held
<1>a. t.capacity \in Nat \ {0} /\ t.capacity \in Nat /\ d \in Nat /\ t.numOfNodes \in Nat
  BY <1>0, TreeFacts
<1>b. Sound(t) /\ Paths(P, d, t.numOfNodes) /\ p \in [Int -> Int]
  BY <1>0, TreeFacts, Zenon
<1>2. /\ \A k \in Int : LeafHolds(t, S, p, k)
      /\ \A l \in 0 .. d - 1 : \A k \in Int : NodeHolds(t, S, P[l], P[l + 1], k)
      /\ \A k \in Int : P[0][k] = t.rootBID
  BY <1>0 DEF Tree
<1>3. /\ \A l \in 0 .. d : \A k \in Int : P[l][k] \in 1 .. t.numOfNodes
      /\ \A l, m \in 0 .. d : \A j, k \in Int : l # m => P[l][j] # P[m][k]
  <2>1. Within(P, d, t.numOfNodes) /\ Apart(P, d)
    BY <1>a, <1>b, OnLevels
  <2> QED
    BY <2>1 DEF Within, Apart
<1> HIDE DEF p
<1>4. d \in 0 .. d /\ \A k \in Int : p[k] \in 1 .. t.numOfNodes
  <2>1. d \in 0 .. d
    BY <1>a
  <2> QED
    BY <1>3, <2>1 DEF p
<1>5. Lists(s, t.capacity + 1, T, p, id)
  <2>1. LeafHolds(t, S, p, e.key)
    BY <1>1, <1>2
  <2> QED
    <3>1. New(S, e) /\ t.capacity \in Nat /\ p \in [Int -> Int]
      BY <1>a, <1>b
    <3> QED
      BY <2>1, <3>1, LeafAdds
<1>6. Fits(s, t.capacity)
  <2>1. Len(s) <= t.capacity
    BY DEF p
  <2> QED
    BY <1>5, <2>1 DEF Fits, Lists
<1>7. next \in Int /\ Chained(p, e.key, next)
  BY <1>1, <1>2 DEF LeafHolds
<1>8. /\ Sound(u) /\ Untouched(u, t, id)
      /\ u.numOfNodes = t.numOfNodes /\ u.promoted = t.promoted
      /\ readLeaf(u, id) = [entries |-> s, next |-> next]
  <2>1. id \in 1 .. t.numOfNodes
    BY <1>1, <1>4
  <2> HIDE DEF s, next, id
  <2>2. Sound(t) /\ Fits(s, t.capacity) /\ next \in Int
    BY <1>b, <1>6, <1>7
  <2> QED
    BY <2>1, <2>2, LeafFits
<1> HIDE DEF u
<1>9. u.capacity = t.capacity /\ u.depth = d /\ u.rootBID = t.rootBID
  BY <1>8 DEF Untouched
<1>10. ASSUME NEW k \in Int PROVE LeafHolds(u, T, p, k)
  <2>1. LeafHolds(t, S, p, k)
    BY <1>2
  <2>2. CASE p[k] = id
    <3>1. readLeaf(u, p[k]) = [entries |-> s, next |-> next]
      BY <1>8, <2>2
    <3>3. Chained(p, k, readLeaf(t, p[k]).next)
      BY <2>1 DEF LeafHolds
    <3>4. Chained(p, k, next)
      BY <2>2, <3>3
    <3> HIDE DEF s, next
    <3>5. readLeaf(u, p[k]).entries = s /\ readLeaf(u, p[k]).next = next
      BY <3>1
    <3>6. Lists(s, u.capacity, T, p, p[k])
      BY <1>5, <1>6, <1>9, <2>2 DEF Lists
    <3> HIDE DEF T
    <3> QED
      BY <1>7, <3>4, <3>5, <3>6 DEF LeafHolds
  <2>3. CASE p[k] # id
    <3>1. p[k] \in 1 .. t.numOfNodes
      BY <1>4
    <3>2. readLeaf(u, p[k]) = readLeaf(t, p[k])
      BY <1>8, <2>3, <3>1 DEF Untouched
    <3>3. Under(T, p, p[k]) = Under(S, p, p[k])
      BY <2>3 DEF Under
    <3> HIDE DEF T
    <3> QED
      BY <1>9, <2>1, <3>2, <3>3 DEF LeafHolds, Lists
  <2> QED
    BY <2>2, <2>3
<1>11. ASSUME NEW l \in 0 .. d - 1, NEW k \in Int PROVE NodeHolds(u, T, P[l], P[l + 1], k)
  <2>1. P[l][k] \in 1 .. t.numOfNodes /\ P[l][k] # id
    <3>1. l \in 0 .. d /\ l # d
      BY <1>a
    <3> QED
      BY <1>1, <1>3, <1>4, <3>1 DEF p
  <2>2. readInternal(u, P[l][k]) = readInternal(t, P[l][k])
    BY <1>8, <2>1 DEF Untouched
  <2>3. NodeHolds(t, S, P[l], P[l + 1], k)
    BY <1>2
  <2> QED
    BY <1>9, <2>2, <2>3, NodeKept
<1>12. Held(u, T, P)
  BY <1>0, <1>b, <1>2, <1>8, <1>9, <1>10, <1>11 DEF Held, Tree, p
<1>13. insertLeaf(t, e, id) = u
  BY DEF insertLeaf, WithEntry, u, p
<1>14. Becomes(u, t, T)
  BY <1>9, <1>12 DEF Becomes
<1> QED
  BY <1>13, <1>14 DEF p

\* The levels after a division, key by key.
LEMMA DivideAt ==
  ASSUME NEW d \in Nat, NEW last, NEW P, Paths(P, d, last),
         NEW l \in 0 .. d, NEW id, NEW s \in Int, NEW new,
         NEW Q, Q = Divide(P, l, id, s, new)
  PROVE  /\ \A k \in Int : Q[l][k] = IF P[l][k] = id /\ k >= s THEN new ELSE P[l][k]
         /\ \A m \in 0 .. d : m # l => Q[m] = P[m]
<1>0. P \in [0 .. d -> [Int -> 1 .. last]]
  BY DEF Paths
<1>1. Q = [m \in 0 .. d |->
            [k \in Int |-> IF m = l /\ P[m][k] = id /\ k >= s THEN new ELSE P[m][k]]]
  BY <1>0 DEF Divide
<1>2. \A m \in 0 .. d : P[m] = [k \in Int |-> P[m][k]]
  BY <1>0
<1>3. \A k \in Int : Q[l][k] = IF P[l][k] = id /\ k >= s THEN new ELSE P[l][k]
  BY <1>1
<1>4. ASSUME NEW m \in 0 .. d, m # l PROVE Q[m] = P[m]
  <2>1. Q[m] = [k \in Int |-> IF m = l /\ P[m][k] = id /\ k >= s THEN new ELSE P[m][k]]
    BY <1>1
  <2>2. Q[m] = [k \in Int |-> P[m][k]]
    BY <1>4, <2>1
  <2> QED
    BY <1>2, <2>2
<1> QED
  BY <1>3, <1>4

\* The entries under the blocks of a divided level.
Parted(S, p, q, id, s, new) ==
  /\ \A x : x # id /\ x # new => Under(S, q, x) = Under(S, p, x)
  /\ id # new => Under(S, q, id) = {e \in Under(S, p, id) : e.key < s}
  /\ Under(S, q, new) = {e \in Under(S, p, id) : e.key >= s}

\* A division parts the entries of one block and leaves the others.
LEMMA UnderDivided ==
  ASSUME NEW p \in [Int -> Int], NEW q, NEW id, NEW new, NEW s, Divided(p, q, id, s, new),
         NEW S, S \subseteq EntryType
  PROVE  Parted(S, p, q, id, s, new)
<1>1. \A e \in S : e.key \in Int
  BY DEF EntryType
<1>2. \A e \in S : q[e.key] = IF p[e.key] = id /\ e.key >= s THEN new ELSE p[e.key]
  BY <1>1 DEF Divided
<1>3. \A e \in S : p[e.key] # new
  BY <1>1 DEF Divided
<1>4. \A e \in S : ~ (e.key >= s) <=> e.key < s
  BY <1>1 DEF Divided
<1>5. ASSUME NEW x, x # id, x # new PROVE Under(S, q, x) = Under(S, p, x)
  <2>1. \A e \in S : q[e.key] = x <=> p[e.key] = x
    BY <1>2, <1>3, <1>5
  <2> QED
    BY <2>1 DEF Under
<1>6. ASSUME id # new PROVE Under(S, q, id) = {e \in Under(S, p, id) : e.key < s}
  <2>1. \A e \in S : q[e.key] = id <=> p[e.key] = id /\ e.key < s
    BY <1>2, <1>4, <1>6
  <2> QED
    BY <2>1 DEF Under
<1>7. Under(S, q, new) = {e \in Under(S, p, id) : e.key >= s}
  <2>1. \A e \in S : q[e.key] = new <=> p[e.key] = id /\ e.key >= s
    BY <1>2, <1>3
  <2> QED
    BY <2>1 DEF Under
<1> QED
  BY <1>5, <1>6, <1>7 DEF Parted

\* A leaf of t is two leaves of u.
Parts(t, u, S, p, id, new, s) ==
  LET left  == readLeaf(u, id)
      right == readLeaf(u, new)
  IN  /\ Fits(left.entries, t.capacity) /\ left.entries # <<>> /\ Ascending(left.entries)
      /\ ToSet(left.entries) = {e \in Under(S, p, id) : e.key < s}
      /\ left.next = new
      /\ Fits(right.entries, t.capacity) /\ right.entries # <<>> /\ Ascending(right.entries)
      /\ ToSet(right.entries) = {e \in Under(S, p, id) : e.key >= s}
      /\ right.next = readLeaf(t, id).next

\* After a split every key finds its leaf, with its entries and its successor.
LEMMA LeafDivided ==
  ASSUME NEW t, NEW u, u.capacity = t.capacity, NEW S, NEW T, T \subseteq EntryType,
         NEW p \in [Int -> Int], NEW q, NEW id, NEW new \in Int, NEW s,
         Divided(p, q, id, s, new), Convex(p),
         Parts(t, u, T, p, id, new, s),
         NEW k \in Int, LeafHolds(t, S, p, k),
         p[k] # id => readLeaf(u, p[k]) = readLeaf(t, p[k]) /\ Under(T, p, p[k]) = Under(S, p, p[k])
  PROVE  LeafHolds(u, T, q, k)
<1> DEFINE left == readLeaf(u, id).entries
           right == readLeaf(u, new).entries
<1>0. /\ Fits(left, t.capacity) /\ left # <<>> /\ Ascending(left)
      /\ ToSet(left) = {e \in Under(T, p, id) : e.key < s}
      /\ readLeaf(u, id).next = new
      /\ Fits(right, t.capacity) /\ right # <<>> /\ Ascending(right)
      /\ ToSet(right) = {e \in Under(T, p, id) : e.key >= s}
      /\ readLeaf(u, new).next = readLeaf(t, id).next
  BY DEF Parts
<1>1. /\ s \in Int /\ p[s] = id
      /\ \A j \in Int : p[j] # new
      /\ \A j \in Int : q[j] = IF p[j] = id /\ j >= s THEN new ELSE p[j]
  BY DEF Divided
<1>2. /\ p[k] # id /\ Chained(p, k, readLeaf(t, p[k]).next) => Chained(q, k, readLeaf(t, p[k]).next)
      /\ p[k] = id /\ k < s => Chained(q, k, new)
      /\ p[k] = id /\ k >= s /\ Chained(p, k, readLeaf(t, p[k]).next)
           => Chained(q, k, readLeaf(t, p[k]).next)
  <2> DEFINE next == readLeaf(t, p[k]).next
  <2> HIDE DEF next
  <2>1. p[k] # id /\ Chained(p, k, next) => Chained(q, k, next)
    BY ChainDivided
  <2>2. p[k] = id /\ k < s => Chained(q, k, new)
    BY ChainDivided
  <2>3. p[k] = id /\ k >= s /\ Chained(p, k, next) => Chained(q, k, next)
    BY ChainDivided
  <2> QED
    BY <2>1, <2>2, <2>3 DEF next
<1>3. /\ Lists(readLeaf(t, p[k]).entries, t.capacity, S, p, p[k])
      /\ readLeaf(t, p[k]).next \in Int /\ Chained(p, k, readLeaf(t, p[k]).next)
  BY DEF LeafHolds
<1>4. /\ \A x : x # id /\ x # new => Under(T, q, x) = Under(T, p, x)
      /\ id # new => Under(T, q, id) = {e \in Under(T, p, id) : e.key < s}
      /\ Under(T, q, new) = {e \in Under(T, p, id) : e.key >= s}
  <2>1. Parted(T, p, q, id, s, new)
    BY UnderDivided
  <2> QED
    BY <2>1 DEF Parted
<1>5. id # new
  BY <1>1
<1>6. CASE p[k] # id
  <2>1. q[k] = p[k]
    BY <1>1, <1>6
  <2>2. readLeaf(u, q[k]) = readLeaf(t, p[k])
    BY <1>6, <2>1
  <2>3. Under(T, q, q[k]) = Under(S, p, p[k])
    BY <1>1, <1>4, <1>6, <2>1
  <2>4. Lists(readLeaf(u, q[k]).entries, u.capacity, T, q, q[k])
    BY <1>3, <2>2, <2>3 DEF Lists
  <2> QED
    BY <1>2, <1>3, <1>6, <2>2, <2>4 DEF LeafHolds
<1>7. CASE p[k] = id /\ k < s
  <2>1. q[k] = id
    BY <1>1, <1>7
  <2>2. readLeaf(u, q[k]).entries = left /\ readLeaf(u, q[k]).next = new
    BY <1>0, <2>1
  <2>3. Lists(left, u.capacity, T, q, q[k])
    BY <1>0, <1>4, <1>5, <2>1 DEF Lists
  <2> QED
    BY <1>2, <1>7, <2>2, <2>3 DEF LeafHolds
<1>8. CASE p[k] = id /\ k >= s
  <2>1. q[k] = new
    BY <1>1, <1>8
  <2>2. readLeaf(u, q[k]).entries = right /\ readLeaf(u, q[k]).next = readLeaf(t, p[k]).next
    BY <1>0, <1>8, <2>1
  <2>3. Lists(right, u.capacity, T, q, q[k])
    BY <1>0, <1>4, <2>1 DEF Lists
  <2> QED
    BY <1>2, <1>3, <1>8, <2>2, <2>3 DEF LeafHolds
<1> QED
  BY <1>1, <1>6, <1>7, <1>8

\* A block on key's path has split: its level has one block more, and the
\* entry for it is on its way to the level above.
Split(u, t, S, P, key, l) ==
  /\ u.capacity = t.capacity /\ u.depth = t.depth /\ u.rootBID = t.rootBID
  /\ \E Q : /\ Pending(u, S, Q, l, P[l][key])
            /\ \A m \in 0 .. l - 1 : Q[m] = P[m]
            /\ Q[l][key] \in {P[l][key], u.numOfNodes}

\* insertLeaf: where the leaf has no room it splits, and the level above does not
\* know of it yet.
LEMMA InsertLeafSplits ==
  ASSUME NEW t, NEW S, NEW P, NEW e, Held(t, S, P), New(S, e),
         Len(WithEntry(t, e, P[t.depth][e.key])) > t.capacity
  PROVE  Split(insertLeaf(t, e, P[t.depth][e.key]), t, S \cup {e}, P, e.key, t.depth)
<1> DEFINE d == t.depth
           p == P[d]
           id == p[e.key]
           s == WithEntry(t, e, id)
           next == readLeaf(t, id).next
           T == S \cup {e}
           u == splitLeaf(t, id, s, next)
           mid == splitIndex(t)
           new == t.numOfNodes + 1
           up == s[mid + 1].key
           left == SubSeq(s, 1, mid)
           right == SubSeq(s, mid + 1, Len(s))
           Q == Divide(P, d, id, up, new)
           q == Q[d]
<1>1. e.key \in Int /\ T \subseteq EntryType
  BY DEF New, EntryType
<1>2. Tree(t, S, P, P) /\ t.promoted = NO_SPLIT
  BY DEF Held
<1>3. t.capacity \in Nat \ {0} /\ t.capacity \in Nat /\ d \in Nat /\ t.numOfNodes \in Nat
      /\ t.rootBID \in Int /\ new \in Nat
  <2>1. t.capacity \in Nat \ {0} /\ d \in Nat /\ t.numOfNodes \in Nat /\ t.rootBID \in Int
    BY <1>2, TreeFacts
  <2> QED
    BY <2>1
<1>4. Sound(t) /\ Paths(P, d, t.numOfNodes) /\ p \in [Int -> Int]
  BY <1>2, TreeFacts, Zenon
<1>5. /\ \A k \in Int : LeafHolds(t, S, p, k)
      /\ \A l \in 0 .. d - 1 : \A k \in Int : NodeHolds(t, S, P[l], P[l + 1], k)
      /\ \A k \in Int : P[0][k] = t.rootBID
  BY <1>2 DEF Tree
<1>6. insertLeaf(t, e, id) = u
  <2>1. ~ (Len(s) <= t.capacity)
    <3>1. LeafHolds(t, S, p, e.key)
      BY <1>1, <1>5
    <3>2. Lists(s, t.capacity + 1, T, p, id)
      <4> HIDE DEF p
      <4> QED
        BY <1>3, <1>4, <3>1, LeafAdds
    <3>3. Len(s) \in Nat
      <4> HIDE DEF s
      <4> QED
        BY <3>2 DEF Lists, Fits
    <3>4. Len(s) > t.capacity
      OBVIOUS
    <3> HIDE DEF s
    <3> QED
      BY <1>3, <3>3, <3>4
  <2> QED
    BY <2>1 DEF insertLeaf, WithEntry
<1>7. P \in [0 .. d -> [Int -> 1 .. t.numOfNodes]]
      /\ Within(P, d, t.numOfNodes) /\ Apart(P, d) /\ Convex(p)
  <2>1. d \in 0 .. d
    BY <1>3
  <2> QED
    BY <1>3, <1>4, <2>1, OnLevels
<1>8. \A k \in Int : p[k] \in 1 .. t.numOfNodes /\ p[k] # new
  <2>1. d \in 0 .. d
    BY <1>3
  <2>2. \A k \in Int : p[k] \in 1 .. t.numOfNodes
    BY <1>7, <2>1 DEF Within
  <2> QED
    BY <1>3, <2>2
<1>9. id \in 1 .. t.numOfNodes
  BY <1>1, <1>8
<1>a. p = P[d] /\ id = p[e.key]
  OBVIOUS
<1>b. Len(s) > t.capacity
  OBVIOUS
<1> HIDE DEF p
<1>10. Lists(s, t.capacity + 1, T, p, id) /\ next \in Int
  <2>1. LeafHolds(t, S, p, e.key)
    BY <1>1, <1>5
  <2>2. Lists(s, t.capacity + 1, T, p, id)
    BY <1>3, <1>4, <2>1, LeafAdds
  <2> QED
    BY <2>1, <2>2 DEF LeafHolds
<1> HIDE DEF s, id, next
<1>11. Fits(s, t.capacity + 1) /\ Ascending(s) /\ ToSet(s) = Under(T, p, id)
       /\ s \in Seq(EntryType)
  BY <1>10 DEF Lists, Fits
<1>12. Len(s) = t.capacity + 1
  <2>1. Len(s) \in Nat /\ Len(s) <= t.capacity + 1
    BY <1>11 DEF Fits
  <2> QED
    BY <1>3, <1>b, <2>1
<1>13. mid \in 1 .. t.capacity
  <2>1. t \in TreeType
    BY <1>4 DEF Sound
  <2> QED
    BY <2>1, SplitIndex
<1>14. /\ Sound(u) /\ Untouched(u, t, id)
       /\ u.numOfNodes = new /\ u.promoted = Entry(up, new)
       /\ readLeaf(u, id) = [entries |-> left, next |-> new]
       /\ readLeaf(u, new) = [entries |-> right, next |-> next]
  BY <1>4, <1>9, <1>10, <1>11, <1>12, LeafSplit
<1> HIDE DEF mid, u
<1>15. /\ up \in Int /\ up # 0 /\ s[1].key < up
       /\ Fits(left, t.capacity) /\ left # <<>> /\ Ascending(left)
       /\ ToSet(left) = {x \in ToSet(s) : x.key < up}
       /\ Fits(right, t.capacity) /\ right # <<>> /\ Ascending(right)
       /\ ToSet(right) = {x \in ToSet(s) : x.key >= up}
  <2>1. Halves(s, mid, t.capacity)
    BY <1>3, <1>11, <1>12, <1>13, LeafHalves
  <2> QED
    BY <2>1 DEF Halves
<1>16. s[1] \in Under(T, p, id) /\ s[mid + 1] \in Under(T, p, id)
  <2>1. 1 \in 1 .. Len(s) /\ mid + 1 \in 1 .. Len(s)
    BY <1>3, <1>12, <1>13
  <2> QED
    BY <1>11, <2>1, ToSetIs
<1>17. /\ s[1].key \in Int /\ p[s[1].key] = id
       /\ p[up] = id /\ \E x \in T : x.key = up
  <2>1. s[1] \in T /\ p[s[1].key] = id /\ s[mid + 1] \in T /\ p[up] = id
    BY <1>16 DEF Under
  <2> QED
    BY <1>1, <2>1 DEF EntryType
<1> HIDE DEF up, left, right, new
<1>c. Q = Divide(P, d, id, up, new) /\ new = t.numOfNodes + 1
  BY DEF new
<1>18. Paths(Q, d, new)
  <2>1. d \in 0 .. d /\ P[d][s[1].key] = P[d][up] /\ P[d][up] = id
    BY <1>3, <1>17 DEF p
  <2>2. Paths(Divide(P, d, P[d][up], up, t.numOfNodes + 1), d, t.numOfNodes + 1)
    <3>1. ~ (d < d) /\ up \in Int
      BY <1>3, <1>15
    <3>2. \E k \in Int : k < up /\ P[d][k] = P[d][up]
      BY <1>15, <1>17, <2>1
    <3> QED
      BY <1>3, <1>4, <2>1, <3>1, <3>2, DividePaths
  <2> QED
    BY <2>1, <2>2 DEF new
<1>19. Whole(Q, d, new, id) = P
  <2>1. d \in 0 .. d
    BY <1>3
  <2> QED
    <3>1. up \in Int
      BY <1>15
    <3>2. Whole(Divide(P, d, id, up, t.numOfNodes + 1), d, t.numOfNodes + 1, id) = P
      <4>1. d \in Nat /\ t.numOfNodes \in Nat /\ Paths(P, d, t.numOfNodes)
        BY <1>3, <1>4
      <4> HIDE DEF d
      <4> QED
        BY <2>1, <3>1, <4>1, WholeDivide
    <3> QED
      BY <1>c, <3>2
<1>20. /\ \A k \in Int : q[k] = IF p[k] = id /\ k >= up THEN new ELSE p[k]
       /\ \A m \in 0 .. d : m # d => Q[m] = P[m]
  <2>1. d \in 0 .. d
    BY <1>3
  <2> QED
    <3>1. up \in Int
      BY <1>15
    <3> HIDE DEF Q
    <3> QED
      <4>1. d \in Nat /\ Paths(P, d, t.numOfNodes) /\ p = P[d]
        BY <1>3, <1>4, <1>a
      <4> HIDE DEF d
      <4> QED
        BY <1>c, <2>1, <3>1, <4>1, DivideAt
<1> HIDE DEF Q
<1>21. Divided(p, q, id, up, new)
  BY <1>8, <1>15, <1>17, <1>20 DEF Divided
<1>22. u.capacity = t.capacity /\ u.depth = d /\ u.rootBID = t.rootBID
  BY <1>14 DEF Untouched
<1>23. ASSUME NEW k \in Int PROVE LeafHolds(u, T, q, k)
  <2>1. LeafHolds(t, S, p, k)
    BY <1>5
  <2>2. ASSUME p[k] # id
        PROVE  readLeaf(u, p[k]) = readLeaf(t, p[k]) /\ Under(T, p, p[k]) = Under(S, p, p[k])
    <3>1. readLeaf(u, p[k]) = readLeaf(t, p[k])
      BY <1>8, <1>14, <2>2 DEF Untouched
    <3>2. Under(T, p, p[k]) = Under(S, p, p[k])
      BY <1>a, <2>2 DEF Under
    <3> QED
      BY <3>1, <3>2
  <2>3. /\ ToSet(left) = {x \in Under(T, p, id) : x.key < up}
        /\ ToSet(right) = {x \in Under(T, p, id) : x.key >= up}
    BY <1>11, <1>15
  <2>4. new \in Int /\ Convex(p) /\ p \in [Int -> Int]
    <3>1. new \in Int
      BY <1>3
    <3> QED
      BY <1>4, <1>7, <3>1, Zenon
  <2>5. readLeaf(u, new) = [entries |-> right, next |-> readLeaf(t, id).next]
    BY <1>14 DEF next
  <2>6. Parts(t, u, T, p, id, new, up)
    <3> HIDE DEF T
    <3> QED
      BY <1>14, <1>15, <2>3, <2>5 DEF Parts
  <2>7. T \subseteq EntryType /\ u.capacity = t.capacity /\ Divided(p, q, id, up, new)
    BY <1>1, <1>21, <1>22
  <2> HIDE DEF q, T
  <2> QED
    BY <2>1, <2>2, <2>4, <2>6, <2>7, LeafDivided
<1>24. ASSUME NEW l \in 0 .. d - 1, NEW k \in Int PROVE NodeHolds(u, T, Q[l], P[l + 1], k)
  <2>1. l \in 0 .. d /\ l # d /\ d \in 0 .. d
    BY <1>3
  <2>2. Q[l] = P[l] /\ NodeHolds(t, S, P[l], P[l + 1], k)
    BY <1>5, <1>20, <2>1
  <2>3. P[l][k] \in 1 .. t.numOfNodes /\ P[l][k] # id
    BY <1>1, <1>7, <1>a, <2>1 DEF Within, Apart
  <2>4. readInternal(u, P[l][k]) = readInternal(t, P[l][k])
    BY <1>14, <2>3 DEF Untouched
  <2> QED
    BY <1>22, <2>2, <2>4, NodeKept
<1>25. Tree(u, T, Q, P)
  <2>1. Sound(u) /\ Paths(Q, u.depth, u.numOfNodes)
    BY <1>14, <1>18, <1>22
  <2>2. \A k \in Int : LeafHolds(u, T, Q[u.depth], k)
    BY <1>22, <1>23
  <2>3. \A l \in 0 .. u.depth - 1 : \A k \in Int : NodeHolds(u, T, Q[l], P[l + 1], k)
    BY <1>22, <1>24
  <2>4. \A k \in Int : P[0][k] = u.rootBID
    BY <1>5, <1>22
  <2> HIDE DEF T
  <2> QED
    BY <2>1, <2>2, <2>3, <2>4, Zenon DEF Tree
<1>26. u.promoted.key = up /\ u.promoted.value = new
  BY <1>14 DEF Entry
<1>27. /\ d \in 0 .. u.depth /\ id \in 1 .. u.numOfNodes - 1
       /\ u.numOfNodes = new /\ id # new
  BY <1>3, <1>9, <1>14, <1>22, <1>c
<1>28. /\ \A k \in Int : q[k] = new => k >= up
       /\ \A k \in Int : q[k] = id => k < up
       /\ q[up] = new
  BY <1>8, <1>15, <1>17, <1>20, <1>27
<1>29. \E k \in Int : k < up /\ q[k] = id
  <2>1. s[1].key \in Int /\ s[1].key < up /\ p[s[1].key] = id
    BY <1>15, <1>17
  <2>2. ~ (s[1].key >= up)
    BY <1>15, <2>1
  <2> QED
    BY <1>20, <2>1, <2>2
<1>30. ASSUME d > 0, NEW j \in Int, q[j] = id PROVE Q[d - 1][j] = Q[d - 1][up]
  <2>1. d - 1 \in 0 .. d /\ d - 1 # d /\ d \in 1 .. d
    BY <1>3, <1>30
  <2>2. P[d][j] = P[d][up]
    BY <1>17, <1>20, <1>27, <1>30, <1>a
  <2>3. \A m \in 1 .. d : \A i, k \in Int : P[m][i] = P[m][k] => P[m - 1][i] = P[m - 1][k]
    BY <1>4, Zenon DEF Paths
  <2>4. P[d - 1][j] = P[d - 1][up]
    BY <1>15, <2>1, <2>2, <2>3
  <2> QED
    BY <1>20, <2>1, <2>4
<1>31. Pending(u, T, Q, d, id)
  <2>1. Tree(u, T, Q, Whole(Q, d, u.numOfNodes, id))
    BY <1>19, <1>25, <1>27
  <2>2. d > 0 => \A j \in Int : Q[d][j] = id => Q[d - 1][j] = Q[d - 1][up]
    BY <1>30
  <2> HIDE DEF T
  <2> QED
    BY <1>15, <1>17, <1>26, <1>27, <1>28, <1>29, <2>1, <2>2 DEF Pending
<1>32. \A m \in 0 .. d - 1 : Q[m] = P[m]
  BY <1>3, <1>20
<1>33. q[e.key] \in {id, u.numOfNodes}
  BY <1>1, <1>20, <1>27, <1>a
<1>34. Split(u, t, T, P, e.key, d)
  <2> HIDE DEF T
  <2> QED
    BY <1>22, <1>31, <1>32, <1>33, <1>a DEF Split
<1> QED
  BY <1>6, <1>34, <1>a

\* The levels before a split, key by key.
LEMMA WholeAt ==
  ASSUME NEW d \in Nat, NEW last, NEW P, Paths(P, d, last),
         NEW l \in 0 .. d, NEW id, NEW new, NEW W, W = Whole(P, l, new, id)
  PROVE  /\ \A k \in Int : W[l][k] = IF P[l][k] = new THEN id ELSE P[l][k]
         /\ \A m \in 0 .. d : m # l => W[m] = P[m]
<1>0. P \in [0 .. d -> [Int -> 1 .. last]]
  BY DEF Paths
<1>1. W = [m \in 0 .. d |-> [k \in Int |-> IF m = l /\ P[m][k] = new THEN id ELSE P[m][k]]]
  BY <1>0 DEF Whole
<1>2. \A m \in 0 .. d : P[m] = [k \in Int |-> P[m][k]]
  BY <1>0
<1>3. \A k \in Int : W[l][k] = IF P[l][k] = new THEN id ELSE P[l][k]
  BY <1>1
<1>4. ASSUME NEW m \in 0 .. d, m # l PROVE W[m] = P[m]
  <2>1. W[m] = [k \in Int |-> IF m = l /\ P[m][k] = new THEN id ELSE P[m][k]]
    BY <1>1
  <2>2. W[m] = [k \in Int |-> P[m][k]]
    BY <1>4, <2>1
  <2> QED
    BY <1>2, <2>2
<1> QED
  BY <1>3, <1>4

\* A leaf whose block is the same holds as before.
LEMMA LeafKept ==
  ASSUME NEW t, NEW u, NEW S, NEW p, NEW k, LeafHolds(t, S, p, k),
         u.capacity = t.capacity, readLeaf(u, p[k]) = readLeaf(t, p[k])
  PROVE  LeafHolds(u, S, p, k)
BY DEF LeafHolds

-----------------------------------------------------------------------------
(* A split goes up                                                         *)

\* One level more, above the others.
Raised(P, d, new) == [m \in 0 .. d + 1 |-> IF m = 0 THEN [k \in Int |-> new] ELSE P[m - 1]]

\* One level more, of one block, above the others.
LEMMA RaisedPaths ==
  ASSUME NEW d \in Nat, NEW last \in Nat, NEW P, Paths(P, d, last),
         NEW R, R = Raised(P, d, last + 1)
  PROVE  /\ Paths(R, d + 1, last + 1)
         /\ \A k \in Int : R[0][k] = last + 1
         /\ \A m \in 1 .. d + 1 : R[m] = P[m - 1]
<1> DEFINE new == last + 1
<1>1. /\ P \in [0 .. d -> [Int -> 1 .. last]] /\ Within(P, d, last) /\ Apart(P, d)
      /\ \A l \in 0 .. d : Convex(P[l])
  BY OnLevels
<1>2. R = [m \in 0 .. d + 1 |-> IF m = 0 THEN [k \in Int |-> new] ELSE P[m - 1]]
  BY DEF Raised
<1>3. 0 \in 0 .. d + 1 /\ \A m \in 1 .. d + 1 : m \in 0 .. d + 1 /\ m - 1 \in 0 .. d /\ m # 0
  OBVIOUS
<1>4. R[0] = [k \in Int |-> new] /\ \A m \in 1 .. d + 1 : R[m] = P[m - 1]
  BY <1>2, <1>3
<1>5. \A k \in Int : R[0][k] = new
  BY <1>4
<1>6. new \in Nat /\ \A x \in 1 .. last : x \in 1 .. new /\ x # new
  OBVIOUS
<1>7. \A m \in 0 .. d + 1 : m = 0 \/ m \in 1 .. d + 1
  OBVIOUS
<1>8. \A m \in 1 .. d + 1 : \A k \in Int : R[m][k] = P[m - 1][k] /\ R[m][k] \in 1 .. last
  BY <1>1, <1>3, <1>4 DEF Within
<1>9. R \in [0 .. d + 1 -> [Int -> 1 .. new]]
  <2>1. \A m \in 1 .. d + 1 : P[m - 1] \in [Int -> 1 .. last]
    BY <1>1, <1>3
  <2>2. \A m \in 1 .. d + 1 : R[m] \in [Int -> 1 .. new]
    BY <1>4, <1>6, <2>1
  <2>3. R[0] \in [Int -> 1 .. new]
    BY <1>4, <1>6
  <2>4. \A m \in 0 .. d + 1 : R[m] \in [Int -> 1 .. new]
    BY <1>7, <2>2, <2>3
  <2>5. R = [m \in 0 .. d + 1 |-> R[m]]
    BY <1>2
  <2> HIDE DEF new
  <2> QED
    BY <2>4, <2>5
<1> HIDE DEF new
<1>10. ASSUME NEW l \in 0 .. d + 1, NEW m \in 0 .. d + 1, NEW j \in Int, NEW k \in Int,
              R[l][j] = R[m][k]
       PROVE  l = m
  <2>1. CASE l = 0 \/ m = 0
    BY <1>5, <1>6, <1>7, <1>8, <1>10, <2>1
  <2>2. CASE l \in 1 .. d + 1 /\ m \in 1 .. d + 1
    <3>1. P[l - 1][j] = P[m - 1][k]
      BY <1>8, <1>10, <2>2
    <3>2. l - 1 = m - 1
      BY <1>1, <1>3, <2>2, <3>1 DEF Apart
    <3> QED
      BY <3>2
  <2> QED
    BY <1>7, <2>1, <2>2
<1>11. ASSUME NEW l \in 1 .. d + 1, NEW j \in Int, NEW k \in Int, R[l][j] = R[l][k]
       PROVE  R[l - 1][j] = R[l - 1][k]
  <2>1. CASE l = 1
    BY <1>5, <2>1
  <2>2. CASE l # 1
    <3>1. l - 1 \in 1 .. d + 1 /\ l - 1 \in 1 .. d
      BY <2>2
    <3>2. \A m \in 1 .. d : \A a, b \in Int : P[m][a] = P[m][b] => P[m - 1][a] = P[m - 1][b]
      BY Zenon DEF Paths
    <3>3. P[l - 1][j] = P[l - 1][k]
      BY <1>8, <1>11
    <3>4. P[l - 1 - 1][j] = P[l - 1 - 1][k]
      BY <3>1, <3>2, <3>3
    <3> QED
      BY <1>8, <3>1, <3>4
  <2> QED
    BY <2>1, <2>2
<1>12. ASSUME NEW l \in 0 .. d + 1, NEW i \in Int, NEW j \in Int, NEW k \in Int,
              i <= j, j <= k, R[l][i] = R[l][k]
       PROVE  R[l][j] = R[l][i]
  <2>1. CASE l = 0
    BY <1>5, <2>1
  <2>2. CASE l \in 1 .. d + 1
    <3>1. Convex(P[l - 1]) /\ R[l] = P[l - 1]
      BY <1>1, <1>3, <1>4, <2>2
    <3> QED
      BY <1>12, <3>1 DEF Convex
  <2> QED
    BY <1>7, <2>1, <2>2
<1>13. ASSUME NEW x \in 1 .. new PROVE \E m \in 0 .. d + 1 : \E k \in Int : R[m][k] = x
  <2>1. CASE x = new
    BY <1>3, <1>5, <2>1
  <2>2. CASE x \in 1 .. last
    <3>1. PICK m \in 0 .. d, k \in Int : P[m][k] = x
      BY <2>2 DEF Paths
    <3>2. m + 1 \in 1 .. d + 1 /\ m + 1 \in 0 .. d + 1 /\ (m + 1) - 1 = m
      OBVIOUS
    <3>3. R[m + 1][k] = x
      BY <1>8, <3>1, <3>2
    <3> QED
      BY <3>2, <3>3
  <2>3. x = new \/ x \in 1 .. last
    BY DEF new
  <2> QED
    BY <2>1, <2>2, <2>3
<1>14. Paths(R, d + 1, new)
  <2>1. \A l, m \in 0 .. d + 1 : \A j, k \in Int : R[l][j] = R[m][k] => l = m
    BY <1>10
  <2>2. \A l \in 1 .. d + 1 : \A j, k \in Int : R[l][j] = R[l][k] => R[l - 1][j] = R[l - 1][k]
    BY <1>11
  <2>3. \A l \in 0 .. d + 1 : \A i, j, k \in Int :
          i <= j /\ j <= k /\ R[l][i] = R[l][k] => R[l][j] = R[l][i]
    BY <1>12
  <2>4. \A x \in 1 .. new : \E m \in 0 .. d + 1 : \E k \in Int : R[m][k] = x
    BY <1>13
  <2> QED
    BY <1>9, <2>1, <2>2, <2>3, <2>4, Zenon DEF Paths
<1> QED
  BY <1>4, <1>5, <1>14 DEF new

\* The new root: one separator, between the halves of the old one.
LEMMA RootNode ==
  ASSUME NEW node, NEW old \in Int, NEW s \in EntryType, s.key # 0, s.value # old,
         NEW room \in Nat \ {0},
         node = [firstChild |-> old, separators |-> <<s>>]
  PROVE  /\ GoodNode(node, room)
         /\ Len(node.separators) = 1 /\ node.separators[1] = s
         /\ \A k \in Int : child(node, k) = IF k < s.key THEN old ELSE s.value
<1>1. /\ node.firstChild = old /\ node.separators = <<s>> /\ node \in NodeType
      /\ Len(node.separators) = 1 /\ node.separators[1] = s
  BY DEF NodeType
<1>2. s.key \in Int
  BY DEF EntryType
<1>3. Ascending(node.separators)
  BY <1>1 DEF Ascending
<1>4. \A i \in 1 .. Len(node.separators) : node.separators[i].key # 0
  BY <1>1
<1>5. Kid(node, 0) = old /\ Kid(node, 1) = s.value
  BY <1>1 DEF Kid
<1>6. \A i, j \in 0 .. Len(node.separators) : Kid(node, i) = Kid(node, j) => i = j
  <2>1. \A i \in 0 .. 1 : i = 0 \/ i = 1
    OBVIOUS
  <2>2. \A i \in 0 .. Len(node.separators) : i = 0 \/ i = 1
    BY <1>1, <2>1
  <2> QED
    BY <1>5, <2>2
<1>7. GoodNode(node, room)
  BY <1>1, <1>3, <1>4, <1>6 DEF GoodNode
<1>8. ASSUME NEW k \in Int PROVE child(node, k) = IF k < s.key THEN old ELSE s.value
  <2>1. CASE k < s.key
    <3>1. At(node.separators, k, 0)
      BY <1>1, <1>2, <2>1 DEF At
    <3>2. child(node, k) = Kid(node, 0)
      BY <1>1, <3>1, ChildAt
    <3> QED
      BY <1>5, <2>1, <3>2
  <2>2. CASE ~ (k < s.key)
    <3>1. At(node.separators, k, 1)
      BY <1>1, <1>2, <2>2 DEF At
    <3>2. child(node, k) = Kid(node, 1)
      BY <1>1, <3>1, ChildAt
    <3> QED
      BY <1>5, <2>2, <3>2
  <2> QED
    BY <2>1, <2>2
<1> QED
  BY <1>1, <1>7, <1>8

\* The new root: a split of the root is done with a level above it.
LEMMA NewRoot ==
  ASSUME NEW t, NEW S, NEW Q, Pending(t, S, Q, 0, t.rootBID)
  PROVE  Becomes(newRoot(t), t, S)
<1> DEFINE d == t.depth
           last == t.numOfNodes
           new == last + 1
           id == t.rootBID
           s == t.promoted
           W == Whole(Q, 0, last, id)
           u == newRoot(t)
           R == Raised(Q, d, new)
           node == readInternal(u, new)
<1>1. /\ Tree(t, S, Q, W) /\ s.value = last /\ s.key # 0 /\ id \in 1 .. last - 1
      /\ \A k \in Int : Q[0][k] = last => k >= s.key
      /\ \A k \in Int : Q[0][k] = id => k < s.key
      /\ Q[0][s.key] = last
      /\ \E k \in Int : k < s.key /\ Q[0][k] = id
      /\ \E e \in S : e.key = s.key
  BY DEF Pending
<1>2. /\ Sound(t) /\ t.capacity \in Nat \ {0} /\ d \in Nat /\ last \in Nat
  BY <1>1, TreeFacts
<1>3. Paths(Q, d, last)
  BY <1>1, TreeFacts
<1>4. /\ \A k \in Int : LeafHolds(t, S, Q[d], k)
      /\ \A l \in 0 .. d - 1 : \A k \in Int : NodeHolds(t, S, Q[l], W[l + 1], k)
      /\ \A k \in Int : W[0][k] = id
  BY <1>1 DEF Tree
<1>5. s \in EntryType /\ s.key \in Int /\ id \in Int
  <2>1. s \in EntryType /\ id \in Int
    BY <1>2 DEF Sound, TreeType
  <2> QED
    BY <2>1 DEF EntryType
<1>6. /\ Sound(u)
      /\ u.capacity = t.capacity /\ u.rootBID = new /\ u.depth = d + 1
      /\ u.numOfNodes = new /\ u.promoted = NO_SPLIT
      /\ node = [firstChild |-> id, separators |-> <<s>>]
      /\ \A j \in 1 .. last :
           readLeaf(u, j) = readLeaf(t, j) /\ readInternal(u, j) = readInternal(t, j)
  BY <1>1, <1>2, RootWritten
<1> HIDE DEF s, u, node
<1>7. /\ Paths(R, d + 1, new)
      /\ \A k \in Int : R[0][k] = new
      /\ \A m \in 1 .. d + 1 : R[m] = Q[m - 1]
  <2> HIDE DEF d, last
  <2> QED
    BY <1>2, <1>3, RaisedPaths
<1>8. /\ \A k \in Int : W[0][k] = IF Q[0][k] = last THEN id ELSE Q[0][k]
      /\ \A m \in 0 .. d : m # 0 => W[m] = Q[m]
  <2>1. 0 \in 0 .. d
    BY <1>2
  <2> HIDE DEF d, last, id
  <2> QED
    BY <1>2, <1>3, <2>1, WholeAt
<1>9. \A l \in 0 .. d : \A k \in Int : Q[l][k] \in 1 .. last
  <2>1. Within(Q, d, last)
    BY <1>2, <1>3, OnLevels
  <2> QED
    BY <2>1 DEF Within
<1> HIDE DEF W, R
<1>10. ASSUME NEW k \in Int PROVE LeafHolds(u, S, R[d + 1], k)
  <2>1. d + 1 \in 1 .. d + 1 /\ (d + 1) - 1 = d /\ d \in 0 .. d
    BY <1>2
  <2>2. R[d + 1] = Q[d] /\ LeafHolds(t, S, Q[d], k) /\ Q[d][k] \in 1 .. last
    BY <1>4, <1>7, <1>9, <2>1
  <2>3. readLeaf(u, Q[d][k]) = readLeaf(t, Q[d][k])
    BY <1>6, <2>2
  <2> QED
    BY <1>6, <2>2, <2>3, LeafKept
<1>11. ASSUME NEW l \in 1 .. d, NEW k \in Int PROVE NodeHolds(u, S, R[l], R[l + 1], k)
  <2>1. /\ l - 1 \in 0 .. d - 1 /\ l - 1 \in 0 .. d /\ l \in 1 .. d + 1 /\ l + 1 \in 1 .. d + 1
        /\ (l - 1) + 1 = l /\ (l + 1) - 1 = l /\ l \in 0 .. d /\ l # 0
    BY <1>2
  <2>2. R[l] = Q[l - 1] /\ R[l + 1] = Q[l] /\ W[l] = Q[l]
    BY <1>7, <1>8, <2>1
  <2>3. NodeHolds(t, S, Q[l - 1], Q[l], k)
    BY <1>4, <2>1, <2>2
  <2>4. readInternal(u, Q[l - 1][k]) = readInternal(t, Q[l - 1][k])
    BY <1>6, <1>9, <2>1
  <2> QED
    BY <1>6, <2>2, <2>3, <2>4, NodeKept
<1>12. /\ GoodNode(node, u.capacity)
       /\ Len(node.separators) = 1 /\ node.separators[1] = s
       /\ \A k \in Int : child(node, k) = IF k < s.key THEN id ELSE s.value
  <2>1. s.value # id
    BY <1>1, <1>2
  <2> HIDE DEF id
  <2> QED
    BY <1>1, <1>2, <1>5, <1>6, <2>1, RootNode
<1>13. ASSUME NEW k \in Int PROVE NodeHolds(u, S, R[0], R[1], k)
  <2>1. R[0][k] = new /\ R[1] = Q[0] /\ R[0][s.key] = new
    BY <1>2, <1>5, <1>7
  <2>2. child(node, k) = Q[0][k]
    <3>1. CASE Q[0][k] = last
      <4>1. ~ (k < s.key)
        BY <1>1, <1>5, <3>1
      <4> QED
        BY <1>1, <1>12, <3>1, <4>1
    <3>2. CASE Q[0][k] # last
      <4>1. Q[0][k] = id
        BY <1>4, <1>8, <3>2
      <4> QED
        BY <1>1, <1>12, <4>1
    <3> QED
      BY <3>1, <3>2
  <2>3. Bounds(S, R[0], k, node)
    <3>1. PICK j \in Int : j < s.key
      BY <1>1
    <3>2. R[0][j] = R[0][k]
      BY <1>7
    <3> QED
      BY <1>1, <1>12, <2>1, <3>1, <3>2 DEF Bounds
  <2> QED
    BY <1>12, <2>1, <2>2, <2>3 DEF NodeHolds, node
<1>14. ASSUME NEW l \in 0 .. u.depth - 1, NEW k \in Int
       PROVE  NodeHolds(u, S, R[l], R[l + 1], k)
  <2>1. l = 0 \/ l \in 1 .. d
    BY <1>2, <1>6
  <2> QED
    BY <1>11, <1>13, <2>1
<1>15. Tree(u, S, R, R)
  BY <1>6, <1>7, <1>10, <1>14 DEF Tree
<1>16. Held(u, S, R)
  BY <1>6, <1>15 DEF Held
<1> QED
  BY <1>6, <1>16 DEF u, Becomes

\* A node that has got the separator a split below it promotes.
Gains(t, S, Q, l, pid, node) ==
  /\ GoodNode(node, t.capacity + 1)
  /\ \A k \in Int : Q[l - 1][k] = pid =>
       child(node, k) = Q[l][k] /\ Bounds(S, Q[l - 1], k, node)

\* What a pending split says of the levels.
LEMMA PendingFacts ==
  ASSUME NEW t, NEW S, NEW Q, NEW l, NEW id, Pending(t, S, Q, l, id), l > 0,
         NEW W, W = Whole(Q, l, t.numOfNodes, id)
  PROVE  /\ t.promoted \in EntryType /\ t.promoted.key \in Int
         /\ t.promoted.value = t.numOfNodes /\ t.promoted.key # 0
         /\ l \in 1 .. t.depth /\ l - 1 \in 0 .. t.depth /\ l - 1 \in 0 .. t.depth - 1
         /\ id # t.numOfNodes /\ Q[l][t.promoted.key] = t.numOfNodes
         /\ \A k \in Int : Q[l][k] = t.numOfNodes => k >= t.promoted.key
         /\ \A k \in Int : Q[l][k] = id => k < t.promoted.key
         /\ \A k \in Int : W[l][k] = IF Q[l][k] = t.numOfNodes THEN id ELSE Q[l][k]
         /\ \A m \in 0 .. t.depth : m # l => W[m] = Q[m]
         /\ \A k \in Int : NodeHolds(t, S, Q[l - 1], W[l], k)
         /\ \A k \in Int : Q[l - 1][k] # Q[l - 1][t.promoted.key] => W[l][k] = Q[l][k]
         /\ \A k \in Int : Q[0][k] = t.rootBID
<1> DEFINE d == t.depth
           new == t.numOfNodes
           s == t.promoted.key
<1>1. Tree(t, S, Q, W)
  BY DEF Pending
<1>2. d \in Nat /\ new \in Nat /\ l \in 0 .. d
  BY <1>1, TreeFacts DEF Pending
<1>3. l \in 1 .. d /\ l - 1 \in 0 .. d /\ l - 1 \in 0 .. d - 1 /\ (l - 1) + 1 = l
  BY <1>2
<1>4. t.promoted \in EntryType
  <2>1. Sound(t)
    BY <1>1, TreeFacts
  <2> QED
    BY <2>1 DEF Sound, TreeType
<1>5. s \in Int
  BY <1>4 DEF EntryType
<1>6. Paths(Q, d, new)
  BY <1>1, TreeFacts
<1>7. /\ \A k \in Int : W[l][k] = IF Q[l][k] = new THEN id ELSE Q[l][k]
      /\ \A m \in 0 .. d : m # l => W[m] = Q[m]
  <2> HIDE DEF d, new
  <2>1. W = Whole(Q, l, new, id)
    BY DEF new
  <2> QED
    BY <1>2, <1>6, <2>1, WholeAt
<1>8. /\ t.promoted.value = new /\ s # 0 /\ Q[l][s] = new
      /\ \A k \in Int : Q[l][k] = new => k >= s
      /\ \A k \in Int : Q[l][k] = id => k < s
  BY DEF Pending
<1>9. id # new
  <2>1. id \in 1 .. new - 1
    BY DEF Pending
  <2> QED
    BY <1>2, <2>1
<1>10. \A k \in Int : NodeHolds(t, S, Q[l - 1], W[l], k)
  <2>1. \A m \in 0 .. d - 1 : \A k \in Int : NodeHolds(t, S, Q[m], W[m + 1], k)
    BY <1>1 DEF Tree
  <2> QED
    BY <1>3, <2>1
<1>11. ASSUME NEW k \in Int, Q[l - 1][k] # Q[l - 1][s] PROVE W[l][k] = Q[l][k]
  <2>1. \A m \in 1 .. d : \A i, j \in Int : Q[m][i] = Q[m][j] => Q[m - 1][i] = Q[m - 1][j]
    BY <1>6, Zenon DEF Paths
  <2>2. Q[l][k] # Q[l][s]
    BY <1>3, <1>5, <1>11, <2>1
  <2> QED
    BY <1>7, <1>8, <2>2
<1>12. \A k \in Int : Q[0][k] = t.rootBID
  <2>1. 0 \in 0 .. d /\ 0 # l
    BY <1>2, <1>3
  <2>2. \A k \in Int : W[0][k] = t.rootBID
    BY <1>1 DEF Tree
  <2> QED
    BY <1>7, <2>1, <2>2
<1> QED
  BY <1>3, <1>4, <1>5, <1>7, <1>8, <1>9, <1>10, <1>11, <1>12

\* propagate: the node on the way for the promoted key may take it as a separator.
LEMMA NodeGains ==
  ASSUME NEW t, NEW S, NEW Q, NEW l, NEW id, Pending(t, S, Q, l, id), l > 0,
         NEW pid, pid = Q[l - 1][t.promoted.key], NEW node, node = readInternal(t, pid)
  PROVE  /\ Gains(t, S, Q, l, pid, WithSeparator(node, t.promoted))
         /\ Len(WithSeparator(node, t.promoted).separators) = Len(node.separators) + 1
         /\ GoodNode(node, t.capacity)
<1> DEFINE new == t.numOfNodes
           sep == t.promoted
           s == sep.key
           W == Whole(Q, l, new, id)
           w == W[l]
           p == Q[l - 1]
           q == Q[l]
           more == WithSeparator(node, sep)
<1>1. /\ sep \in EntryType /\ s \in Int
      /\ sep.value = new /\ s # 0
      /\ id # new /\ q[s] = new
      /\ \A k \in Int : q[k] = new => k >= s
      /\ \A k \in Int : q[k] = id => k < s
      /\ \A k \in Int : w[k] = IF q[k] = new THEN id ELSE q[k]
      /\ \A k \in Int : NodeHolds(t, S, p, w, k)
  BY PendingFacts
<1>2. t.capacity \in Nat
  <2>1. Tree(t, S, Q, W)
    BY DEF Pending
  <2> QED
    BY <2>1, TreeFacts
<1>3. PICK k0 \in Int : k0 < s /\ q[k0] = id /\ p[k0] = pid
  <2>1. PICK k0 \in Int : k0 < s /\ q[k0] = id
    BY DEF Pending
  <2>2. \A j \in Int : q[j] = id => p[j] = p[s]
    BY DEF Pending
  <2> QED
    BY <2>1, <2>2
<1>4. \E e \in S : e.key = s
  BY DEF Pending
<1>5. pid = p[s]
  OBVIOUS
<1> HIDE DEF w, p, q, s, new, sep, W
<1>6. ASSUME NEW k \in Int, p[k] = pid
      PROVE  GoodNode(node, t.capacity) /\ Bounds(S, p, k, node) /\ child(node, k) = w[k]
  BY <1>1, <1>6 DEF NodeHolds
<1>7. GoodNode(node, t.capacity) /\ child(node, s) = id /\ child(node, k0) = id
  BY <1>1, <1>3, <1>5, <1>6
<1>8. node \in NodeType /\ Len(node.separators) \in Nat
      /\ \A i \in 1 .. Len(node.separators) : node.separators[i].key \in Int
  <2>1. node \in NodeType
    BY <1>7 DEF GoodNode
  <2> QED
    BY <2>1, SeparatorsOf
<1>9. ASSUME NEW i \in 1 .. Len(node.separators)
      PROVE  /\ p[node.separators[i].key] = pid
             /\ \E j \in Int : j < node.separators[i].key /\ p[j] = pid
             /\ \E e \in S : e.key = node.separators[i].key
  BY <1>1, <1>5, <1>6 DEF Bounds
<1>10. \A k \in Int : w[k] # new
  BY <1>1
<1>11. ASSUME NEW i \in 0 .. Len(node.separators) PROVE Kid(node, i) # new
  <2>1. CASE i \in 1 .. Len(node.separators)
    <3>1. Kid(node, i) = child(node, node.separators[i].key)
      BY <1>7, <2>1, KidReached
    <3>2. PICK k \in Int : k = node.separators[i].key
      BY <1>8, <2>1
    <3>3. p[k] = pid
      BY <1>9, <2>1, <3>2
    <3> QED
      BY <1>6, <1>10, <3>1, <3>2, <3>3
  <2>2. CASE i = 0
    <3>1. PICK k \in Int : p[k] = pid /\ (node.separators = <<>> \/ k < node.separators[1].key)
      <4>1. CASE Len(node.separators) = 0
        <5>1. node.separators = <<>>
          BY <1>8, <4>1 DEF NodeType
        <5> QED
          BY <1>1, <1>5, <5>1
      <4>2. CASE Len(node.separators) > 0
        <5>1. 1 \in 1 .. Len(node.separators)
          BY <1>8, <4>2
        <5> QED
          BY <1>9, <5>1
      <4>3. Len(node.separators) \in Nat
        BY <1>8
      <4>4. Len(node.separators) = 0 \/ Len(node.separators) > 0
        BY <4>3
      <4> QED
        BY <4>1, <4>2, <4>4
    <3>2. child(node, k) = node.firstChild
      BY <1>7, <3>1, FirstChildReached
    <3> QED
      BY <1>6, <1>10, <2>2, <3>1, <3>2 DEF Kid
  <2> QED
    BY <1>8, <2>1, <2>2
<1>12. /\ GoodNode(more, t.capacity + 1)
       /\ Len(more.separators) = Len(node.separators) + 1
       /\ \A k \in Int :
            child(more, k) = IF child(node, k) = child(node, s) /\ k >= s THEN sep.value
                             ELSE child(node, k)
       /\ \A i \in 1 .. Len(node.separators) + 1 :
            \/ more.separators[i] = sep
            \/ \E j \in 1 .. Len(node.separators) : more.separators[i] = node.separators[j]
  <2>1. /\ sep.key \in Int /\ sep.key # 0
        /\ \E k \in Int : k < sep.key /\ child(node, k) = child(node, sep.key)
        /\ \A i \in 0 .. Len(node.separators) : Kid(node, i) # sep.value
    BY <1>1, <1>3, <1>7, <1>11 DEF s
  <2>2. Extended(node, sep, t.capacity)
    BY <1>1, <1>2, <1>7, <2>1, NodeInsert
  <2> QED
    BY <2>2 DEF Extended, s
<1> HIDE DEF more
<1>13. ASSUME NEW k \in Int, p[k] = pid PROVE child(more, k) = q[k]
  <2>1. child(more, k) = IF w[k] = id /\ k >= s THEN new ELSE w[k]
    BY <1>1, <1>6, <1>7, <1>12, <1>13
  <2>2. w[k] = IF q[k] = new THEN id ELSE q[k]
    BY <1>1
  <2>3. (q[k] = new => k >= s) /\ (q[k] = id => k < s)
    BY <1>1
  <2>4. k < s => ~ (k >= s)
    BY <1>1
  <2> QED
    BY <1>1, <2>1, <2>2, <2>3, <2>4
<1>14. ASSUME NEW k \in Int, p[k] = pid PROVE Bounds(S, p, k, more)
  <2>1. SUFFICES ASSUME NEW i \in 1 .. Len(more.separators)
                 PROVE  /\ p[more.separators[i].key] = p[k]
                        /\ \E j \in Int : j < more.separators[i].key /\ p[j] = p[k]
                        /\ \E e \in S : e.key = more.separators[i].key
    BY DEF Bounds
  <2>2. \/ more.separators[i] = sep
        \/ \E j \in 1 .. Len(node.separators) : more.separators[i] = node.separators[j]
    BY <1>12, <2>1
  <2>3. CASE more.separators[i] = sep
    BY <1>3, <1>4, <1>5, <1>14, <2>3 DEF s
  <2>4. CASE \E j \in 1 .. Len(node.separators) : more.separators[i] = node.separators[j]
    <3>1. PICK j \in 1 .. Len(node.separators) : more.separators[i] = node.separators[j]
      BY <2>4
    <3>2. /\ p[node.separators[j].key] = pid
          /\ \E k1 \in Int : k1 < node.separators[j].key /\ p[k1] = pid
          /\ \E e \in S : e.key = node.separators[j].key
      BY <1>9
    <3> QED
      BY <1>14, <3>1, <3>2
  <2> QED
    BY <2>2, <2>3, <2>4
<1>15. Gains(t, S, Q, l, pid, more)
  BY <1>12, <1>13, <1>14 DEF Gains, p, q
<1> QED
  BY <1>7, <1>12, <1>15 DEF more, sep

\* propagate: where the node has room for the separator, the split is done.
LEMMA PropagateFits ==
  ASSUME NEW t, NEW S, NEW Q, NEW l, NEW id, Pending(t, S, Q, l, id), l > 0,
         NEW pid, pid = Q[l - 1][t.promoted.key], NEW node, node = readInternal(t, pid),
         NEW separators, separators = WithSeparator(node, t.promoted).separators,
         Len(separators) <= t.capacity
  PROVE  Becomes([writeInternal(t, pid, node.firstChild, separators) EXCEPT !.promoted = NO_SPLIT],
                 t, S)
<1> DEFINE d == t.depth
           last == t.numOfNodes
           s == t.promoted.key
           W == Whole(Q, l, last, id)
           p == Q[l - 1]
           more == WithSeparator(node, t.promoted)
           u == [writeInternal(t, pid, node.firstChild, separators) EXCEPT !.promoted = NO_SPLIT]
<1>1. /\ s \in Int /\ l \in 1 .. d /\ l - 1 \in 0 .. d /\ l - 1 \in 0 .. d - 1
      /\ \A m \in 0 .. d : m # l => W[m] = Q[m]
      /\ \A k \in Int : NodeHolds(t, S, p, W[l], k)
      /\ \A k \in Int : p[k] # p[s] => W[l][k] = Q[l][k]
      /\ \A k \in Int : Q[0][k] = t.rootBID
  BY PendingFacts
<1>2. Tree(t, S, Q, W)
  BY DEF Pending
<1>3. t.capacity \in Nat /\ d \in Nat /\ last \in Nat /\ Sound(t)
  BY <1>2, TreeFacts
<1>4. Paths(Q, d, last)
  BY <1>2, TreeFacts
<1>5. /\ Gains(t, S, Q, l, pid, more) /\ GoodNode(node, t.capacity)
  BY NodeGains
<1>6. Within(Q, d, last) /\ Apart(Q, d)
  <2> HIDE DEF d, last
  <2> QED
    BY <1>3, <1>4, OnLevels
<1>7. /\ \A k \in Int : LeafHolds(t, S, Q[d], k)
      /\ \A m \in 0 .. d - 1 : \A k \in Int : NodeHolds(t, S, Q[m], W[m + 1], k)
  BY <1>2 DEF Tree
<1>8. p[s] = pid /\ pid \in 1 .. last
  BY <1>1, <1>6 DEF Within
<1>9. more.firstChild = node.firstChild /\ more = [firstChild |-> node.firstChild, separators |-> separators]
  BY DEF WithSeparator
<1>10. Fits(separators, t.capacity) /\ node.firstChild \in Int
  <2>1. node \in NodeType /\ GoodNode(more, t.capacity + 1)
    BY <1>5 DEF GoodNode, Gains
  <2>2. /\ more.separators \in Seq(EntryType)
        /\ \A i \in 1 .. Len(more.separators) : more.separators[i].key # 0
    <3> HIDE DEF more
    <3> QED
      BY <2>1 DEF GoodNode, NodeType
  <2> QED
    BY <2>1, <2>2 DEF Fits, NodeType
<1>11. /\ Sound(u) /\ Untouched(u, t, pid)
       /\ u.numOfNodes = last /\ u.promoted = NO_SPLIT
       /\ readInternal(u, pid) = more
  <2>1. /\ Sound(u) /\ Untouched(u, t, pid)
        /\ u.numOfNodes = t.numOfNodes /\ u.promoted = NO_SPLIT
        /\ readInternal(u, pid) = [firstChild |-> node.firstChild, separators |-> separators]
    <3>1. Sound(t) /\ pid \in 1 .. t.numOfNodes
      BY <1>3, <1>8
    <3>2. Fits(separators, t.capacity)
      BY <1>10
    <3>3. PICK first \in Int : first = node.firstChild
      BY <1>10
    <3>4. NodeWritten(t, pid, first, separators)
      BY <3>1, <3>2, NodeFits
    <3> QED
      BY <3>3, <3>4 DEF NodeWritten
  <2> QED
    BY <1>9, <2>1
<1> HIDE DEF u, more, W
<1>12. u.capacity = t.capacity /\ u.depth = d /\ u.rootBID = t.rootBID
  BY <1>11 DEF Untouched
<1>13. ASSUME NEW m \in 0 .. d, NEW k \in Int, m = l - 1 => Q[m][k] # pid
       PROVE  /\ readLeaf(u, Q[m][k]) = readLeaf(t, Q[m][k])
              /\ readInternal(u, Q[m][k]) = readInternal(t, Q[m][k])
  <2>1. Q[m][k] \in 1 .. last
    BY <1>6 DEF Within
  <2>2. Q[m][k] # pid
    BY <1>1, <1>6, <1>8, <1>13 DEF Apart
  <2> QED
    BY <1>11, <2>1, <2>2 DEF Untouched
<1>14. ASSUME NEW k \in Int PROVE LeafHolds(u, S, Q[d], k)
  <2>1. d \in 0 .. d /\ d # l - 1
    BY <1>1, <1>3
  <2>2. LeafHolds(t, S, Q[d], k) /\ readLeaf(u, Q[d][k]) = readLeaf(t, Q[d][k])
    BY <1>7, <1>13, <2>1
  <2> QED
    BY <1>12, <2>2, LeafKept
<1>15. ASSUME NEW m \in 0 .. d - 1, NEW k \in Int PROVE NodeHolds(u, S, Q[m], Q[m + 1], k)
  <2>1. m \in 0 .. d /\ m + 1 \in 0 .. d /\ (m # l - 1 => m + 1 # l) /\ (m = l - 1 => m + 1 = l)
    BY <1>1, <1>3
  <2>2. CASE m = l - 1 /\ Q[m][k] = pid
    <3>1. /\ GoodNode(more, t.capacity + 1) /\ child(more, k) = Q[l][k] /\ Bounds(S, p, k, more)
      BY <1>5, <2>2 DEF Gains
    <3>2. GoodNode(more, u.capacity)
      BY <1>10, <1>12, <3>1, <1>9 DEF GoodNode
    <3>3. readInternal(u, Q[m][k]) = more
      BY <1>11, <2>2
    <3> QED
      BY <2>1, <2>2, <3>1, <3>2, <3>3 DEF NodeHolds
  <2>3. CASE m = l - 1 /\ Q[m][k] # pid
    <3>1. NodeHolds(t, S, p, W[l], k) /\ W[l][k] = Q[l][k]
      BY <1>1, <1>8, <2>3
    <3>2. NodeHolds(t, S, Q[m], Q[m + 1], k)
      BY <2>1, <2>3, <3>1 DEF NodeHolds
    <3> QED
      BY <1>12, <1>13, <2>1, <2>3, <3>2, NodeKept
  <2>4. CASE m # l - 1
    <3>1. NodeHolds(t, S, Q[m], Q[m + 1], k)
      BY <1>1, <1>7, <2>1, <2>4
    <3> QED
      BY <1>12, <1>13, <2>1, <2>4, <3>1, NodeKept
  <2> QED
    BY <2>2, <2>3, <2>4
<1>16. Tree(u, S, Q, Q)
  BY <1>1, <1>4, <1>11, <1>12, <1>14, <1>15 DEF Tree
<1>17. Held(u, S, Q)
  BY <1>11, <1>16 DEF Held
<1> QED
  BY <1>12, <1>17 DEF Becomes, u

\* A node whose separators are too many is two nodes.
HalvesOf(t, u, S, Q, l, pid, more) ==
  LET up    == u.promoted.key
      left  == readInternal(u, pid)
      right == readInternal(u, u.numOfNodes)
  IN  /\ up \in Int /\ up # 0 /\ Q[l - 1][up] = pid
      /\ \E k \in Int : k < up /\ Q[l - 1][k] = pid
      /\ \E e \in S : e.key = up
      /\ GoodNode(left, t.capacity) /\ GoodNode(right, t.capacity)
      /\ \A k \in Int : Q[l - 1][k] = pid =>
           /\ child(IF k < up THEN left ELSE right, k) = Q[l][k]
      /\ \A j, k \in Int : Q[l - 1][j] = pid /\ Q[l - 1][k] = pid /\ Q[l][j] = Q[l][k] =>
           (j < up <=> k < up)
      /\ \A i \in 1 .. Len(left.separators) :
           LET s == left.separators[i].key
           IN  /\ s \in Int /\ s < up /\ Q[l - 1][s] = pid
               /\ \E k \in Int : k < s /\ Q[l - 1][k] = pid
               /\ \E e \in S : e.key = s
      /\ \A i \in 1 .. Len(right.separators) :
           LET s == right.separators[i].key
           IN  /\ s \in Int /\ up < s /\ Q[l - 1][s] = pid
               /\ \E e \in S : e.key = s

\* What the split of a node writes.
NodeInTwo(t, u, S, Q, l, pid, more) ==
  /\ Sound(u) /\ Untouched(u, t, pid) /\ u.numOfNodes = t.numOfNodes + 1
  /\ u.promoted.value = u.numOfNodes
  /\ HalvesOf(t, u, S, Q, l, pid, more)

\* propagate: where the node has no room, its halves lead to what it led to.
LEMMA NodeHalves ==
  ASSUME NEW t, Sound(t), NEW S, NEW Q, NEW l, NEW pid \in 1 .. t.numOfNodes, NEW more,
         Gains(t, S, Q, l, pid, more), Len(more.separators) = t.capacity + 1,
         \E k \in Int : Q[l - 1][k] = pid,
         NEW u, u = SplitNode(t, pid, more)
  PROVE  NodeInTwo(t, u, S, Q, l, pid, more)
<1> DEFINE p == Q[l - 1]
           q == Q[l]
           cap == t.capacity
           mid == splitIndex(t)
           new == t.numOfNodes + 1
           s == more.separators
           up == s[mid + 1]
           left == LeftHalf(more, mid)
           right == RightHalf(more, mid)
<1>1. GoodNode(more, cap + 1) /\ \A k \in Int : p[k] = pid => child(more, k) = q[k] /\ Bounds(S, p, k, more)
  BY DEF Gains
<1>2. cap \in Nat /\ t \in TreeType
  BY DEF Sound, TreeType
<1>3. mid \in 1 .. cap
  BY <1>2, SplitIndex
<1>4. more \in NodeType /\ s \in Seq(EntryType) /\ \A i \in 1 .. Len(s) : s[i].key \in Int /\ s[i].key # 0
  <2>1. more \in NodeType /\ \A i \in 1 .. Len(s) : s[i].key # 0
    BY <1>1 DEF GoodNode
  <2> QED
    BY <2>1, SeparatorsOf
<1>5. Fits(s, cap + 1)
  BY <1>2, <1>4 DEF Fits
<1>6. /\ Sound(u) /\ Untouched(u, t, pid)
      /\ u.numOfNodes = new /\ u.promoted = Entry(up.key, new)
      /\ readInternal(u, pid) = left
      /\ readInternal(u, new) = right
  BY <1>4, <1>5, InternalSplit
<1>7. /\ up.key \in Int /\ up.key # 0 /\ s[1].key < up.key
      /\ GoodNode(left, cap) /\ GoodNode(right, cap)
      /\ \A k \in Int : child(more, k) = IF k < up.key THEN child(left, k) ELSE child(right, k)
      /\ \A j, k \in Int : child(more, j) = child(more, k) => (j < up.key <=> k < up.key)
      /\ \A i \in 1 .. Len(left.separators) :
           /\ left.separators[i].key < up.key
           /\ i \in 1 .. Len(s) /\ left.separators[i] = s[i]
      /\ \A i \in 1 .. Len(right.separators) :
           /\ up.key < right.separators[i].key
           /\ mid + 1 + i \in 1 .. Len(s)
           /\ right.separators[i] = s[mid + 1 + i]
  <2>1. Len(more.separators) = cap + 1
    OBVIOUS
  <2> HIDE DEF left, right, mid, cap
  <2>2. NodeHalved(more, mid, cap)
    BY <1>1, <1>2, <1>3, <2>1, NodeSplit
  <2> QED
    BY <2>2 DEF NodeHalved, left, right
<1>8. 1 \in 1 .. Len(s) /\ mid + 1 \in 1 .. Len(s)
  BY <1>2, <1>3
<1>9. u.promoted.key = up.key /\ u.promoted.value = new
  BY <1>6 DEF Entry
<1> HIDE DEF left, right, new, mid, p, q
<1>10. ASSUME NEW i \in 1 .. Len(s)
       PROVE  /\ s[i].key \in Int /\ p[s[i].key] = pid
              /\ \E k \in Int : k < s[i].key /\ p[k] = pid
              /\ \E e \in S : e.key = s[i].key
  <2>1. PICK k \in Int : p[k] = pid
    BY DEF p
  <2>2. Bounds(S, p, k, more)
    BY <1>1, <2>1
  <2> QED
    BY <1>4, <2>1, <2>2 DEF Bounds
<1>11. /\ p[up.key] = pid /\ \E e \in S : e.key = up.key
       /\ \E k \in Int : k < up.key /\ p[k] = pid
  BY <1>8, <1>10
<1>12. ASSUME NEW k \in Int, p[k] = pid
       PROVE  child(IF k < up.key THEN left ELSE right, k) = q[k]
  BY <1>1, <1>7, <1>12
<1>13. ASSUME NEW j \in Int, NEW k \in Int, p[j] = pid, p[k] = pid, q[j] = q[k]
       PROVE  j < up.key <=> k < up.key
  <2>1. child(more, j) = child(more, k)
    BY <1>1, <1>13
  <2> QED
    BY <1>7, <2>1
<1>14. ASSUME NEW i \in 1 .. Len(left.separators)
       PROVE  LET x == left.separators[i].key
              IN  /\ x \in Int /\ x < up.key /\ p[x] = pid
                  /\ \E k \in Int : k < x /\ p[k] = pid
                  /\ \E e \in S : e.key = x
  <2>1. left.separators[i].key < up.key /\ i \in 1 .. Len(s) /\ left.separators[i] = s[i]
    BY <1>7
  <2>2. /\ s[i].key \in Int /\ p[s[i].key] = pid
        /\ \E k \in Int : k < s[i].key /\ p[k] = pid
        /\ \E e \in S : e.key = s[i].key
    BY <1>10, <2>1
  <2> QED
    BY <2>1, <2>2
<1>15. ASSUME NEW i \in 1 .. Len(right.separators)
       PROVE  LET x == right.separators[i].key
              IN  /\ x \in Int /\ up.key < x /\ p[x] = pid
                  /\ \E e \in S : e.key = x
  <2>1. up.key < right.separators[i].key
    BY <1>7
  <2>2. PICK n \in 1 .. Len(s) : right.separators[i] = s[n]
    BY <1>7
  <2>3. /\ s[n].key \in Int /\ p[s[n].key] = pid
        /\ \E e \in S : e.key = s[n].key
    BY <1>10
  <2> QED
    BY <2>1, <2>2, <2>3
<1>16. HalvesOf(t, u, S, Q, l, pid, more)
  <2>1. readInternal(u, pid) = left /\ readInternal(u, u.numOfNodes) = right
    BY <1>6
  <2>2. up.key \in Int /\ up.key # 0 /\ GoodNode(left, cap) /\ GoodNode(right, cap)
    BY <1>7
  <2> HIDE DEF up, s, cap
  <2> QED
    BY <1>9, <1>11, <1>12, <1>13, <1>14, <1>15, <2>1, <2>2 DEF HalvesOf, p, q, cap
<1> QED
  BY <1>6, <1>9, <1>16 DEF new, NodeInTwo

\* A split that has reached the level above l.
SplitAbove(u, S, Q, l, pid) ==
  \E R : /\ Pending(u, S, R, l - 1, pid)
         /\ \A m \in 0 .. l - 2 : R[m] = Q[m]
         /\ \A k \in Int : Q[l - 1][k] = pid => R[l - 1][k] \in {pid, u.numOfNodes}

\* The level p of t is the level r of u, and q is the one below it.
LevelDivided(t, u, S, Q, l, pid, more, p, q, r) ==
  /\ u.capacity = t.capacity /\ HalvesOf(t, u, S, Q, l, pid, more)
  /\ p = Q[l - 1] /\ q = Q[l]
  /\ Divided(p, r, pid, u.promoted.key, u.numOfNodes)

\* A node that is not the split one, and what it leads to, is as before.
NodeAside(t, u, pid, p, q, w, k) ==
  p[k] # pid => w[k] = q[k] /\ readInternal(u, p[k]) = readInternal(t, p[k])

\* propagate: after the split of a node every key finds its way on its level.
LEMMA NodeDivided ==
  ASSUME NEW t, NEW u, NEW S, NEW Q, NEW l, NEW pid, NEW more, NEW p, NEW q, NEW r,
         LevelDivided(t, u, S, Q, l, pid, more, p, q, r),
         NEW w, NEW k \in Int, NodeHolds(t, S, p, w, k),
         NodeAside(t, u, pid, p, q, w, k)
  PROVE  NodeHolds(u, S, r, q, k)
<1> DEFINE up == u.promoted.key
           new == u.numOfNodes
           left == readInternal(u, pid)
           right == readInternal(u, new)
<1>1. /\ up \in Int /\ p[up] = pid
      /\ GoodNode(left, t.capacity) /\ GoodNode(right, t.capacity)
      /\ \A j \in Int : p[j] = pid => child(IF j < up THEN left ELSE right, j) = q[j]
  BY DEF HalvesOf, LevelDivided
<1>2. \A i \in 1 .. Len(left.separators) :
        /\ left.separators[i].key \in Int /\ left.separators[i].key < up /\ p[left.separators[i].key] = pid
        /\ \E j \in Int : j < left.separators[i].key /\ p[j] = pid
        /\ \E e \in S : e.key = left.separators[i].key
  BY DEF HalvesOf, LevelDivided
<1>3. \A i \in 1 .. Len(right.separators) :
        /\ right.separators[i].key \in Int /\ up < right.separators[i].key
        /\ p[right.separators[i].key] = pid
        /\ \E e \in S : e.key = right.separators[i].key
  BY DEF HalvesOf, LevelDivided
<1>4. \A j \in Int : r[j] = IF p[j] = pid /\ j >= up THEN new ELSE p[j]
  BY DEF Divided, LevelDivided
<1>a. u.capacity = t.capacity
  BY DEF LevelDivided
<1>b. p[k] # pid => w[k] = q[k] /\ readInternal(u, p[k]) = readInternal(t, p[k])
  BY DEF NodeAside
<1> HIDE DEF up, new, left, right
<1>5. CASE p[k] # pid
  <2> DEFINE node == readInternal(t, p[k])
  <2>1. r[k] = p[k] /\ w[k] = q[k] /\ readInternal(u, p[k]) = node
    BY <1>4, <1>5, <1>b
  <2>2. GoodNode(node, t.capacity) /\ Bounds(S, p, k, node) /\ child(node, k) = w[k]
    BY DEF NodeHolds
  <2>3. \A i \in 1 .. Len(node.separators) : node.separators[i].key \in Int
    <3>1. node \in NodeType
      BY <2>2 DEF GoodNode
    <3> HIDE DEF node
    <3> QED
      BY <3>1, SeparatorsOf
  <2> HIDE DEF node
  <2>4. ASSUME NEW i \in 1 .. Len(node.separators)
        PROVE  LET x == node.separators[i].key
               IN  /\ r[x] = r[k]
                   /\ \E j \in Int : j < x /\ r[j] = r[k]
                   /\ \E e \in S : e.key = x
    <3> DEFINE x == node.separators[i].key
    <3>1. p[x] = p[k] /\ (\E j \in Int : j < x /\ p[j] = p[k]) /\ \E e \in S : e.key = x
      BY <2>2 DEF Bounds
    <3>2. PICK j \in Int : j < x /\ p[j] = p[k]
      BY <3>1
    <3>3. r[x] = p[k] /\ r[j] = p[k]
      BY <1>4, <1>5, <2>3, <3>1, <3>2
    <3> QED
      BY <2>1, <3>1, <3>2, <3>3
  <2>5. Bounds(S, r, k, node)
    BY <2>4 DEF Bounds
  <2> QED
    BY <1>a, <2>1, <2>2, <2>5 DEF NodeHolds, node
<1>6. CASE p[k] = pid /\ k < up
  <2>1. r[k] = pid
    BY <1>1, <1>4, <1>6
  <2>2. ASSUME NEW i \in 1 .. Len(left.separators)
        PROVE  LET x == left.separators[i].key
               IN  /\ r[x] = r[k]
                   /\ \E j \in Int : j < x /\ r[j] = r[k]
                   /\ \E e \in S : e.key = x
    <3> DEFINE x == left.separators[i].key
    <3>1. x \in Int /\ x < up /\ p[x] = pid /\ \E e \in S : e.key = x
      BY <1>2
    <3>2. PICK j \in Int : j < x /\ p[j] = pid
      BY <1>2
    <3> HIDE DEF x
    <3>3. ~ (x >= up) /\ ~ (j >= up)
      BY <1>1, <3>1, <3>2
    <3>4. r[x] = pid /\ r[j] = pid
      BY <1>4, <3>1, <3>2, <3>3
    <3>5. /\ r[x] = r[k]
          /\ \E i1 \in Int : i1 < x /\ r[i1] = r[k]
          /\ \E e \in S : e.key = x
      BY <2>1, <3>1, <3>2, <3>4
    <3> QED
      BY <3>5 DEF x
  <2>3. Bounds(S, r, k, left)
    BY <2>2 DEF Bounds
  <2>4. child(left, k) = q[k]
    BY <1>1, <1>6
  <2>5. readInternal(u, r[k]) = left
    BY <2>1 DEF left
  <2> QED
    BY <1>1, <1>a, <2>3, <2>4, <2>5 DEF NodeHolds
<1>7. CASE p[k] = pid /\ k >= up
  <2>1. r[k] = new /\ r[up] = new
    BY <1>1, <1>4, <1>7
  <2>2. ASSUME NEW i \in 1 .. Len(right.separators)
        PROVE  LET x == right.separators[i].key
               IN  /\ r[x] = r[k]
                   /\ \E j \in Int : j < x /\ r[j] = r[k]
                   /\ \E e \in S : e.key = x
    <3> DEFINE x == right.separators[i].key
    <3>1. x \in Int /\ up < x /\ p[x] = pid /\ \E e \in S : e.key = x
      BY <1>3
    <3> HIDE DEF x
    <3>2. x >= up
      BY <1>1, <3>1
    <3>3. r[x] = new
      BY <1>4, <3>1, <3>2
    <3>4. /\ r[x] = r[k]
          /\ \E i1 \in Int : i1 < x /\ r[i1] = r[k]
          /\ \E e \in S : e.key = x
      BY <1>1, <2>1, <3>1, <3>3
    <3> QED
      BY <3>4 DEF x
  <2>3. Bounds(S, r, k, right)
    BY <2>2 DEF Bounds
  <2>4. child(right, k) = q[k]
    <3>1. ~ (k < up)
      BY <1>1, <1>7
    <3> QED
      BY <1>1, <1>7, <3>1
  <2>5. readInternal(u, r[k]) = right
    BY <2>1 DEF right
  <2> QED
    BY <1>1, <1>a, <2>3, <2>4, <2>5 DEF NodeHolds
<1> QED
  BY <1>1, <1>5, <1>6, <1>7

\* propagate: where the node has no room it splits in its turn, and the split below
\* it is done.
LEMMA PropagateSplits ==
  ASSUME NEW t, NEW S, NEW Q, NEW l, NEW id, Pending(t, S, Q, l, id), l > 0,
         NEW pid, pid = Q[l - 1][t.promoted.key], NEW node, node = readInternal(t, pid),
         NEW more, more = WithSeparator(node, t.promoted),
         ~ (Len(more.separators) <= t.capacity),
         NEW u, u = SplitNode(t, pid, more)
  PROVE  /\ u.capacity = t.capacity /\ u.depth = t.depth /\ u.rootBID = t.rootBID
         /\ SplitAbove(u, S, Q, l, pid)
<1> DEFINE d == t.depth
           last == t.numOfNodes
           new == last + 1
           s == t.promoted.key
           W == Whole(Q, l, last, id)
           h == l - 1
           p == Q[h]
           q == Q[l]
           up == u.promoted.key
           R == Divide(Q, h, pid, up, new)
           r == R[h]
<1>1. /\ s \in Int /\ l \in 1 .. d /\ h \in 0 .. d /\ h \in 0 .. d - 1
      /\ \A m \in 0 .. d : m # l => W[m] = Q[m]
      /\ \A k \in Int : NodeHolds(t, S, p, W[l], k)
      /\ \A k \in Int : p[k] # p[s] => W[l][k] = q[k]
      /\ \A k \in Int : Q[0][k] = t.rootBID
  BY PendingFacts
<1>2. Tree(t, S, Q, W)
  BY DEF Pending
<1>3. t.capacity \in Nat /\ d \in Nat /\ last \in Nat /\ Sound(t)
  BY <1>2, TreeFacts
<1>4. Paths(Q, d, last)
  BY <1>2, TreeFacts
<1>5. /\ Gains(t, S, Q, l, pid, more) /\ GoodNode(node, t.capacity)
      /\ Len(more.separators) = Len(node.separators) + 1
  BY NodeGains
<1>6. Within(Q, d, last) /\ Apart(Q, d) /\ \A m \in 0 .. d : Convex(Q[m])
  <2> HIDE DEF d, last
  <2> QED
    BY <1>3, <1>4, OnLevels
<1>7. /\ \A k \in Int : LeafHolds(t, S, Q[d], k)
      /\ \A m \in 0 .. d - 1 : \A k \in Int : NodeHolds(t, S, Q[m], W[m + 1], k)
  BY <1>2 DEF Tree
<1>8. p[s] = pid /\ pid \in 1 .. last
  BY <1>1, <1>6 DEF Within
<1>9. Len(more.separators) = t.capacity + 1
  <2>1. Len(node.separators) \in Nat /\ Len(node.separators) <= t.capacity
    <3>1. node \in NodeType /\ Len(node.separators) <= t.capacity
      BY <1>5 DEF GoodNode
    <3>2. node.separators \in Seq(EntryType)
      BY <3>1, SeparatorsOf
    <3> QED
      BY <3>1, <3>2
  <2>2. ~ (Len(more.separators) <= t.capacity)
    OBVIOUS
  <2>3. Len(more.separators) = Len(node.separators) + 1
    BY <1>5
  <2>4. t.capacity \in Nat
    BY <1>3
  <2> QED
    BY <2>1, <2>2, <2>3, <2>4
<1>10. /\ Sound(u) /\ Untouched(u, t, pid) /\ u.numOfNodes = new
       /\ up \in Int /\ u.promoted.value = new /\ HalvesOf(t, u, S, Q, l, pid, more)
  <2>1. \E k \in Int : Q[l - 1][k] = pid
    BY <1>1, <1>8
  <2>2. Sound(t) /\ pid \in 1 .. t.numOfNodes
    BY <1>3, <1>8
  <2>3. u = SplitNode(t, pid, more)
    OBVIOUS
  <2>4. NodeInTwo(t, u, S, Q, l, pid, more)
    BY <1>5, <1>9, <2>1, <2>2, <2>3, NodeHalves
  <2>5. /\ Sound(u) /\ Untouched(u, t, pid) /\ u.numOfNodes = new
        /\ u.promoted.value = new /\ HalvesOf(t, u, S, Q, l, pid, more)
    BY <2>4 DEF NodeInTwo
  <2> QED
    BY <2>5 DEF HalvesOf
<1>11. /\ up # 0 /\ p[up] = pid
       /\ \E k \in Int : k < up /\ p[k] = pid
       /\ \E e \in S : e.key = up
       /\ \A j, k \in Int : p[j] = pid /\ p[k] = pid /\ q[j] = q[k] => (j < up <=> k < up)
  BY <1>10 DEF HalvesOf
<1>a. h + 1 = l /\ R = Divide(Q, h, pid, up, new) /\ p = Q[h] /\ q = Q[l] /\ r = R[h]
      /\ new = last + 1 /\ new \in Nat
  BY <1>1, <1>3
<1>b. up \in Int
  BY <1>10, Zenon
<1> HIDE DEF up, new, R, W, d, last, h, p, q
<1>12. \A j, k \in Int : q[j] = q[k] => p[j] = p[k]
  <2>1. \A m \in 1 .. d : \A j, k \in Int : Q[m][j] = Q[m][k] => Q[m - 1][j] = Q[m - 1][k]
    BY <1>4, Zenon DEF Paths
  <2> QED
    BY <1>1, <2>1 DEF h, p, q
<1>13. \A k \in Int : p[k] \in 1 .. last /\ p[k] # new
  BY <1>1, <1>3, <1>6, <1>a DEF Within
<1>14. Paths(R, d, new)
  <2>1. ASSUME NEW j \in Int, NEW k \in Int, Q[h][j] = Q[h][up], Q[h + 1][j] = Q[h + 1][k]
        PROVE  j < up <=> k < up
    <3>1. p[j] = pid /\ q[j] = q[k]
      BY <1>11, <1>a, <2>1
    <3>2. p[k] = pid
      BY <1>12, <3>1
    <3> QED
      BY <1>11, <3>1, <3>2
  <2>2. \E k \in Int : k < up /\ Q[h][k] = Q[h][up]
    BY <1>11, <1>a
  <2>3. Paths(Divide(Q, h, Q[h][up], up, last + 1), d, last + 1)
    BY <1>1, <1>3, <1>4, <1>10, <2>1, <2>2, DividePaths
  <2> QED
    BY <1>11, <1>a, <2>3
<1>15. Whole(R, h, new, pid) = Q
  <2>1. Whole(Divide(Q, h, pid, up, last + 1), h, last + 1, pid) = Q
    <3>1. d \in Nat /\ last \in Nat /\ h \in 0 .. d
      BY <1>1, <1>3
    <3> QED
      BY <1>4, <1>b, <3>1, WholeDivide
  <2> QED
    BY <1>a, <2>1
<1>16. /\ \A k \in Int : r[k] = IF p[k] = pid /\ k >= up THEN new ELSE p[k]
       /\ \A m \in 0 .. d : m # h => R[m] = Q[m]
  <2>1. /\ \A k \in Int : R[h][k] = IF Q[h][k] = pid /\ k >= up THEN new ELSE Q[h][k]
        /\ \A m \in 0 .. d : m # h => R[m] = Q[m]
    <3>1. d \in Nat /\ Paths(Q, d, last) /\ h \in 0 .. d /\ up \in Int
      BY <1>1, <1>3, <1>4, <1>10
    <3>2. R = Divide(Q, h, pid, up, new)
      BY <1>a
    <3>3. ASSUME NEW k \in Int PROVE R[h][k] = IF Q[h][k] = pid /\ k >= up THEN new ELSE Q[h][k]
      BY <3>1, <3>2, DivideAt
    <3>4. ASSUME NEW m \in 0 .. d, m # h PROVE R[m] = Q[m]
      BY <3>1, <3>2, <3>4, DivideAt
    <3> QED
      BY <3>3, <3>4
  <2> QED
    BY <1>a, <2>1
<1> HIDE DEF r
<1>17. Divided(p, r, pid, up, new)
  BY <1>10, <1>11, <1>13, <1>16 DEF Divided
<1>18. u.capacity = t.capacity /\ u.depth = d /\ u.rootBID = t.rootBID
  BY <1>10 DEF Untouched, d
<1>19. ASSUME NEW m \in 0 .. d, NEW k \in Int, m = h => Q[m][k] # pid
       PROVE  /\ readLeaf(u, Q[m][k]) = readLeaf(t, Q[m][k])
              /\ readInternal(u, Q[m][k]) = readInternal(t, Q[m][k])
  <2>1. Q[m][k] \in 1 .. last
    BY <1>6 DEF Within
  <2>2. Q[m][k] # pid
    BY <1>1, <1>6, <1>8, <1>19, <1>a DEF Apart
  <2> QED
    BY <1>10, <2>1, <2>2 DEF Untouched, last
<1>20. ASSUME NEW k \in Int PROVE LeafHolds(u, S, R[d], k)
  <2>1. d \in 0 .. d /\ d # h
    BY <1>1, <1>3
  <2>2. R[d] = Q[d]
    BY <1>16, <2>1
  <2>3. LeafHolds(t, S, Q[d], k) /\ readLeaf(u, Q[d][k]) = readLeaf(t, Q[d][k])
    BY <1>7, <1>19, <2>1
  <2>4. LeafHolds(u, S, Q[d], k)
    BY <1>18, <2>3, LeafKept
  <2> QED
    BY <2>2, <2>4
<1>21. ASSUME NEW m \in 0 .. d - 1, NEW k \in Int PROVE NodeHolds(u, S, R[m], Q[m + 1], k)
  <2>1. m \in 0 .. d /\ m + 1 \in 0 .. d /\ (m # h => m + 1 # l)
    BY <1>1, <1>3, <1>a
  <2>2. CASE m = h
    <3>1. ASSUME p[k] # pid
          PROVE  W[l][k] = q[k] /\ readInternal(u, p[k]) = readInternal(t, p[k])
      BY <1>1, <1>8, <1>19, <1>a, <2>1, <2>2, <3>1
    <3>2. NodeHolds(t, S, p, W[l], k)
      BY <1>1
    <3>3. u.capacity = t.capacity /\ HalvesOf(t, u, S, Q, l, pid, more)
      BY <1>10, <1>18
    <3>4. p = Q[l - 1] /\ q = Q[l]
      BY DEF p, q, h
    <3>5. Divided(p, r, pid, u.promoted.key, u.numOfNodes)
      BY <1>10, <1>17 DEF up
    <3>6. PICK w : w = W[l]
      OBVIOUS
    <3>7. NodeHolds(t, S, p, w, k)
      BY <3>2, <3>6
    <3>8. NodeAside(t, u, pid, p, q, w, k)
      BY <3>1, <3>6 DEF NodeAside
    <3>a. LevelDivided(t, u, S, Q, l, pid, more, p, q, r)
      BY <3>3, <3>4, <3>5 DEF LevelDivided
    <3>9. NodeHolds(u, S, r, q, k)
      BY <3>7, <3>8, <3>a, NodeDivided
    <3> QED
      BY <1>a, <2>2, <3>9
  <2>3. CASE m # h
    <3>1. NodeHolds(t, S, Q[m], Q[m + 1], k)
      BY <1>1, <1>7, <2>1, <2>3
    <3>2. readInternal(u, Q[m][k]) = readInternal(t, Q[m][k]) /\ u.capacity = t.capacity
      BY <1>18, <1>19, <2>1, <2>3
    <3>3. NodeHolds(u, S, Q[m], Q[m + 1], k)
      BY <3>1, <3>2, NodeKept
    <3> QED
      BY <1>16, <2>1, <2>3, <3>3
  <2> QED
    BY <2>2, <2>3
<1>22. Tree(u, S, R, Q)
  <2>1. Sound(u) /\ Paths(R, u.depth, u.numOfNodes)
    BY <1>10, <1>14, <1>18
  <2>2. \A k \in Int : LeafHolds(u, S, R[u.depth], k)
    BY <1>18, <1>20
  <2>3. \A m \in 0 .. u.depth - 1 : \A k \in Int : NodeHolds(u, S, R[m], Q[m + 1], k)
    BY <1>18, <1>21
  <2>4. \A k \in Int : Q[0][k] = u.rootBID
    BY <1>1, <1>18
  <2> QED
    BY <2>1, <2>2, <2>3, <2>4, Zenon DEF Tree
<1>23. h \in 0 .. u.depth /\ pid \in 1 .. new - 1 /\ pid # new
  <2>1. h \in 0 .. d /\ u.depth = d /\ last \in Nat /\ pid \in 1 .. last /\ new = last + 1
    BY <1>1, <1>3, <1>8, <1>18, <1>a
  <2> QED
    BY <2>1
<1>24. /\ \A k \in Int : r[k] = new => k >= up
       /\ \A k \in Int : r[k] = pid => k < up
       /\ r[up] = new
  <2>1. \A k \in Int : p[k] # new
    BY <1>13
  <2>2. \A k \in Int : r[k] = new => k >= up
    BY <1>16, <2>1
  <2>3. \A k \in Int : r[k] = pid => ~ (k >= up)
    BY <1>16, <1>23
  <2>4. \A k \in Int : ~ (k >= up) => k < up
    BY <1>b
  <2>5. r[up] = new
    <3>1. p[up] = pid
      BY <1>11
    <3> QED
      BY <1>16, <1>b, <3>1
  <2> QED
    BY <2>2, <2>3, <2>4, <2>5
<1>25. \E k \in Int : k < up /\ r[k] = pid
  <2>1. PICK k \in Int : k < up /\ p[k] = pid
    BY <1>11
  <2>2. ~ (k >= up)
    BY <1>b, <2>1
  <2> QED
    BY <1>16, <2>1, <2>2
<1>26. ASSUME h > 0, NEW j \in Int, R[h][j] = pid PROVE R[h - 1][j] = R[h - 1][up]
  <2>1. h - 1 \in 0 .. d /\ h - 1 # h /\ h \in 1 .. d
    BY <1>1, <1>3, <1>26
  <2>2. Q[h][j] = Q[h][up]
    BY <1>11, <1>16, <1>23, <1>26, <1>a
  <2>3. \A m \in 1 .. d : \A i, k \in Int : Q[m][i] = Q[m][k] => Q[m - 1][i] = Q[m - 1][k]
    BY <1>4, Zenon DEF Paths
  <2>4. Q[h - 1][j] = Q[h - 1][up]
    BY <1>b, <2>1, <2>2, <2>3
  <2> QED
    BY <1>16, <2>1, <2>4
<1>27. Pending(u, S, R, h, pid)
  <2>1. Tree(u, S, R, Whole(R, h, u.numOfNodes, pid))
    BY <1>10, <1>15, <1>22
  <2>2. h > 0 => \A j \in Int : R[h][j] = pid => R[h - 1][j] = R[h - 1][up]
    BY <1>26
  <2>3. u.promoted.key = up /\ u.promoted.value = new /\ u.numOfNodes = new
    BY <1>10 DEF up
  <2>4. /\ \A k \in Int : R[h][k] = new => k >= up
        /\ \A k \in Int : R[h][k] = pid => k < up
        /\ R[h][up] = new
        /\ \E k \in Int : k < up /\ R[h][k] = pid
    BY <1>24, <1>25, <1>a
  <2>5. up # 0 /\ \E e \in S : e.key = up
    BY <1>11
  <2> QED
    BY <1>23, <2>1, <2>2, <2>3, <2>4, <2>5, ZenonT(30) DEF Pending
<1>28. \A m \in 0 .. l - 2 : R[m] = Q[m]
  <2>1. \A m \in 0 .. l - 2 : m \in 0 .. d /\ m # h
    BY <1>1, <1>3, <1>a
  <2> QED
    BY <1>16, <2>1
<1>29. \A k \in Int : Q[l - 1][k] = pid => R[l - 1][k] \in {pid, u.numOfNodes}
  BY <1>10, <1>16, <1>a DEF h
<1>30. SplitAbove(u, S, Q, l, pid)
  BY <1>27, <1>28, <1>29 DEF SplitAbove, h
<1> QED
  BY <1>18, <1>30 DEF d

\* What propagate leaves of a split on level l.
Propagated(v, t, S, Q, l, pid) ==
  \/ Becomes(v, t, S)
  \/ /\ l > 1 /\ v.capacity = t.capacity /\ v.depth = t.depth /\ v.rootBID = t.rootBID
     /\ SplitAbove(v, S, Q, l, pid)

\* propagate: a split is done, or it is one level higher.
LEMMA Propagate ==
  ASSUME NEW t, NEW S, NEW Q, NEW l, NEW id, Pending(t, S, Q, l, id), l > 0,
         NEW pid, pid = Q[l - 1][t.promoted.key]
  PROVE  Propagated(propagate(t, pid), t, S, Q, l, pid)
<1> DEFINE node == readInternal(t, pid)
           more == WithSeparator(node, t.promoted)
           separators == more.separators
           fit == [writeInternal(t, pid, node.firstChild, separators) EXCEPT !.promoted = NO_SPLIT]
           u == SplitNode(t, pid, more)
<1>1. propagate(t, pid) = IF Len(separators) <= t.capacity THEN fit
                          ELSE IF pid = t.rootBID THEN newRoot(u) ELSE u
  BY DEF propagate, WithSeparator, SplitNode
<1>2. CASE Len(separators) <= t.capacity
  <2>1. Becomes(fit, t, S)
    BY <1>2, PropagateFits
  <2> HIDE DEF fit
  <2> QED
    BY <1>1, <1>2, <2>1 DEF Propagated
<1>3. CASE ~ (Len(separators) <= t.capacity)
  <2> HIDE DEF u, more, node
  <2>0. node = readInternal(t, pid) /\ more = WithSeparator(node, t.promoted) /\ u = SplitNode(t, pid, more)
    BY DEF node, more, u
  <2>1. u.capacity = t.capacity /\ u.depth = t.depth /\ u.rootBID = t.rootBID /\ SplitAbove(u, S, Q, l, pid)
    BY <1>3, <2>0, PropagateSplits
  <2>2. t.promoted.key \in Int /\ l \in 1 .. t.depth /\ l - 1 \in 0 .. t.depth
        /\ \A k \in Int : Q[0][k] = t.rootBID
    BY PendingFacts
  <2>3. CASE l = 1
    <3>1. pid = t.rootBID
      BY <2>2, <2>3
    <3>2. PICK R : Pending(u, S, R, l - 1, pid)
      BY <2>1 DEF SplitAbove
    <3>3. Pending(u, S, R, 0, u.rootBID)
      BY <2>1, <2>3, <3>1, <3>2
    <3>4. Becomes(newRoot(u), u, S)
      BY <3>3, NewRoot
    <3>5. propagate(t, pid) = newRoot(u)
      BY <1>1, <1>3, <3>1
    <3> QED
      BY <2>1, <3>4, <3>5 DEF Propagated, Becomes
  <2>4. CASE l # 1
    <3>1. Tree(t, S, Q, Whole(Q, l, t.numOfNodes, id))
      BY DEF Pending
    <3>2. t.depth \in Nat /\ Paths(Q, t.depth, t.numOfNodes)
      BY <3>1, TreeFacts
    <3>3. Apart(Q, t.depth)
      BY <3>2, OnLevels
    <3>4. 0 \in 0 .. t.depth /\ l - 1 # 0 /\ l > 1
      BY <2>2, <2>4, <3>2
    <3>5. pid # t.rootBID
      BY <2>2, <3>3, <3>4 DEF Apart
    <3>6. propagate(t, pid) = u
      BY <1>1, <1>3, <3>5
    <3> QED
      BY <2>1, <3>4, <3>6 DEF Propagated
  <2> QED
    BY <2>3, <2>4
<1> QED
  BY <1>2, <1>3

\* A pending split has a promoted entry: insertAlongPath does not stop early.
LEMMA PromotedPending ==
  ASSUME NEW t, NEW S, NEW Q, NEW l, NEW id, Pending(t, S, Q, l, id)
  PROVE  t.promoted # NO_SPLIT
<1>1. t.promoted.value = t.numOfNodes /\ Tree(t, S, Q, Whole(Q, l, t.numOfNodes, id))
  BY DEF Pending
<1>2. t.numOfNodes \in Nat
  BY <1>1, TreeFacts
<1> QED
  BY <1>1, <1>2 DEF NO_SPLIT, Entry

\* One step of insertAlongPath up the path.
LEMMA ClimbStep ==
  ASSUME NEW u, NEW t, NEW S, NEW P, NEW key \in Int, NEW l, l > 0, Split(u, t, S, P, key, l)
  PROVE  /\ u.promoted # NO_SPLIT
         /\ \/ Becomes(propagate(u, P[l - 1][key]), t, S)
            \/ l > 1 /\ Split(propagate(u, P[l - 1][key]), t, S, P, key, l - 1)
<1>1. PICK Q : /\ Pending(u, S, Q, l, P[l][key])
               /\ \A m \in 0 .. l - 1 : Q[m] = P[m]
               /\ Q[l][key] \in {P[l][key], u.numOfNodes}
  BY DEF Split
<1> DEFINE id == P[l][key]
           pid == P[l - 1][key]
           s == u.promoted.key
           v == propagate(u, pid)
<1> HIDE DEF v
<1>2. u.promoted # NO_SPLIT
  BY <1>1, PromotedPending
<1>3. /\ s \in Int /\ l \in 1 .. u.depth /\ l - 1 \in 0 .. u.depth /\ Q[l][s] = u.numOfNodes
  BY <1>1, PendingFacts
<1>4. Tree(u, S, Q, Whole(Q, l, u.numOfNodes, id))
  BY <1>1 DEF Pending
<1>5. u.depth \in Nat /\ Paths(Q, u.depth, u.numOfNodes)
  BY <1>4, TreeFacts
<1>6. pid = Q[l - 1][s]
  <2>1. Q[l - 1][key] = pid
    <3>1. l - 1 \in 0 .. l - 1
      BY <1>3, <1>5
    <3> QED
      BY <1>1, <3>1
  <2>2. CASE Q[l][key] = id
    <3>1. \A j \in Int : Q[l][j] = id => Q[l - 1][j] = Q[l - 1][s]
      BY <1>1 DEF Pending
    <3> QED
      BY <2>1, <2>2, <3>1
  <2>3. CASE Q[l][key] = u.numOfNodes
    <3>1. \A m \in 1 .. u.depth : \A i, k \in Int : Q[m][i] = Q[m][k] => Q[m - 1][i] = Q[m - 1][k]
      BY <1>5, Zenon DEF Paths
    <3> QED
      BY <1>3, <2>1, <2>3, <3>1
  <2> QED
    BY <1>1, <2>2, <2>3
<1>7. Propagated(v, u, S, Q, l, pid)
  BY <1>1, <1>6, Propagate DEF v
<1>8. CASE Becomes(v, u, S)
  BY <1>2, <1>8 DEF v, Becomes, Split
<1>9. ASSUME l > 1, v.capacity = u.capacity, v.depth = u.depth, v.rootBID = u.rootBID, SplitAbove(v, S, Q, l, pid)
      PROVE  l > 1 /\ Split(v, t, S, P, key, l - 1)
  <2>1. PICK R : /\ Pending(v, S, R, l - 1, pid)
                 /\ \A m \in 0 .. l - 2 : R[m] = Q[m]
                 /\ \A k \in Int : Q[l - 1][k] = pid => R[l - 1][k] \in {pid, v.numOfNodes}
    BY <1>9 DEF SplitAbove
  <2>2. v.capacity = t.capacity /\ v.depth = t.depth /\ v.rootBID = t.rootBID
    BY <1>9 DEF Split
  <2>3. \A m \in 0 .. (l - 1) - 1 : R[m] = P[m]
    <3>1. l \in Int /\ l - 2 = (l - 1) - 1
      BY <1>3
    <3>2. \A m \in 0 .. l - 2 : m \in 0 .. l - 1
      BY <3>1
    <3> QED
      BY <1>1, <2>1, <3>1, <3>2
  <2>4. Q[l - 1][key] = pid
    BY <1>1, <1>3, <1>5
  <2>5. R[l - 1][key] \in {P[l - 1][key], v.numOfNodes}
    BY <2>1, <2>4
  <2> QED
    BY <1>9, <2>1, <2>2, <2>3, <2>5 DEF Split
<1> QED
  BY <1>2, <1>7, <1>8, <1>9 DEF Propagated, v

-----------------------------------------------------------------------------
(* insert, from the leaf to the root                                       *)

\* In a tree at rest getPath finds the blocks that P leads to.
LEMMA PathOf ==
  ASSUME NEW t, NEW S, NEW P, Tree(t, S, P, P), NEW key \in Int
  PROVE  \A level \in 0 .. t.depth : getPath(t, key)[level] = P[level][key]
<1> DEFINE d == t.depth
           p == [level \in 0 .. d |-> P[level][key]]
<1>1. d \in Nat /\ P[0][key] = t.rootBID
      /\ \A l \in 0 .. d - 1 : NodeHolds(t, S, P[l], P[l + 1], key)
  BY TreeFacts
<1>2. ASSUME NEW level \in 0 .. d
      PROVE  p[level] = IF level = 0 THEN t.rootBID ELSE child(readInternal(t, p[level - 1]), key)
  <2>1. CASE level = 0
    BY <1>1, <2>1
  <2>2. CASE level # 0
    <3>1. level - 1 \in 0 .. d - 1 /\ level - 1 \in 0 .. d /\ (level - 1) + 1 = level
      BY <1>1, <2>2
    <3>2. NodeHolds(t, S, P[level - 1], P[level], key)
      BY <1>1, <3>1
    <3>3. child(readInternal(t, P[level - 1][key]), key) = P[level][key]
      BY <3>2 DEF NodeHolds
    <3>4. p[level - 1] = P[level - 1][key] /\ p[level] = P[level][key]
      BY <3>1
    <3> HIDE DEF p
    <3> QED
      BY <2>2, <3>3, <3>4
  <2> QED
    BY <2>1, <2>2
<1>3. p = [level \in 0 .. d |->
             IF level = 0 THEN t.rootBID ELSE child(readInternal(t, p[level - 1]), key)]
  <2>1. p = [level \in 0 .. d |-> p[level]]
    OBVIOUS
  <2> HIDE DEF p
  <2> QED
    BY <1>2, <2>1
<1> HIDE DEF p
<1>4. getPath(t, key) = p
  BY <1>1, <1>3, PathIs
<1> QED
  BY <1>4 DEF p

\* insertAlongPath from the leaf up to a level.
Above(below, id) == IF below.promoted = NO_SPLIT THEN below ELSE propagate(below, id)

\* insertAlongPath down to a level, as the equation its values satisfy.
Climb(t, entry, path, first, c) ==
  [level \in first .. t.depth |->
    IF level = t.depth THEN insertLeaf(t, entry, path[level]) ELSE Above(c[level + 1], path[level])]

\* The equation has a solution, level by level from the leaf.
LEMMA ClimbExists ==
  ASSUME NEW t, t.depth \in Nat, NEW entry, NEW path
  PROVE  \E c : c = Climb(t, entry, path, 0, c)
<1> DEFINE d == t.depth
           T == {n \in 0 .. d : ~ \E c : c = Climb(t, entry, path, d - n, c)}
<1>1. d \in Nat
  OBVIOUS
<1>2. SUFFICES ASSUME T # {} PROVE FALSE
  <2>1. d \in 0 .. d /\ d - d = 0
    BY <1>1
  <2>2. d \notin T => \E c : c = Climb(t, entry, path, d - d, c)
    BY <2>1
  <2> HIDE DEF T
  <2> QED
    BY <2>1, <2>2
<1>3. PICK m \in T : \A n \in T : m <= n
  <2>1. T \subseteq Nat
    OBVIOUS
  <2> HIDE DEF T
  <2> QED
    BY <1>2, <2>1, LeastNumber, Zenon
<1>4. m \in 0 .. d /\ ~ \E c : c = Climb(t, entry, path, d - m, c)
  OBVIOUS
<1>5. CASE m = 0
  <2> DEFINE c == [level \in d .. d |-> insertLeaf(t, entry, path[level])]
  <2>1. \A level \in d - m .. d : level = d
    BY <1>1, <1>5
  <2>2. c = Climb(t, entry, path, d - m, c)
    <3>1. d - m = d
      BY <1>1, <1>5
    <3>2. Climb(t, entry, path, d, c) = [level \in d .. d |-> insertLeaf(t, entry, path[level])]
      BY <1>5, <2>1, <3>1 DEF Climb
    <3> QED
      BY <3>1, <3>2
  <2> QED
    BY <1>4, <2>2
<1>6. CASE m # 0
  <2>1. m - 1 \in 0 .. d /\ ~ (m <= m - 1) /\ d - m \in 0 .. d /\ d - m # d
        /\ d - (m - 1) = (d - m) + 1
    BY <1>1, <1>4, <1>6
  <2>2. m - 1 \notin T
    <3> HIDE DEF T
    <3> QED
      BY <1>3, <2>1
  <2>3. PICK c : c = Climb(t, entry, path, (d - m) + 1, c)
    BY <2>1, <2>2
  <2> DEFINE first == d - m
             b == [level \in first .. d |->
                    IF level = first THEN Above(c[level + 1], path[level]) ELSE c[level]]
  <2>4. first \in 0 .. d /\ first # d
    BY <2>1
  <2> HIDE DEF first
  <2>5. \A level \in first .. d : level # first => level \in first + 1 .. d
    BY <1>1, <2>4
  <2>6. \A level \in first .. d : level # d => level + 1 \in first + 1 .. d /\ level + 1 \in first .. d /\ level + 1 # first
    BY <1>1, <2>4
  <2>7. ASSUME NEW level \in first + 1 .. d
        PROVE  c[level] = IF level = d THEN insertLeaf(t, entry, path[level])
                          ELSE Above(c[level + 1], path[level])
    <3>1. c = [i \in first + 1 .. d |->
                IF i = t.depth THEN insertLeaf(t, entry, path[i]) ELSE Above(c[i + 1], path[i])]
      BY <2>3 DEF Climb, first
    <3>2. \A f : f = [i \in first + 1 .. d |->
                IF i = t.depth THEN insertLeaf(t, entry, path[i]) ELSE Above(c[i + 1], path[i])]
             => f[level] = IF level = d THEN insertLeaf(t, entry, path[level])
                          ELSE Above(c[level + 1], path[level])
      OBVIOUS
    <3> QED
      BY <3>1, <3>2, Zenon
  <2>8. \A level \in first .. d : b[level] = IF level = first THEN Above(c[level + 1], path[level]) ELSE c[level]
    OBVIOUS
  <2>9. b = [level \in first .. d |-> b[level]]
    OBVIOUS
  <2> HIDE DEF b
  <2>10. \A level \in first .. d : level # d => b[level + 1] = c[level + 1]
    BY <2>6, <2>8
  <2>11. ASSUME NEW level \in first .. d
         PROVE  b[level] = IF level = d THEN insertLeaf(t, entry, path[level])
                           ELSE Above(b[level + 1], path[level])
    <3>1. CASE level = first
      BY <2>4, <2>8, <2>10, <3>1
    <3>2. CASE level # first
      BY <2>5, <2>7, <2>8, <2>10, <3>2
    <3> QED
      BY <3>1, <3>2
  <2>12. b = [level \in first .. d |->
               IF level = d THEN insertLeaf(t, entry, path[level]) ELSE Above(b[level + 1], path[level])]
    BY <2>9, <2>11
  <2>13. b = Climb(t, entry, path, d - m, b)
    BY <2>12 DEF Climb, first
  <2> QED
    BY <1>4, <2>13
<1> QED
  BY <1>5, <1>6

\* insertAlongPath: its values on the levels of the path.
LEMMA AlongPath ==
  ASSUME NEW t, t.depth \in Nat, NEW entry
  PROVE  \E c : /\ insertAlongPath(t, entry) = c[0]
                /\ \A level \in 0 .. t.depth :
                     c[level] = IF level = t.depth
                                  THEN insertLeaf(t, entry, getPath(t, entry.key)[level])
                                ELSE Above(c[level + 1], getPath(t, entry.key)[level])
<1> DEFINE path == getPath(t, entry.key)
           R(f) == Climb(t, entry, path, 0, f)
           g == CHOOSE c : c = R(c)
<1>1. insertAlongPath(t, entry) = g[0]
  BY DEF insertAlongPath, Climb, Above
<1>2. g = R(g)
  <2>1. \E c : c = R(c)
    BY ClimbExists
  <2> HIDE DEF R
  <2> QED
    BY <2>1
<1> HIDE DEF g
<1>3. g = [level \in 0 .. t.depth |->
            IF level = t.depth THEN insertLeaf(t, entry, path[level]) ELSE Above(g[level + 1], path[level])]
  BY <1>2 DEF Climb
<1> HIDE DEF path
<1>4. \A level \in 0 .. t.depth :
        g[level] = IF level = t.depth THEN insertLeaf(t, entry, path[level])
                   ELSE Above(g[level + 1], path[level])
  BY <1>3
<1> QED
  BY <1>1, <1>4 DEF path

\* insertLeaf: the entry is in the tree, or it is and a split is pending.
LEMMA InsertLeaf ==
  ASSUME NEW t, NEW S, NEW P, NEW e, Held(t, S, P), New(S, e)
  PROVE  \/ /\ Len(WithEntry(t, e, P[t.depth][e.key])) <= t.capacity
            /\ Becomes(insertLeaf(t, e, P[t.depth][e.key]), t, S \cup {e})
         \/ /\ ~ (Len(WithEntry(t, e, P[t.depth][e.key])) <= t.capacity)
            /\ Split(insertLeaf(t, e, P[t.depth][e.key]), t, S \cup {e}, P, e.key, t.depth)
<1> DEFINE n == Len(WithEntry(t, e, P[t.depth][e.key]))
<1>1. n <= t.capacity => Becomes(insertLeaf(t, e, P[t.depth][e.key]), t, S \cup {e})
  BY InsertLeafFits
<1>2. ASSUME ~ (n <= t.capacity) PROVE n > t.capacity
  <2>1. Tree(t, S, P, P) /\ e.key \in Int
    BY DEF Held, New, EntryType
  <2>2. t.capacity \in Nat /\ P[t.depth] \in [Int -> Int] /\ LeafHolds(t, S, P[t.depth], e.key)
    <3>1. t.capacity \in Nat \ {0} /\ P[t.depth] \in [Int -> Int]
      BY <2>1, TreeFacts, Zenon
    <3>2. \A k \in Int : LeafHolds(t, S, P[t.depth], k)
      BY <2>1 DEF Tree
    <3> QED
      BY <2>1, <3>1, <3>2
  <2>3. PICK p : p = P[t.depth]
    OBVIOUS
  <2>4. Lists(WithEntry(t, e, p[e.key]), t.capacity + 1, S \cup {e}, p, p[e.key])
    BY <2>2, <2>3, LeafAdds
  <2>5. n \in Nat
    BY <2>3, <2>4 DEF Lists, Fits
  <2> HIDE DEF n
  <2> QED
    BY <1>2, <2>2, <2>5
<1>3. n > t.capacity => Split(insertLeaf(t, e, P[t.depth][e.key]), t, S \cup {e}, P, e.key, t.depth)
  BY InsertLeafSplits
<1> QED
  BY <1>1, <1>2, <1>3

\* From the leaf up to the root.
Rises(v, t, S, P, key, l) ==
  \/ Becomes(v, t, S)
  \/ l > 0 /\ Split(v, t, S, P, key, l)

\* insert into a tree with internal nodes: at the root no split is left.
LEMMA InsertAlong ==
  ASSUME NEW t, NEW S, NEW P, NEW e, Held(t, S, P), New(S, e), t.depth > 0
  PROVE  Becomes(insertAlongPath(t, e), t, S \cup {e})
<1> DEFINE d == t.depth
           key == e.key
           T == S \cup {e}
           path == getPath(t, key)
           Good(v, l) == Rises(v, t, T, P, key, l)
<1>1. Tree(t, S, P, P) /\ key \in Int /\ d > 0
  BY DEF Held, New, EntryType
<1>2. d \in Nat
  BY <1>1, TreeFacts
<1>3. \A l \in 0 .. d : path[l] = P[l][key]
  BY <1>1, PathOf
<1>4. PICK c : /\ insertAlongPath(t, e) = c[0]
               /\ \A level \in 0 .. d :
                    c[level] = IF level = d THEN insertLeaf(t, e, path[level])
                               ELSE Above(c[level + 1], path[level])
  BY <1>2, AlongPath
<1> HIDE DEF path
<1>5. Good(c[d], d)
  <2>1. c[d] = insertLeaf(t, e, P[d][key])
    BY <1>2, <1>3, <1>4
  <2>2. \/ Becomes(insertLeaf(t, e, P[d][key]), t, T)
        \/ Split(insertLeaf(t, e, P[d][key]), t, T, P, key, d)
    BY InsertLeaf
  <2> HIDE DEF T, key, d
  <2> QED
    BY <1>1, <2>1, <2>2 DEF Rises
<1>6. ASSUME NEW l \in 1 .. d, Good(c[l], l) PROVE Good(c[l - 1], l - 1)
  <2>1. l - 1 \in 0 .. d /\ l - 1 # d /\ (l - 1) + 1 = l /\ l > 0 /\ (l > 1 => l - 1 > 0)
    BY <1>2
  <2>2. c[l - 1] = Above(c[l], P[l - 1][key])
    BY <1>3, <1>4, <2>1
  <2>3. CASE Becomes(c[l], t, T)
    <3>1. c[l].promoted = NO_SPLIT
      BY <2>3 DEF Becomes, Held
    <3> QED
      BY <2>2, <2>3, <3>1 DEF Above, Rises
  <2>4. CASE Split(c[l], t, T, P, key, l)
    <3>1. PICK u : u = c[l]
      OBVIOUS
    <3>2. /\ u.promoted # NO_SPLIT
          /\ \/ Becomes(propagate(u, P[l - 1][key]), t, T)
             \/ l > 1 /\ Split(propagate(u, P[l - 1][key]), t, T, P, key, l - 1)
      <4> HIDE DEF T, d, key
      <4> QED
        BY <1>1, <2>1, <2>4, <3>1, ClimbStep
    <3>3. c[l - 1] = propagate(u, P[l - 1][key])
      BY <2>2, <3>1, <3>2 DEF Above
    <3> HIDE DEF T, key, d
    <3> QED
      BY <2>1, <3>2, <3>3 DEF Rises
  <2> QED
    BY <1>6, <2>3, <2>4 DEF Rises
<1>7. Good(c[0], 0)
  <2> DEFINE N == {l \in 0 .. d : Good(c[l], l)}
  <2> HIDE DEF Good
  <2>1. N \subseteq Nat /\ N # {} /\ N \subseteq 0 .. d
    BY <1>2, <1>5
  <2>2. PICK l \in N : \A m \in N : l <= m
    <3> HIDE DEF N
    <3> QED
      BY <2>1, LeastNumber, Zenon
  <2>3. l = 0
    <3>1. SUFFICES ASSUME l # 0 PROVE FALSE
      OBVIOUS
    <3>2. l \in 1 .. d /\ l - 1 \in 0 .. d /\ ~ (l <= l - 1) /\ Good(c[l], l)
      BY <1>2, <2>1, <3>1
    <3>3. Good(c[l - 1], l - 1)
      BY <1>6, <3>2
    <3>4. l - 1 \in N
      BY <3>2, <3>3
    <3> HIDE DEF N
    <3> QED
      BY <2>2, <3>2, <3>4
  <2> QED
    BY <2>3
<1> QED
  BY <1>4, <1>7 DEF Rises

\* A tree of one block.
LEMMA InsertOnlyOne ==
  ASSUME NEW t, NEW S, NEW P, NEW e, Held(t, S, P), New(S, e), t.numOfNodes = 1
  PROVE  Becomes(insertIntoOnlyOne(t, e), t, S \cup {e})
<1> DEFINE d == t.depth
           T == S \cup {e}
           id == t.rootBID
           s == WithEntry(t, e, id)
           next == readLeaf(t, id).next
<1>1. Tree(t, S, P, P) /\ e.key \in Int
  BY DEF Held, New, EntryType
<1>2. d \in Nat /\ Paths(P, d, 1) /\ \A k \in Int : P[0][k] = id
  BY <1>1, TreeFacts
<1>3. Within(P, d, 1) /\ Apart(P, d)
  BY <1>2, OnLevels
<1>4. d = 0
  <2>1. SUFFICES ASSUME d # 0 PROVE FALSE
    OBVIOUS
  <2>2. 0 \in 0 .. d /\ 1 \in 0 .. d
    BY <1>2, <2>1
  <2>3. P[0][0] \in 1 .. 1 /\ P[1][0] \in 1 .. 1
    BY <1>3, <2>2 DEF Within
  <2>4. P[0][0] # P[1][0]
    BY <1>3, <2>2 DEF Apart
  <2> QED
    BY <2>3, <2>4
<1>5. P[d][e.key] = id
  BY <1>1, <1>2, <1>4
<1>6. next = 0
  <2>1. \A k \in Int : LeafHolds(t, S, P[d], k)
    BY <1>1 DEF Tree
  <2>2. Chained(P[0], e.key, next)
    BY <1>1, <1>4, <1>5, <2>1 DEF LeafHolds
  <2> HIDE DEF next
  <2> QED
    BY <1>1, <1>2, <2>2 DEF Chained
<1>7. insertLeaf(t, e, id) = IF Len(s) <= t.capacity THEN writeLeaf(t, id, s, next)
                             ELSE splitLeaf(t, id, s, next)
  BY DEF insertLeaf, WithEntry
<1>8. insertIntoOnlyOne(t, e) = IF Len(s) <= t.capacity THEN writeLeaf(t, id, s, next)
                                ELSE newRoot(splitLeaf(t, id, s, 0))
  BY DEF insertIntoOnlyOne, WithEntry
<1>9. \/ Len(s) <= t.capacity /\ Becomes(insertLeaf(t, e, id), t, T)
      \/ ~ (Len(s) <= t.capacity) /\ Split(insertLeaf(t, e, id), t, T, P, e.key, d)
  <2>1. \/ /\ Len(WithEntry(t, e, P[d][e.key])) <= t.capacity
           /\ Becomes(insertLeaf(t, e, P[d][e.key]), t, T)
        \/ /\ ~ (Len(WithEntry(t, e, P[d][e.key])) <= t.capacity)
           /\ Split(insertLeaf(t, e, P[d][e.key]), t, T, P, e.key, d)
    BY InsertLeaf
  <2> QED
    BY <1>5, <2>1
<1> HIDE DEF s, next, id, T
<1>10. CASE Len(s) <= t.capacity
  BY <1>7, <1>8, <1>9, <1>10 DEF T
<1>11. CASE ~ (Len(s) <= t.capacity)
  <2>1. PICK u : u = insertLeaf(t, e, id)
    OBVIOUS
  <2>2. insertIntoOnlyOne(t, e) = newRoot(u)
    BY <1>6, <1>7, <1>8, <1>11, <2>1
  <2>3. Split(u, t, T, P, e.key, 0)
    BY <1>4, <1>9, <1>11, <2>1
  <2>4. PICK Q : Pending(u, T, Q, 0, P[0][e.key])
    BY <2>3 DEF Split
  <2>5. u.capacity = t.capacity /\ u.rootBID = id
    BY <2>3 DEF Split, id
  <2>6. Pending(u, T, Q, 0, u.rootBID)
    BY <1>1, <1>2, <2>4, <2>5
  <2>7. Becomes(newRoot(u), u, T)
    BY <2>6, NewRoot
  <2> QED
    BY <2>2, <2>5, <2>7 DEF T, Becomes
<1> QED
  BY <1>10, <1>11

\* The first entry of a file.
LEMMA InsertEmpty ==
  ASSUME NEW t, Sound(t), t.numOfNodes = 0, t.depth = 0, t.promoted = NO_SPLIT,
         NEW e, New({}, e)
  PROVE  Becomes(insertEmpty(t, e), t, {e})
<1> DEFINE v == [t EXCEPT !.numOfNodes = 1, !.rootBID = 1]
           entries == <<e>>
           cap == t.capacity
           words == Words(entries, cap) \o <<0>>
           u == writeBlock(v, 1, words)
           p == [k \in Int |-> 1]
           P == [l \in 0 .. 0 |-> p]
<1>1. insertEmpty(t, e) = u
  BY DEF insertEmpty, writeLeaf
<1>2. /\ t \in TreeType /\ cap \in Nat /\ cap > 0 /\ Len(t.blocks) = 0
      /\ e \in EntryType /\ e.key # 0 /\ e.key \in Int
  BY DEF Sound, TreeType, New, EntryType
<1>3. /\ v \in TreeType /\ v.capacity = cap /\ v.depth = 0 /\ v.promoted = NO_SPLIT
      /\ v.numOfNodes = 1 /\ v.rootBID = 1 /\ v.blocks = t.blocks
  <2>1. t.depth = 0 /\ t.promoted = NO_SPLIT
    OBVIOUS
  <2>2. v \in TreeType
    <3> DEFINE w == [t EXCEPT !.numOfNodes = 1]
    <3>1. w \in TreeType /\ v = [w EXCEPT !.rootBID = 1]
      BY <1>2 DEF TreeType
    <3> HIDE DEF w, v
    <3> QED
      BY <3>1 DEF TreeType
  <2>3. v.capacity = cap /\ v.depth = t.depth /\ v.promoted = t.promoted
    BY <1>2 DEF TreeType
  <2>4. v.numOfNodes = 1 /\ v.rootBID = 1 /\ v.blocks = t.blocks
    BY <1>2 DEF TreeType
  <2> QED
    BY <2>1, <2>2, <2>3, <2>4
<1>4. entries \in Seq(EntryType) /\ Len(entries) = 1 /\ entries[1] = e
  BY <1>2
<1> HIDE DEF entries, v, cap
<1>5. Fits(entries, cap)
  BY <1>2, <1>4 DEF Fits
<1>6. words \in Seq(Int) /\ Len(words) = 2 * cap + 1
  BY <1>2, <1>5, LeafWords
<1> HIDE DEF words, u
<1>7. /\ u \in TreeType
      /\ u.capacity = cap /\ u.rootBID = 1 /\ u.depth = 0
      /\ u.numOfNodes = 1 /\ u.promoted = NO_SPLIT
      /\ Len(u.blocks) = 1 /\ u.blocks[1] = words
  <2>1. 1 \in 1 .. Len(v.blocks) + 1
    BY <1>2, <1>3
  <2>2. /\ u \in TreeType
        /\ u.capacity = v.capacity /\ u.rootBID = v.rootBID /\ u.depth = v.depth
        /\ u.numOfNodes = v.numOfNodes /\ u.promoted = v.promoted
        /\ Len(u.blocks) = IF 1 > Len(v.blocks) THEN 1 ELSE Len(v.blocks)
        /\ u.blocks[1] = words
    BY <1>3, <1>6, <2>1, BlockWritten DEF u
  <2>3. Len(v.blocks) = 0
    BY <1>2, <1>3
  <2> QED
    BY <1>3, <2>2, <2>3
<1>8. Sound(u)
  BY <1>6, <1>7 DEF Sound
<1>9. readLeaf(u, 1) = [entries |-> entries, next |-> 0]
  <2>1. u.blocks[1] = Words(entries, u.capacity) \o <<0>>
    BY <1>7 DEF words
  <2>2. u.capacity \in Nat /\ Fits(entries, u.capacity)
    BY <1>2, <1>5, <1>7
  <2>3. 0 \in Int
    OBVIOUS
  <2> QED
    BY <2>1, <2>2, <2>3, LeafWritten
<1>10. Paths(P, 0, 1)
  BY DEF Paths
<1>11. /\ P[0] = p /\ \A k \in Int : p[k] = 1
  OBVIOUS
<1> HIDE DEF P, p
<1>12. Ascending(entries) /\ entries # <<>>
  <2>1. Len(entries) = 1 /\ entries \in Seq(EntryType)
    BY <1>4
  <2>2. \A i, j \in 1 .. Len(entries) : ~ (i < j)
    BY <2>1
  <2>3. entries # <<>>
    BY <1>4
  <2>4. Ascending(entries)
    BY <2>2, Zenon DEF Ascending
  <2> QED
    BY <2>3, <2>4
<1>13. ToSet(entries) = Under({e}, p, 1)
  <2>1. ToSet(entries) = {e}
    <3>1. entries \in Seq(EntryType) /\ Len(entries) = 1 /\ entries[1] = e
      BY <1>4
    <3> QED
      BY <3>1, ToSetIs
  <2>2. Under({e}, p, 1) = {e}
    BY <1>2, <1>11 DEF Under
  <2> QED
    BY <2>1, <2>2
<1>14. ASSUME NEW k \in Int PROVE LeafHolds(u, {e}, P[0], k)
  <2>1. P[0][k] = 1 /\ Chained(P[0], k, 0)
    BY <1>11 DEF Chained
  <2>2. Lists(entries, u.capacity, {e}, P[0], P[0][k])
    BY <1>5, <1>7, <1>11, <1>12, <1>13, <2>1 DEF Lists
  <2> QED
    BY <1>9, <2>1, <2>2 DEF LeafHolds
<1>15. Tree(u, {e}, P, P)
  BY <1>7, <1>8, <1>10, <1>11, <1>14 DEF Tree
<1>16. Becomes(u, t, {e})
  BY <1>7, <1>15 DEF Becomes, Held, cap
<1> QED
  BY <1>1, <1>16

\* A tree at rest for S: an empty file has none.
AtRest(t, S) ==
  \/ /\ S = {} /\ Sound(t) /\ t.numOfNodes = 0 /\ t.depth = 0 /\ t.promoted = NO_SPLIT
  \/ \E P : Held(t, S, P)

\* insert: a tree at rest that holds S is one that holds S and the entry.
LEMMA InsertHolds ==
  ASSUME NEW t, NEW S, AtRest(t, S), NEW e, New(S, e)
  PROVE  Becomes(insert(t, e), t, S \cup {e})
<1>1. CASE S = {} /\ Sound(t) /\ t.numOfNodes = 0 /\ t.depth = 0 /\ t.promoted = NO_SPLIT
  <2>1. insert(t, e) = insertEmpty(t, e)
    BY <1>1 DEF insert
  <2>2. Becomes(insertEmpty(t, e), t, {e})
    BY <1>1, InsertEmpty
  <2>3. S \cup {e} = {e}
    BY <1>1
  <2> QED
    BY <2>1, <2>2, <2>3
<1>2. CASE \E P : Held(t, S, P)
  <2>1. PICK P : Held(t, S, P)
    BY <1>2
  <2>2. Tree(t, S, P, P)
    BY <2>1 DEF Held
  <2>3. t.depth \in Nat /\ t.numOfNodes \in Nat /\ Paths(P, t.depth, t.numOfNodes)
    BY <2>2, TreeFacts
  <2>4. t.numOfNodes # 0
    <3>1. Within(P, t.depth, t.numOfNodes)
      BY <2>3, OnLevels
    <3>2. P[0][0] \in 1 .. t.numOfNodes
      BY <2>3, <3>1 DEF Within
    <3> QED
      BY <2>3, <3>2
  <2>5. CASE t.numOfNodes = 1
    <3>1. insert(t, e) = insertIntoOnlyOne(t, e)
      BY <2>5 DEF insert
    <3>2. Becomes(insertIntoOnlyOne(t, e), t, S \cup {e})
      BY <2>1, <2>5, InsertOnlyOne
    <3> QED
      BY <3>1, <3>2
  <2>6. CASE t.numOfNodes # 1
    <3>1. insert(t, e) = insertAlongPath(t, e)
      BY <2>4, <2>6 DEF insert
    <3>2. t.depth > 0
      <4>1. SUFFICES ASSUME t.depth = 0 PROVE FALSE
        BY <2>3
      <4>2. \A id \in 1 .. t.numOfNodes : \E l \in 0 .. t.depth : \E k \in Int : P[l][k] = id
        BY <2>3, Zenon DEF Paths
      <4>3. 1 \in 1 .. t.numOfNodes /\ 2 \in 1 .. t.numOfNodes
        BY <2>3, <2>4, <2>6
      <4>4. \A k \in Int : P[0][k] = t.rootBID
        BY <2>2, TreeFacts
      <4>5. \A id \in 1 .. t.numOfNodes : id = t.rootBID
        BY <4>1, <4>2, <4>4
      <4> QED
        BY <4>3, <4>5
    <3>3. Becomes(insertAlongPath(t, e), t, S \cup {e})
      BY <2>1, <3>2, InsertAlong
    <3> QED
      BY <3>1, <3>3
  <2> QED
    BY <2>5, <2>6
<1> QED
  BY <1>1, <1>2 DEF AtRest

-----------------------------------------------------------------------------
(* The file                                                                *)

\* Of the block sizes that have room for an entry: the words of a node fill a
\* block.  getMetadata finds the number of blocks from the size of the file, and
\* with other sizes it miscounts them (the run btree_ragged).
Aligned == \A size \in BlockSizes : size >= 3 * UNIT => size % (2 * UNIT) = UNIT

\* The tree in the file, with every block of the file.
Stored == [Seen EXCEPT !.numOfNodes = Len(file.blocks)]

\* The type of a file.
FileType == [blockSize : Nat, rootBID : Int, depth : Nat, blocks : Seq(Seq(Int))]

\* The inductive invariant: the file holds a B+ tree with the inserted entries, and
\* the tree an insert command works on is the one in the file.
FileInv ==
  /\ file \in FileType
  /\ file.blockSize \in BlockSizes \cup {0} /\ inserted \subseteq Entries
  /\ IF Capacity(file) > 0 THEN AtRest(Stored, inserted) ELSE file.blocks = <<>>
  /\ tree # Closed => Capacity(file) > 0 /\ tree = Stored

\* The tree in the file, field by field.
LEMMA StoredIs ==
  Stored = [capacity |-> Capacity(file), rootBID |-> file.rootBID, depth |-> file.depth,
            numOfNodes |-> Len(file.blocks), blocks |-> file.blocks, promoted |-> NO_SPLIT]
BY DEF Stored, Seen, getMetadata

\* A multiple divided by its factor.
LEMMA Quotient ==
  ASSUME NEW n \in Nat, NEW b \in Nat \ {0}
  PROVE  (n * b) \div b = n
OBVIOUS

\* An aligned block is as large as the words of its node.
LEMMA AlignedCapacity ==
  ASSUME NEW b \in Nat, b % 8 = 4
  PROVE  4 * (2 * ((b - 4) \div 8) + 1) = b
OBVIOUS

\* With aligned blocks the size of the file gives the number of its blocks.
LEMMA Counted ==
  ASSUME Aligned, FileInv, Capacity(file) > 0
  PROVE  Seen = Stored
<1> DEFINE b == file.blockSize
           n == Len(file.blocks)
<1>1. Sound(Stored)
  BY TreeFacts DEF FileInv, AtRest, Held
<1>2. /\ file.blocks \in Seq(Seq(Int)) /\ n \in Nat
      /\ \A id \in 1 .. n : Len(file.blocks[id]) = 2 * Capacity(file) + 1
  BY <1>1, StoredIs DEF Sound, TreeType
<1>3. b \in Nat /\ b # 0 /\ b % 8 = 4
  <2>1. b \in BlockSizes \cup {0}
    BY DEF FileInv
  <2>2. b # 0
    BY DEF Capacity, UNIT
  <2>3. b \in BlockSizes
    BY <2>1, <2>2
  <2>5. b \in Nat
    BY <2>3, BlockSizesAssumption
  <2>6. (b - 4) \div 8 > 0
    BY DEF Capacity, UNIT
  <2>7. b >= 12
    BY <2>5, <2>6
  <2>4. b % (2 * 4) = 4
    BY <2>3, <2>7 DEF Aligned, UNIT
  <2> HIDE DEF b
  <2> QED
    BY <2>2, <2>4, <2>5
<1>4. 4 * (2 * Capacity(file) + 1) = b
  BY <1>3, AlignedCapacity DEF Capacity, UNIT
<1>5. fileSize(file) - HEADER_SIZE = n * b
  <2>1. CASE n = 0
    <3>1. file.blocks = <<>>
      BY <1>2, <2>1
    <3> QED
      BY <1>3, <2>1, <3>1 DEF fileSize, HEADER_SIZE, UNIT
  <2>2. CASE n # 0
    <3>1. file.blocks # <<>> /\ n \in 1 .. n /\ Last(file.blocks) = file.blocks[n]
      BY <1>2, <2>2 DEF Last
    <3>2. Len(Last(file.blocks)) = 2 * Capacity(file) + 1
      BY <1>2, <3>1
    <3>3. fileSize(file) = 12 + ((n - 1) * b + 4 * Len(Last(file.blocks)))
      <4>1. fileSize(file) = 3 * 4 + ((n - 1) * b + 4 * Len(Last(file.blocks)))
        BY <3>1, Zenon DEF fileSize, HEADER_SIZE, UNIT
      <4> QED
        BY <4>1
    <3>4. fileSize(file) = 12 + ((n - 1) * b + b)
      BY <1>4, <3>2, <3>3
    <3>5. (n - 1) * b + b = n * b
      BY <1>2, <1>3
    <3>6. n * b \in Int
      BY <1>2, <1>3
    <3> QED
      BY <3>4, <3>5, <3>6 DEF HEADER_SIZE, UNIT
  <2> QED
    BY <2>1, <2>2
<1>6. Seen.numOfNodes = n
  BY <1>2, <1>3, <1>5, Quotient DEF Seen, getMetadata
<1> QED
  BY <1>6 DEF Stored, Seen, getMetadata

\* The entries of the inputs have the type of entries, and none has key 0.
LEMMA EntriesTyped == Entries \subseteq EntryType /\ \A e \in Entries : e.key # 0
BY EntriesAssumption DEF EntryType

\* Every command, and every insert, keeps the invariant.
LEMMA FileStep ==
  ASSUME Aligned, FileInv, [Next]_vars
  PROVE  FileInv'
<1>1. CASE UNCHANGED vars
  BY <1>1 DEF vars, FileInv, Stored, Seen
<1>2. ASSUME NEW b \in BlockSizes, Create(b) PROVE FileInv'
  <2>1. /\ file' = [blockSize |-> b, rootBID |-> 0, depth |-> 0, blocks |-> <<>>]
        /\ inserted' = {} /\ tree' = Closed
    BY <1>2 DEF Create, NoFile
  <2>2. Capacity(file') > 0 => Capacity(file') \in Nat \ {0}
    BY <2>1, BlockSizesAssumption DEF Capacity, UNIT
  <2>3. Stored' = [capacity |-> Capacity(file'), rootBID |-> 0, depth |-> 0,
                   numOfNodes |-> 0, blocks |-> <<>>, promoted |-> NO_SPLIT]
    BY <2>1 DEF Stored, Seen, getMetadata
  <2>4. NO_SPLIT \in EntryType
    BY DEF NO_SPLIT, Entry, EntryType
  <2>5. Capacity(file') > 0 => Sound(Stored')
    BY <2>2, <2>3, <2>4 DEF Sound, TreeType
  <2>6. file' \in FileType /\ file'.blockSize \in BlockSizes
    BY <2>1, BlockSizesAssumption DEF FileType
  <2> QED
    BY <2>1, <2>3, <2>5, <2>6 DEF FileInv, AtRest
<1>3. CASE Open
  <2>1. Seen = Stored
    BY <1>3, Counted DEF Open
  <2> QED
    BY <1>3, <2>1 DEF Open, FileInv, Stored, Seen
<1>4. CASE Close
  BY <1>4 DEF Close, FileInv, Stored, Seen
<1>5. ASSUME NEW e \in Entries, Insert(e) PROVE FileInv'
  <2>1. /\ tree = Stored /\ Capacity(file) > 0 /\ AtRest(tree, inserted)
        /\ inserted \subseteq Entries /\ file.blockSize \in BlockSizes \cup {0}
    BY <1>5 DEF Insert, FileInv
  <2>2. New(inserted, e)
    BY <1>5, <2>1, EntriesTyped, EntriesAssumption DEF Insert, New
  <2>3. Becomes(tree', tree, inserted')
    BY <1>5, <2>1, <2>2, InsertHolds DEF Insert
  <2>4. PICK P : Held(tree', inserted', P)
    BY <2>3 DEF Becomes
  <2>5. tree' \in TreeType /\ tree'.numOfNodes = Len(tree'.blocks) /\ tree'.promoted = NO_SPLIT
    BY <2>4 DEF Held, Tree, Sound
  <2>6. tree'.capacity = Capacity(file)
    BY <2>1, <2>3, StoredIs DEF Becomes
  <2>7. file' = writeMetadata(file, tree')
    BY <1>5 DEF Insert
  <2>8. file' = [blockSize |-> file.blockSize, rootBID |-> tree'.rootBID,
                 depth |-> tree'.depth, blocks |-> tree'.blocks]
    BY <2>7 DEF FileInv, FileType, writeMetadata
  <2>9. file' \in FileType
    <3>1. tree'.rootBID \in Int /\ tree'.depth \in Nat /\ tree'.blocks \in Seq(Seq(Int))
      BY <2>5 DEF TreeType
    <3> QED
      BY <2>8, <3>1 DEF FileInv, FileType
  <2>10. Capacity(file') = Capacity(file)
    BY <2>8 DEF Capacity
  <2>11. Stored' = [capacity |-> tree'.capacity, rootBID |-> tree'.rootBID,
                    depth |-> tree'.depth, numOfNodes |-> tree'.numOfNodes,
                    blocks |-> tree'.blocks, promoted |-> tree'.promoted]
    BY <2>5, <2>6, <2>8, <2>10 DEF Stored, Seen, getMetadata
  <2>12. Stored' = tree'
    BY <2>5, <2>11 DEF TreeType
  <2>13. AtRest(Stored', inserted')
    BY <2>4, <2>12 DEF AtRest
  <2>14. inserted' \subseteq Entries /\ file'.blockSize = file.blockSize
    BY <1>5, <2>1, <2>8 DEF Insert
  <2> QED
    BY <2>1, <2>9, <2>10, <2>12, <2>13, <2>14 DEF FileInv
<1> QED
  BY <1>1, <1>2, <1>3, <1>4, <1>5 DEF Next

\* No file has been created yet.
LEMMA FileInit ==
  ASSUME Init
  PROVE  FileInv
<1>1. file = [blockSize |-> 0, rootBID |-> 0, depth |-> 0, blocks |-> <<>>]
      /\ inserted = {} /\ tree = Closed
  BY DEF Init, NoFile
<1>2. ~ (Capacity(file) > 0)
  BY <1>1 DEF Capacity, UNIT
<1>3. file \in FileType
  BY <1>1 DEF FileType
<1> QED
  BY <1>1, <1>2, <1>3 DEF FileInv

\* In every state of every run the file holds a B+ tree of the entries inserted since
\* it was created: every block on one level, the leaves with those entries in key
\* order and chained, every separator the first key right of it.
THEOREM BPlusTreeStored == ASSUME Aligned PROVE Spec => []FileInv
<1>1. Init => FileInv
  BY FileInit
<1>2. FileInv /\ [Next]_vars => FileInv'
  BY FileStep
<1> QED
  BY <1>1, <1>2, PTL DEF Spec

\* The invariant gives the types.
LEMMA FileTyped ==
  ASSUME FileInv
  PROVE  TypeOK
<1>1. \A id \in DOMAIN file.blocks : file.blocks[id] \in Seq(Int)
  BY DEF FileInv, FileType
<1> QED
  BY <1>1 DEF FileInv, TypeOK, Stored

\* The file and an open tree have their types, the tree an insert command works on is
\* the one in the file, and both count the same blocks.
THEOREM BPlusTreeTyped == ASSUME Aligned PROVE Spec => []TypeOK
<1>1. Spec => []FileInv
  BY BPlusTreeStored
<1>2. FileInv => TypeOK
  BY FileTyped
<1> QED
  BY <1>1, <1>2, PTL

-----------------------------------------------------------------------------
(* search                                                                  *)

\* search in the leaf of a key.
LEMMA SearchLeaf ==
  ASSUME NEW t, t.numOfNodes # 0, NEW S, NEW P, Tree(t, S, P, P), NEW k \in Int
  PROVE  \/ /\ \A e \in S : e.key # k
            /\ search(t, k) = -1
         \/ \E e \in S : e.key = k /\ search(t, k) = e.value
<1> DEFINE id == P[t.depth][k]
           s == readLeaf(t, id).entries
           I == {i \in 1 .. Len(s) : s[i].key = k}
           at == SelectInSeq(s, LAMBDA e : e.key = k)
<1>1. t.depth \in Nat /\ \A j \in Int : LeafHolds(t, S, P[t.depth], j)
  BY TreeFacts
<1>2. getPath(t, k)[t.depth] = id
  <2>1. t.depth \in 0 .. t.depth
    BY <1>1
  <2> QED
    BY <2>1, PathOf
<1>3. Lists(s, t.capacity, S, P[t.depth], id)
  BY <1>1 DEF LeafHolds
<1>4. search(t, k) = IF at = 0 THEN -1 ELSE s[at].value
  BY <1>2 DEF search
<1>5. at = IF I # {} THEN Min(I) ELSE 0
  BY DEF SelectInSeq
<1> HIDE DEF at, s
<1>6. s \in Seq(EntryType) /\ ToSet(s) = Under(S, P[t.depth], id)
  BY <1>3 DEF Lists, Fits
<1>7. CASE I = {}
  <2>1. at = 0
    BY <1>5, <1>7
  <2>2. ASSUME NEW e \in S, e.key = k PROVE FALSE
    <3>1. e \in ToSet(s)
      BY <1>6, <2>2 DEF Under
    <3>2. PICK i \in 1 .. Len(s) : s[i] = e
      BY <1>6, <3>1, ToSetIs
    <3> QED
      BY <1>7, <2>2, <3>2
  <2> QED
    BY <1>4, <2>1, <2>2
<1>8. CASE I # {}
  <2>1. I \subseteq Nat
    OBVIOUS
  <2>2. Min(I) \in I
    <3> HIDE DEF I
    <3> QED
      BY <1>8, <2>1, LeastNumber
  <2>3. at \in 1 .. Len(s) /\ s[at].key = k
    BY <1>5, <1>8, <2>2
  <2>4. s[at] \in S
    <3>1. s[at] \in ToSet(s)
      BY <1>6, <2>3, ToSetIs
    <3> QED
      BY <1>6, <3>1 DEF Under
  <2>5. search(t, k) = s[at].value
    BY <1>4, <2>3
  <2> QED
    BY <2>3, <2>4, <2>5
<1> QED
  BY <1>7, <1>8

\* The invariant gives the answers of search.
LEMMA SearchFinds ==
  ASSUME Aligned, FileInv
  PROVE  SearchAnswers
<1>1. SUFFICES ASSUME Readable, NEW k \in Keys
               PROVE  search(Seen, k) = IF \E e \in inserted : e.key = k
                                          THEN (CHOOSE e \in inserted : e.key = k).value ELSE -1
  BY DEF SearchAnswers
<1>2. Seen = Stored /\ AtRest(Stored, inserted) /\ inserted \subseteq Entries
  BY <1>1, Counted DEF Readable, FileInv
<1>3. k \in Int
  BY <1>1, EntriesTyped DEF Keys, EntryType
<1>4. CASE inserted = {} /\ Stored.numOfNodes = 0
  BY <1>2, <1>4 DEF search
<1>5. CASE \E P : Held(Stored, inserted, P)
  <2>1. PICK P : Held(Stored, inserted, P)
    BY <1>5
  <2>2. Tree(Stored, inserted, P, P)
    BY <2>1 DEF Held
  <2>3. Stored.numOfNodes # 0
    <3>1. Paths(P, Stored.depth, Stored.numOfNodes) /\ Stored.depth \in Nat
      BY <2>2, TreeFacts
    <3>2. Within(P, Stored.depth, Stored.numOfNodes)
      BY <3>1, OnLevels
    <3>3. P[0][0] \in 1 .. Stored.numOfNodes
      BY <3>1, <3>2 DEF Within
    <3> QED
      BY <3>3
  <2>4. \/ /\ \A e \in inserted : e.key # k
           /\ search(Stored, k) = -1
        \/ \E e \in inserted : e.key = k /\ search(Stored, k) = e.value
    BY <1>3, <2>2, <2>3, SearchLeaf
  <2>5. \A d, e \in inserted : d.key = e.key => d = e
    BY <1>2, EntriesAssumption
  <2>6. CASE \A e \in inserted : e.key # k
    BY <1>2, <2>4, <2>6
  <2>7. ASSUME NEW e \in inserted, e.key = k, search(Stored, k) = e.value
        PROVE  search(Seen, k) = (CHOOSE x \in inserted : x.key = k).value
    <3>1. (CHOOSE x \in inserted : x.key = k) = e
      BY <2>5, <2>7
    <3> QED
      BY <1>2, <2>7, <3>1
  <2> QED
    BY <2>4, <2>6, <2>7
<1> QED
  BY <1>2, <1>4, <1>5 DEF AtRest

\* search finds the value of every inserted key, and -1 for the others, whatever the
\* block sizes (aligned ones), the entries and the order they came in.
THEOREM BPlusTreeSearch == ASSUME Aligned PROVE Spec => []SearchAnswers
<1>1. Spec => []FileInv
  BY BPlusTreeStored
<1>2. FileInv => SearchAnswers
  BY SearchFinds
<1> QED
  BY <1>1, <1>2, PTL

-----------------------------------------------------------------------------
(* Sets put into an order                                                  *)

\* R orders S strictly and totally.
Orders(R, S) ==
  /\ \A x, y \in S : x # y => <<x, y>> \in R \/ <<y, x>> \in R
  /\ \A x, y \in S : ~ (<<x, y>> \in R /\ <<y, x>> \in R)
  /\ \A x, y, z \in S : <<x, y>> \in R /\ <<y, z>> \in R => <<x, z>> \in R

\* What comes before x.
Earlier(R, S, x) == {y \in S : <<y, x>> \in R}

\* f goes through S in the order R.
Runs(f, n, S, R) ==
  /\ n \in Nat /\ f \in [1 .. n -> S]
  /\ \A i, j \in 1 .. n : i < j => <<f[i], f[j]>> \in R
  /\ \A x \in S : \E i \in 1 .. n : f[i] = x

\* As many come before the members of a finite set as it takes to number them.
LEMMA Ranks ==
  ASSUME NEW S, IsFiniteSet(S), NEW R, Orders(R, S)
  PROVE  /\ Cardinality(S) \in Nat
         /\ \A x \in S : Cardinality(Earlier(R, S, x)) \in 0 .. Cardinality(S) - 1
         /\ \A x, y \in S : <<x, y>> \in R =>
              Cardinality(Earlier(R, S, x)) < Cardinality(Earlier(R, S, y))
         /\ \A i \in 0 .. Cardinality(S) - 1 : \E x \in S : Cardinality(Earlier(R, S, x)) = i
<1> DEFINE n == Cardinality(S)
           rank == [x \in S |-> Cardinality(Earlier(R, S, x))]
<1>1. n \in Nat
  BY FS_CardinalityType
<1>2. ASSUME NEW x \in S
      PROVE  /\ IsFiniteSet(Earlier(R, S, x)) /\ Cardinality(Earlier(R, S, x)) \in Nat
             /\ x \notin Earlier(R, S, x)
  <2>1. IsFiniteSet(Earlier(R, S, x))
    BY FS_Subset DEF Earlier
  <2>2. x \notin Earlier(R, S, x)
    BY DEF Earlier, Orders
  <2> QED
    BY <2>1, <2>2, FS_CardinalityType
<1>3. ASSUME NEW x \in S
      PROVE  Cardinality(Earlier(R, S, x)) \in 0 .. n - 1
  <2>1. Earlier(R, S, x) \subseteq S \ {x}
    BY <1>2 DEF Earlier
  <2>2. IsFiniteSet(S \ {x}) /\ Cardinality(S \ {x}) = n - 1
    BY FS_RemoveElement, Zenon
  <2>3. Cardinality(Earlier(R, S, x)) <= Cardinality(S \ {x})
    BY <2>1, <2>2, FS_Subset, Zenon
  <2> QED
    BY <1>1, <1>2, <2>2, <2>3
<1>4. ASSUME NEW x \in S, NEW y \in S, <<x, y>> \in R
      PROVE  Cardinality(Earlier(R, S, x)) < Cardinality(Earlier(R, S, y))
  <2>1. Earlier(R, S, x) \cup {x} \subseteq Earlier(R, S, y)
    BY <1>4 DEF Earlier, Orders
  <2>2. Cardinality(Earlier(R, S, x) \cup {x}) = Cardinality(Earlier(R, S, x)) + 1
    BY <1>2, FS_AddElement, Zenon
  <2>3. Cardinality(Earlier(R, S, x) \cup {x}) <= Cardinality(Earlier(R, S, y))
    BY <1>2, <2>1, FS_Subset, Zenon
  <2> QED
    BY <1>2, <2>2, <2>3
<1>5. rank \in Injection(S, 0 .. n - 1)
  <2>1. rank \in [S -> 0 .. n - 1]
    BY <1>3
  <2>2. ASSUME NEW x \in S, NEW y \in S, rank[x] = rank[y]
        PROVE  x = y
    <3>1. Cardinality(Earlier(R, S, x)) = Cardinality(Earlier(R, S, y))
      BY <2>2
    <3>2. ~ (<<x, y>> \in R) /\ ~ (<<y, x>> \in R)
      BY <1>2, <1>4, <3>1
    <3> QED
      BY <3>2 DEF Orders
  <2> HIDE DEF rank
  <2>3. IsInjective(rank)
    BY <2>1, <2>2 DEF IsInjective
  <2> QED
    BY <2>1, <2>3 DEF Injection
<1>6. IsFiniteSet(0 .. n - 1) /\ Cardinality(0 .. n - 1) = n
  <2>1. IsFiniteSet(0 .. n - 1)
        /\ Cardinality(0 .. n - 1) = IF 0 > n - 1 THEN 0 ELSE (n - 1) - 0 + 1
    <3>1. 0 \in Int /\ n - 1 \in Int
      BY <1>1
    <3> QED
      BY <3>1, FS_Interval, Zenon
  <2> QED
    BY <1>1, <2>1
<1>7. \A i \in 0 .. n - 1 : \E x \in S : rank[x] = i
  <2> HIDE DEF rank, n
  <2>1. rank \in Surjection(S, 0 .. n - 1)
    BY <1>5, <1>6, FS_Injection, Zenon DEF n
  <2> QED
    BY <2>1 DEF Surjection
<1> QED
  BY <1>1, <1>3, <1>4, <1>7

\* Members chosen by their ranks run through the set.
LEMMA RankedRuns ==
  ASSUME NEW S, IsFiniteSet(S), NEW R, Orders(R, S)
  PROVE  Runs([i \in 1 .. Cardinality(S) |->
                CHOOSE x \in S : Cardinality(Earlier(R, S, x)) = i - 1], Cardinality(S), S, R)
<1> DEFINE n == Cardinality(S)
           rank(x) == Cardinality(Earlier(R, S, x))
           f == [i \in 1 .. n |-> CHOOSE x \in S : rank(x) = i - 1]
<1>1. n \in Nat /\ \A x \in S : rank(x) \in 0 .. n - 1
  BY Ranks
<1>2. \A x, y \in S : <<x, y>> \in R => rank(x) < rank(y)
  BY Ranks
<1>3. \A i \in 0 .. n - 1 : \E x \in S : rank(x) = i
  BY Ranks
<1> HIDE DEF n, rank
<1>4. \A i \in 1 .. n : f[i] \in S /\ rank(f[i]) = i - 1
  <2>1. SUFFICES ASSUME NEW i \in 1 .. n
                 PROVE  f[i] \in S /\ rank(f[i]) = i - 1
    OBVIOUS
  <2>2. i - 1 \in 0 .. n - 1
    BY <1>1
  <2>3. \E x \in S : rank(x) = i - 1
    BY <1>3, <2>2
  <2> QED
    BY <2>3
<1>5. f \in [1 .. n -> S]
  BY <1>4
<1> HIDE DEF f
<1>6. \A x, y \in S : rank(x) = rank(y) => x = y
  <2>1. SUFFICES ASSUME NEW x \in S, NEW y \in S, rank(x) = rank(y), x # y PROVE FALSE
    OBVIOUS
  <2>2. <<x, y>> \in R \/ <<y, x>> \in R
    BY <2>1 DEF Orders
  <2> QED
    BY <1>1, <1>2, <2>1, <2>2
<1>7. ASSUME NEW i \in 1 .. n, NEW j \in 1 .. n, i < j
      PROVE  <<f[i], f[j]>> \in R
  <2>1. rank(f[i]) < rank(f[j]) /\ f[i] \in S /\ f[j] \in S
    BY <1>1, <1>4, <1>7
  <2>2. ~ (<<f[j], f[i]>> \in R) /\ f[i] # f[j]
    BY <1>1, <1>2, <2>1
  <2> QED
    BY <2>1, <2>2 DEF Orders
<1>8. ASSUME NEW x \in S
      PROVE  \E i \in 1 .. n : f[i] = x
  <2>1. rank(x) + 1 \in 1 .. n /\ (rank(x) + 1) - 1 = rank(x)
    BY <1>1
  <2>2. rank(f[rank(x) + 1]) = rank(x) /\ f[rank(x) + 1] \in S
    BY <1>4, <2>1
  <2> QED
    BY <1>6, <2>1, <2>2
<1>9. Runs(f, n, S, R)
  BY <1>1, <1>5, <1>7, <1>8 DEF Runs
<1> QED
  BY <1>9 DEF f, n, rank

\* What runs through a set ranks its members.
LEMMA RunRanks ==
  ASSUME NEW S, NEW R, Orders(R, S), NEW f, NEW n, Runs(f, n, S, R)
  PROVE  /\ IsFiniteSet(S) /\ Cardinality(S) = n
         /\ \A i \in 1 .. n : Cardinality(Earlier(R, S, f[i])) = i - 1
         /\ \A i, j \in 1 .. n : f[i] = f[j] => i = j
<1>1. /\ n \in Nat /\ f \in [1 .. n -> S]
      /\ \A i, j \in 1 .. n : i < j => <<f[i], f[j]>> \in R
      /\ \A x \in S : \E i \in 1 .. n : f[i] = x
  BY DEF Runs
<1>2. \A i, j \in 1 .. n : f[i] = f[j] => i = j
  <2>1. \A i, j \in 1 .. n : i < j => f[i] # f[j]
    BY <1>1 DEF Orders
  <2> QED
    BY <1>1, <2>1
<1>3. ASSUME NEW i \in 0 .. n
      PROVE  LET T == {f[j] : j \in 1 .. i} IN IsFiniteSet(T) /\ Cardinality(T) = i
  <2> DEFINE T == {f[j] : j \in 1 .. i}
             g == [j \in 1 .. i |-> f[j]]
  <2>1. g \in Bijection(1 .. i, T)
    <3>1. g \in [1 .. i -> T] /\ \A x \in T : \E j \in 1 .. i : g[j] = x
      OBVIOUS
    <3>2. IsInjective(g)
      <4>1. \A j, k \in 1 .. i : j \in 1 .. n /\ k \in 1 .. n
        BY <1>1
      <4> QED
        BY <1>2, <4>1 DEF IsInjective
    <3> QED
      BY <3>1, <3>2 DEF Bijection, Injection, Surjection
  <2>2. IsFiniteSet(1 .. i) /\ Cardinality(1 .. i) = i
    BY <1>1, FirstNumbers
  <2>3. IsFiniteSet(T) /\ Cardinality(T) = Cardinality(1 .. i)
    BY <2>1, <2>2, FS_Bijection DEF ExistsBijection
  <2> QED
    BY <2>2, <2>3
<1>4. S = {f[j] : j \in 1 .. n}
  BY <1>1
<1>5. ASSUME NEW i \in 1 .. n
      PROVE  Cardinality(Earlier(R, S, f[i])) = i - 1
  <2>1. Earlier(R, S, f[i]) = {f[j] : j \in 1 .. i - 1}
    <3>1. ASSUME NEW j \in 1 .. n, <<f[j], f[i]>> \in R
          PROVE  j \in 1 .. i - 1
      <4>1. f[i] \in S /\ f[j] \in S
        BY <1>1
      <4>2. i # j /\ ~ (i < j)
        BY <1>1, <3>1, <4>1 DEF Orders
      <4> QED
        BY <1>1, <4>2
    <3>2. ASSUME NEW j \in 1 .. i - 1
          PROVE  j \in 1 .. n /\ f[j] \in S /\ <<f[j], f[i]>> \in R
      <4>1. j \in 1 .. n /\ j < i
        BY <1>1
      <4> QED
        BY <1>1, <4>1
    <3> QED
      BY <1>4, <3>1, <3>2 DEF Earlier
  <2>2. i - 1 \in 0 .. n
    BY <1>1
  <2> QED
    BY <1>3, <2>1, <2>2
<1> QED
  <2>1. n \in 0 .. n
    BY <1>1
  <2> QED
    BY <1>2, <1>3, <1>4, <1>5, <2>1

\* Numbers, places of sequences, and entries in their orders.
NumberOrder(S) == {x \in S \X S : x[1] < x[2]}
PlaceOrder(S) ==
  {x \in S \X S : x[1][1] < x[2][1] \/ (x[1][1] = x[2][1] /\ x[1][2] < x[2][2])}
KeyOrder(S) == {x \in S \X S : x[1].key < x[2].key}

\* The places of sequences one after the other.
Places(seqs) == UNION {{i} \X DOMAIN seqs[i] : i \in DOMAIN seqs}

\* A sequence of sequences.
Sequences(seqs, m) ==
  /\ m \in Nat /\ DOMAIN seqs = 1 .. m
  /\ \A i \in 1 .. m : \E n \in Nat : DOMAIN seqs[i] = 1 .. n

\* The values of s at the places that f runs through.
Along(r, s, f, n) == r = [i \in 1 .. n |-> s[f[i]]]

\* Picked runs through the places in their order.
LEMMA PickedRuns ==
  ASSUME NEW at, at \subseteq Int, IsFiniteSet(at), NEW s
  PROVE  \E f : /\ Runs(f, Cardinality(at), at, NumberOrder(at))
                /\ Along(Picked(s, at), s, f, Cardinality(at))
<1> DEFINE R == NumberOrder(at)
           n == Cardinality(at)
           f == [i \in 1 .. n |-> CHOOSE x \in at : Cardinality(Earlier(R, at, x)) = i - 1]
<1>1. Orders(R, at)
  BY DEF Orders, NumberOrder
<1>2. \A x \in at : Earlier(R, at, x) = {j \in at : j < x}
  BY DEF Earlier, NumberOrder
<1>3. Picked(s, at) = [i \in 1 .. n |->
                        s[CHOOSE x \in at : Cardinality({j \in at : j < x}) = i - 1]]
  BY Zenon DEF Picked
<1>4. Runs(f, n, at, R)
  BY <1>1, RankedRuns
<1> HIDE DEF R
<1>5. \A i \in 1 .. n : f[i] = CHOOSE x \in at : Cardinality({j \in at : j < x}) = i - 1
  BY <1>2
<1> HIDE DEF f
<1>6. Picked(s, at) = [i \in 1 .. n |-> s[f[i]]]
  BY <1>3, <1>5
<1> QED
  BY <1>4, <1>6 DEF R, Along

\* A place of sequences: the number of the sequence and the place in it.
LEMMA PlacesAre ==
  ASSUME NEW seqs, NEW m, Sequences(seqs, m)
  PROVE  /\ Places(seqs) = {p \in Int \X Int : p[1] \in 1 .. m /\ p[2] \in DOMAIN seqs[p[1]]}
         /\ IsFiniteSet(Places(seqs))
         /\ Orders(PlaceOrder(Places(seqs)), Places(seqs))
<1>1. /\ m \in Nat /\ DOMAIN seqs = 1 .. m
      /\ \A i \in 1 .. m : \E n \in Nat : DOMAIN seqs[i] = 1 .. n
  BY DEF Sequences
<1>2. Places(seqs) = UNION {{i} \X DOMAIN seqs[i] : i \in 1 .. m}
  BY <1>1 DEF Places
<1>3. \A i \in 1 .. m : DOMAIN seqs[i] \subseteq Int
  BY <1>1
<1>4. Places(seqs) = {p \in Int \X Int : p[1] \in 1 .. m /\ p[2] \in DOMAIN seqs[p[1]]}
  BY <1>2, <1>3
<1>5. IsFiniteSet(Places(seqs))
  <2> DEFINE Part(i) == {i} \X DOMAIN seqs[i]
             g == [i \in 1 .. m |-> Part(i)]
             T == {Part(i) : i \in 1 .. m}
  <2>1. \A i \in 1 .. m : IsFiniteSet(Part(i))
    <3>1. \A i \in 1 .. m : IsFiniteSet(DOMAIN seqs[i])
      BY <1>1, FirstNumbers
    <3> QED
      BY <3>1, FS_Singleton, FS_Product
  <2>2. IsFiniteSet(T)
    <3>1. g \in Surjection(1 .. m, T)
      BY DEF Surjection
    <3> QED
      BY <1>1, <3>1, FirstNumbers, FS_Surjection
  <2> HIDE DEF Part
  <2>3. \A x \in T : IsFiniteSet(x)
    BY <2>1
  <2>4. IsFiniteSet(UNION T)
    BY <2>2, <2>3, FS_UNION, Zenon
  <2> QED
    BY <1>2, <2>4 DEF Part
<1>6. Orders(PlaceOrder(Places(seqs)), Places(seqs))
  <2> DEFINE S == Places(seqs)
             Less(x, y) == x[1] < y[1] \/ (x[1] = y[1] /\ x[2] < y[2])
  <2>1. S \subseteq Int \X Int
    BY <1>4
  <2>2. \A x, y \in S : <<x, y>> \in PlaceOrder(S) <=> Less(x, y)
    BY DEF PlaceOrder
  <2>3. \A x, y \in Int \X Int : x # y => Less(x, y) \/ Less(y, x)
    OBVIOUS
  <2>4. \A x, y \in Int \X Int : ~ (Less(x, y) /\ Less(y, x))
    OBVIOUS
  <2>5. \A x, y, z \in Int \X Int : Less(x, y) /\ Less(y, z) => Less(x, z)
    OBVIOUS
  <2> HIDE DEF Less, S
  <2> QED
    BY <2>1, <2>2, <2>3, <2>4, <2>5 DEF Orders, S
<1> QED
  BY <1>4, <1>5, <1>6

\* Joined runs through the places in their order.
LEMMA JoinedRuns ==
  ASSUME NEW seqs, NEW m, Sequences(seqs, m)
  PROVE  \E f : /\ Runs(f, Cardinality(Places(seqs)), Places(seqs), PlaceOrder(Places(seqs)))
                /\ Joined(seqs) = [i \in 1 .. Cardinality(Places(seqs)) |-> seqs[f[i][1]][f[i][2]]]
<1> DEFINE at == Places(seqs)
           R == PlaceOrder(at)
           n == Cardinality(at)
           below(p) == {q \in at : q[1] < p[1] \/ (q[1] = p[1] /\ q[2] < p[2])}
           rank == [p \in at |-> Cardinality(below(p))]
           f == [i \in 1 .. n |-> CHOOSE x \in at : Cardinality(Earlier(R, at, x)) = i - 1]
           g == [i \in 1 .. n |-> CHOOSE q \in at : rank[q] = i - 1]
<1>1. Joined(seqs) = [i \in 1 .. n |-> seqs[g[i][1]][g[i][2]]]
  <2>1. Joined(seqs) = [i \in 1 .. n |-> LET p == CHOOSE q \in at : rank[q] = i - 1
                                        IN  seqs[p[1]][p[2]]]
    BY Zenon DEF Joined, Places
  <2> HIDE DEF rank, at
  <2> QED
    BY <2>1
<1>2. Runs(f, n, at, R)
  BY PlacesAre, RankedRuns
<1>3. \A x \in at : Earlier(R, at, x) = below(x)
  BY DEF Earlier, PlaceOrder
<1> HIDE DEF at, R, below
<1>4. \A x \in at : rank[x] = Cardinality(Earlier(R, at, x))
  BY <1>3
<1> HIDE DEF rank
<1>5. \A i \in 1 .. n : f[i] = g[i]
  BY <1>4
<1>6. Joined(seqs) = [i \in 1 .. n |-> seqs[f[i][1]][f[i][2]]]
  BY <1>1, <1>5
<1> HIDE DEF f
<1> QED
  BY <1>2, <1>6 DEF at, R

\* Entries in key order run through the set of them, no key twice.
LEMMA AscendingRuns ==
  ASSUME NEW s \in Seq(EntryType), Ascending(s)
  PROVE  Orders(KeyOrder(ToSet(s)), ToSet(s)) /\ Runs(s, Len(s), ToSet(s), KeyOrder(ToSet(s)))
<1> DEFINE S == ToSet(s)
           n == Len(s)
<1>1. /\ n \in Nat /\ s \in [1 .. n -> S]
      /\ \A x \in S : \E i \in 1 .. n : s[i] = x
  <2>1. n \in Nat /\ s = [i \in 1 .. n |-> s[i]]
    OBVIOUS
  <2> QED
    BY <2>1, ToSetIs
<1>2. \A i \in 1 .. n : s[i].key \in Int
  <2>1. \A i \in 1 .. n : s[i] \in EntryType
    OBVIOUS
  <2> QED
    BY <2>1 DEF EntryType
<1>3. \A i, j \in 1 .. n : i < j => s[i].key < s[j].key
  BY DEF Ascending
<1>4. \A x, y \in S : <<x, y>> \in KeyOrder(S) <=> x.key < y.key
  BY DEF KeyOrder
<1> HIDE DEF S
<1>5. \A x \in S : x.key \in Int
  BY <1>1, <1>2
<1>6. \A x, y \in S : x # y => x.key # y.key
  <2>1. SUFFICES ASSUME NEW i \in 1 .. n, NEW j \in 1 .. n, s[i] # s[j]
                 PROVE  s[i].key # s[j].key
    BY <1>1
  <2>2. i < j \/ j < i
    BY <1>1, <2>1
  <2> QED
    BY <1>2, <1>3, <2>2
<1>7. Orders(KeyOrder(S), S)
  BY <1>4, <1>5, <1>6, SMTT(30) DEF Orders
<1>8. Runs(s, n, S, KeyOrder(S))
  BY <1>1, <1>3, <1>4 DEF Runs
<1> QED
  BY <1>7, <1>8 DEF S

\* A set of entries in key order is the only sequence of them in key order.
LEMMA SortedIs ==
  ASSUME NEW s \in Seq(EntryType), Ascending(s)
  PROVE  SortedByKey(ToSet(s)) = s
<1> DEFINE S == ToSet(s)
           n == Len(s)
           R == KeyOrder(S)
<1>1. Cardinality(S) = n /\ n \in Nat
      /\ \A i \in 1 .. n : Cardinality(Earlier(R, S, s[i])) = i - 1
  BY AscendingRuns, RunRanks
<1>2. \A x \in S : \E i \in 1 .. n : s[i] = x
  BY ToSetIs
<1>3. \A i \in 1 .. n : s[i] \in S
  BY ToSetIs
<1>4. s = [i \in 1 .. n |-> s[i]]
  OBVIOUS
<1>5. \A x \in S : Earlier(R, S, x) = {y \in S : y.key < x.key}
  BY DEF Earlier, KeyOrder
<1>6. SortedByKey(S) = [i \in 1 .. n |->
                         CHOOSE x \in S : Cardinality({y \in S : y.key < x.key}) = i - 1]
  BY <1>1, Zenon DEF SortedByKey
<1> HIDE DEF S, R
<1>7. ASSUME NEW i \in 1 .. n
      PROVE  (CHOOSE x \in S : Cardinality({y \in S : y.key < x.key}) = i - 1) = s[i]
  <2>1. Cardinality({y \in S : y.key < s[i].key}) = i - 1
    BY <1>1, <1>3, <1>5
  <2>2. ASSUME NEW x \in S, Cardinality({y \in S : y.key < x.key}) = i - 1
        PROVE  x = s[i]
    <3>1. PICK j \in 1 .. n : s[j] = x
      BY <1>2
    <3>2. Cardinality({y \in S : y.key < x.key}) = j - 1
      BY <1>1, <1>5, <3>1
    <3>3. i = j
      BY <1>1, <2>2, <3>2
    <3> QED
      BY <3>1, <3>3
  <2> QED
    BY <1>3, <2>1, <2>2
<1>8. SortedByKey(S) = [i \in 1 .. n |-> s[i]]
  BY <1>6, <1>7
<1> QED
  BY <1>4, <1>8 DEF S

\* What is picked from entries in key order is in key order.
LEMMA PickedAscending ==
  ASSUME NEW s \in Seq(EntryType), Ascending(s), NEW at, at \subseteq 1 .. Len(s)
  PROVE  /\ Picked(s, at) \in Seq(EntryType) /\ Ascending(Picked(s, at))
         /\ ToSet(Picked(s, at)) = {s[i] : i \in at}
<1> DEFINE n == Cardinality(at)
           R == NumberOrder(at)
           r == Picked(s, at)
<1>1. IsFiniteSet(at) /\ at \subseteq Int
  <2>1. Len(s) \in Nat
    OBVIOUS
  <2>2. IsFiniteSet(1 .. Len(s)) /\ 1 .. Len(s) \subseteq Int
    BY <2>1, FirstNumbers
  <2> QED
    BY <2>2, FS_Subset
<1>2. PICK f : Runs(f, n, at, R) /\ r = [i \in 1 .. n |-> s[f[i]]]
  <2>1. \E f : Runs(f, n, at, R) /\ Along(r, s, f, n)
    BY <1>1, PickedRuns, Zenon
  <2> QED
    BY <2>1 DEF Along
<1>3. /\ n \in Nat /\ \A i \in 1 .. n : f[i] \in at
      /\ \A i, j \in 1 .. n : i < j => <<f[i], f[j]>> \in R
      /\ \A x \in at : \E i \in 1 .. n : f[i] = x
  BY <1>2 DEF Runs
<1>4. \A i, j \in 1 .. n : i < j => f[i] < f[j]
  BY <1>3 DEF NumberOrder
<1>5. \A i \in 1 .. Len(s) : s[i] \in EntryType
  OBVIOUS
<1> HIDE DEF n, r
<1>6. r \in Seq(EntryType) /\ Len(r) = n /\ \A i \in 1 .. n : r[i] = s[f[i]]
  <2>1. \A i \in 1 .. n : s[f[i]] \in EntryType
    BY <1>3, <1>5
  <2> QED
    BY <1>2, <1>3, <2>1
<1>7. Ascending(r)
  <2>1. \A i \in 1 .. n : f[i] \in 1 .. Len(s)
    BY <1>3
  <2> QED
    BY <1>4, <1>6, <2>1 DEF Ascending
<1>8. ToSet(r) = {s[i] : i \in at}
  <2>1. ToSet(r) = {r[i] : i \in 1 .. n}
    BY <1>6, ToSetIs
  <2> QED
    <3>1. \A i \in 1 .. n : r[i] \in {s[j] : j \in at}
      BY <1>3, <1>6
    <3>2. \A j \in at : \E i \in 1 .. n : r[i] = s[j]
      BY <1>3, <1>6
    <3> QED
      BY <2>1, <3>1, <3>2
<1> QED
  BY <1>6, <1>7, <1>8 DEF r

\* There is one way to run through a set.
LEMMA OneRun ==
  ASSUME NEW S, NEW R, Orders(R, S), NEW f, NEW n, Runs(f, n, S, R),
         NEW g, NEW m, Runs(g, m, S, R)
  PROVE  n = m /\ f = g
<1>1. /\ Cardinality(S) = n /\ \A i \in 1 .. n : Cardinality(Earlier(R, S, f[i])) = i - 1
  BY RunRanks
<1>2. /\ Cardinality(S) = m /\ \A i \in 1 .. m : Cardinality(Earlier(R, S, g[i])) = i - 1
  BY RunRanks
<1>3. /\ n \in Nat /\ f \in [1 .. n -> S] /\ g \in [1 .. m -> S]
      /\ \A x \in S : \E i \in 1 .. n : f[i] = x
  BY DEF Runs
<1>4. n = m
  BY <1>1, <1>2
<1>5. ASSUME NEW i \in 1 .. n
      PROVE  f[i] = g[i]
  <2>1. g[i] \in S
    BY <1>3, <1>4
  <2>2. PICK j \in 1 .. n : f[j] = g[i]
    BY <1>3, <2>1
  <2>3. j - 1 = i - 1
    BY <1>1, <1>2, <1>4, <2>2
  <2> QED
    BY <1>3, <2>2, <2>3
<1> QED
  BY <1>3, <1>4, <1>5

\* The first places of a sequence are the sequence up to there.
LEMMA PickedFront ==
  ASSUME NEW s, NEW n \in Nat
  PROVE  Picked(s, 1 .. n) = [i \in 1 .. n |-> s[i]]
<1> DEFINE R == NumberOrder(1 .. n)
           same == [i \in 1 .. n |-> i]
<1>1. IsFiniteSet(1 .. n) /\ Cardinality(1 .. n) = n /\ 1 .. n \subseteq Int
  BY FirstNumbers
<1>2. \E f : Runs(f, n, 1 .. n, R) /\ Along(Picked(s, 1 .. n), s, f, n)
  <2>1. \E f : /\ Runs(f, Cardinality(1 .. n), 1 .. n, R)
               /\ Along(Picked(s, 1 .. n), s, f, Cardinality(1 .. n))
    BY <1>1, PickedRuns, Zenon
  <2> QED
    BY <1>1, <2>1
<1>3. PICK f : Runs(f, n, 1 .. n, R) /\ Along(Picked(s, 1 .. n), s, f, n)
  BY <1>2
<1>4. Orders(R, 1 .. n)
  BY DEF Orders, NumberOrder
<1>5. Runs(same, n, 1 .. n, R)
  BY DEF Runs, NumberOrder
<1>6. f = same
  <2> HIDE DEF same, R
  <2> QED
    BY <1>3, <1>4, <1>5, OneRun
<1>7. \A i \in 1 .. n : f[i] = i
  BY <1>6
<1> QED
  BY <1>3, <1>7 DEF Along

\* Sequences in the order R, and each before the next.
InOrder(seqs, m, R) ==
  /\ \A i \in 1 .. m : \A a, b \in DOMAIN seqs[i] : a < b => <<seqs[i][a], seqs[i][b]>> \in R
  /\ \A i, j \in 1 .. m : i < j =>
       \A a \in DOMAIN seqs[i] : \A b \in DOMAIN seqs[j] : <<seqs[i][a], seqs[j][b]>> \in R

\* Joined, they run through what is in them.
LEMMA JoinedThrough ==
  ASSUME NEW seqs, NEW m, Sequences(seqs, m), NEW R, InOrder(seqs, m, R), NEW S,
         \A i \in 1 .. m : \A a \in DOMAIN seqs[i] : seqs[i][a] \in S,
         \A x \in S : \E i \in 1 .. m : \E a \in DOMAIN seqs[i] : seqs[i][a] = x
  PROVE  Runs(Joined(seqs), Cardinality(Places(seqs)), S, R)
<1> DEFINE at == Places(seqs)
           n == Cardinality(at)
           r == Joined(seqs)
<1>1. PICK f : /\ Runs(f, n, at, PlaceOrder(at))
               /\ r = [i \in 1 .. n |-> seqs[f[i][1]][f[i][2]]]
  BY JoinedRuns
<1>2. at = {p \in Int \X Int : p[1] \in 1 .. m /\ p[2] \in DOMAIN seqs[p[1]]}
  BY PlacesAre
<1>3. /\ n \in Nat /\ \A i \in 1 .. n : f[i] \in at
      /\ \A i, j \in 1 .. n : i < j => <<f[i], f[j]>> \in PlaceOrder(at)
      /\ \A x \in at : \E i \in 1 .. n : f[i] = x
  BY <1>1 DEF Runs
<1> DEFINE a(i) == f[i][1]
           b(i) == f[i][2]
<1>4. \A i \in 1 .. n : a(i) \in 1 .. m /\ b(i) \in DOMAIN seqs[a(i)] /\ r[i] = seqs[a(i)][b(i)]
  BY <1>1, <1>2, <1>3
<1>5. \A i, j \in 1 .. n : i < j => a(i) < a(j) \/ (a(i) = a(j) /\ b(i) < b(j))
  BY <1>3 DEF PlaceOrder
<1>6. \A i \in 1 .. m : \A c \in DOMAIN seqs[i] : \E k \in 1 .. n : a(k) = i /\ b(k) = c
  <2>1. SUFFICES ASSUME NEW i \in 1 .. m, NEW c \in DOMAIN seqs[i]
                 PROVE  \E k \in 1 .. n : a(k) = i /\ b(k) = c
    OBVIOUS
  <2>2. <<i, c>> \in at
    BY DEF Places, Sequences
  <2>3. PICK k \in 1 .. n : f[k] = <<i, c>>
    BY <1>3, <2>2
  <2> QED
    BY <2>3
<1>7. r = [i \in 1 .. n |-> r[i]]
  BY <1>1
<1> HIDE DEF at, n, r, a, b
<1>8. r \in [1 .. n -> S]
  BY <1>4, <1>7
<1>9. ASSUME NEW i \in 1 .. n, NEW j \in 1 .. n, i < j
      PROVE  <<r[i], r[j]>> \in R
  <2>1. /\ a(i) \in 1 .. m /\ b(i) \in DOMAIN seqs[a(i)] /\ r[i] = seqs[a(i)][b(i)]
        /\ a(j) \in 1 .. m /\ b(j) \in DOMAIN seqs[a(j)] /\ r[j] = seqs[a(j)][b(j)]
    BY <1>4
  <2>2. CASE a(i) < a(j)
    <3>1. \A x \in DOMAIN seqs[a(i)] : \A y \in DOMAIN seqs[a(j)] :
            <<seqs[a(i)][x], seqs[a(j)][y]>> \in R
      BY <2>1, <2>2 DEF InOrder
    <3> QED
      BY <2>1, <3>1
  <2>3. CASE a(i) = a(j) /\ b(i) < b(j)
    BY <2>1, <2>3 DEF InOrder
  <2> QED
    BY <1>5, <1>9, <2>2, <2>3
<1>10. ASSUME NEW x \in S
       PROVE  \E k \in 1 .. n : r[k] = x
  <2>1. PICK i \in 1 .. m : \E c \in DOMAIN seqs[i] : seqs[i][c] = x
    OBVIOUS
  <2>2. PICK c \in DOMAIN seqs[i] : seqs[i][c] = x
    BY <2>1
  <2>3. PICK k \in 1 .. n : a(k) = i /\ b(k) = c
    BY <1>6
  <2> QED
    BY <1>4, <2>2, <2>3
<1> QED
  BY <1>3, <1>8, <1>9, <1>10 DEF Runs, at, n, r

\* Entries in key order, one sequence after the other, each below the next.
Stacked(seqs, m) ==
  /\ m \in Nat /\ DOMAIN seqs = 1 .. m
  /\ \A i \in 1 .. m : seqs[i] \in Seq(EntryType) /\ Ascending(seqs[i])
  /\ \A i, j \in 1 .. m : i < j =>
       \A x \in ToSet(seqs[i]) : \A y \in ToSet(seqs[j]) : x.key < y.key

\* Joined, they are in key order.
LEMMA JoinedAscending ==
  ASSUME NEW seqs, NEW m, Stacked(seqs, m)
  PROVE  /\ Joined(seqs) \in Seq(EntryType) /\ Ascending(Joined(seqs))
         /\ \A x : x \in ToSet(Joined(seqs)) <=> \E i \in 1 .. m : x \in ToSet(seqs[i])
<1> DEFINE S == UNION {ToSet(seqs[i]) : i \in 1 .. m}
           n == Cardinality(Places(seqs))
           r == Joined(seqs)
<1>1. /\ m \in Nat /\ DOMAIN seqs = 1 .. m
      /\ \A i \in 1 .. m : seqs[i] \in Seq(EntryType) /\ Ascending(seqs[i])
      /\ \A i, j \in 1 .. m : i < j =>
           \A x \in ToSet(seqs[i]) : \A y \in ToSet(seqs[j]) : x.key < y.key
  BY DEF Stacked
<1>2. ASSUME NEW i \in 1 .. m
      PROVE  /\ DOMAIN seqs[i] = 1 .. Len(seqs[i]) /\ Len(seqs[i]) \in Nat
             /\ \A a \in DOMAIN seqs[i] : seqs[i][a] \in ToSet(seqs[i]) /\ seqs[i][a] \in EntryType
             /\ \A x \in ToSet(seqs[i]) : \E a \in DOMAIN seqs[i] : seqs[i][a] = x
             /\ \A a, b \in DOMAIN seqs[i] : a < b => seqs[i][a].key < seqs[i][b].key
  <2>1. seqs[i] \in Seq(EntryType) /\ Ascending(seqs[i])
    BY <1>1
  <2>2. DOMAIN seqs[i] = 1 .. Len(seqs[i]) /\ Len(seqs[i]) \in Nat
    BY <2>1
  <2> QED
    BY <2>1, <2>2, ToSetIs DEF Ascending
<1>3. Sequences(seqs, m)
  BY <1>1, <1>2 DEF Sequences
<1>4. \A x \in S : \E i \in 1 .. m : x \in ToSet(seqs[i])
  OBVIOUS
<1>5. \A i \in 1 .. m : \A a \in DOMAIN seqs[i] : seqs[i][a] \in S /\ seqs[i][a] \in ToSet(seqs[i])
  BY <1>2
<1>6. \A x \in S : \E i \in 1 .. m : \E a \in DOMAIN seqs[i] : seqs[i][a] = x
  BY <1>2, <1>4
<1>7. \A x, y \in S : <<x, y>> \in KeyOrder(S) <=> x.key < y.key
  BY DEF KeyOrder
<1> HIDE DEF S
<1>8. S \subseteq EntryType
  <2>1. \A i \in 1 .. m : \A a \in DOMAIN seqs[i] : seqs[i][a] \in EntryType
    BY <1>2
  <2> QED
    BY <1>6, <2>1
<1>9. InOrder(seqs, m, KeyOrder(S))
  BY <1>1, <1>2, <1>5, <1>7 DEF InOrder
<1>10. Runs(r, n, S, KeyOrder(S))
  BY <1>3, <1>5, <1>6, <1>9, JoinedThrough
<1> HIDE DEF r, n
<1>11. /\ n \in Nat /\ r \in [1 .. n -> S]
       /\ \A i, j \in 1 .. n : i < j => <<r[i], r[j]>> \in KeyOrder(S)
       /\ \A x \in S : \E i \in 1 .. n : r[i] = x
  BY <1>10 DEF Runs
<1>12. r \in Seq(EntryType) /\ Len(r) = n
  BY <1>8, <1>11
<1>13. Ascending(r)
  BY <1>7, <1>11, <1>12 DEF Ascending
<1>14. ToSet(r) = S
  <2>1. ToSet(r) = {r[i] : i \in 1 .. n}
    BY <1>12, ToSetIs
  <2>2. \A i \in 1 .. n : r[i] \in S
    BY <1>11
  <2> QED
    BY <1>11, <2>1, <2>2
<1> QED
  BY <1>12, <1>13, <1>14 DEF r, S

-----------------------------------------------------------------------------
(* The blocks of a level in their order, and the chain of the leaves       *)

\* The blocks on the way for the keys of K, and their order.
Row(p, K) == {p[k] : k \in K}
LevelOrder(p) ==
  {x \in Row(p, Int) \X Row(p, Int) :
     \E j, k \in Int : j < k /\ p[j] = x[1] /\ p[k] = x[2] /\ x[1] # x[2]}

\* One block is before another when its keys are less.
LEMMA RowOrder ==
  ASSUME NEW p, Convex(p), NEW K, K \subseteq Int
  PROVE  /\ \A j, k \in Int : <<p[j], p[k]>> \in LevelOrder(p) <=> j < k /\ p[j] # p[k]
         /\ Orders(LevelOrder(p), Row(p, K))
<1> DEFINE R == LevelOrder(p)
<1>1. \A i, j, k \in Int : i <= j /\ j <= k /\ p[i] = p[k] => p[j] = p[i]
  BY DEF Convex
<1>2. ASSUME NEW j \in Int, NEW k \in Int
      PROVE  <<p[j], p[k]>> \in R <=> j < k /\ p[j] # p[k]
  <2>1. p[j] \in Row(p, Int) /\ p[k] \in Row(p, Int)
    BY DEF Row
  <2>2. <<p[j], p[k]>> \in R <=>
          \E a, b \in Int : a < b /\ p[a] = p[j] /\ p[b] = p[k] /\ p[j] # p[k]
    BY <2>1 DEF LevelOrder
  <2>3. ASSUME NEW a \in Int, NEW b \in Int, a < b, p[a] = p[j], p[b] = p[k], p[j] # p[k]
        PROVE  j < k
    <3>1. SUFFICES ASSUME k <= j PROVE FALSE
      OBVIOUS
    <3>2. CASE b <= j
      BY <1>1, <2>3, <3>2
    <3>3. CASE j < b
      BY <1>1, <2>3, <3>1, <3>3
    <3> QED
      BY <3>2, <3>3
  <2> QED
    BY <2>2, <2>3
<1> HIDE DEF R
<1>3. \A x \in Row(p, K) : \E k \in Int : x = p[k]
  BY DEF Row
<1>4. Orders(R, Row(p, K))
  <2>1. ASSUME NEW x \in Row(p, K), NEW y \in Row(p, K)
        PROVE  /\ x # y => <<x, y>> \in R \/ <<y, x>> \in R
               /\ ~ (<<x, y>> \in R /\ <<y, x>> \in R)
    <3>1. PICK j \in Int : x = p[j]
      BY <1>3
    <3>2. PICK k \in Int : y = p[k]
      BY <1>3
    <3>3. j < k \/ k < j \/ j = k
      OBVIOUS
    <3> QED
      BY <1>2, <3>1, <3>2, <3>3
  <2>2. ASSUME NEW x \in Row(p, K), NEW y \in Row(p, K), NEW z \in Row(p, K),
               <<x, y>> \in R, <<y, z>> \in R
        PROVE  <<x, z>> \in R
    <3>1. PICK i \in Int : x = p[i]
      BY <1>3
    <3>2. PICK j \in Int : y = p[j]
      BY <1>3
    <3>3. PICK k \in Int : z = p[k]
      BY <1>3
    <3>4. i < j /\ j < k /\ p[i] # p[j]
      BY <1>2, <2>2, <3>1, <3>2, <3>3
    <3>5. p[i] # p[k]
      BY <1>1, <3>4
    <3> QED
      BY <1>2, <3>1, <3>3, <3>4, <3>5
  <2> QED
    BY <2>1, <2>2 DEF Orders
<1> QED
  BY <1>2, <1>4 DEF R

\* The leaves of the keys from first on, in order, are those that the chain goes
\* through from the leaf of first.
LEMMA ChainRuns ==
  ASSUME NEW p, NEW last \in Nat, p \in [Int -> 1 .. last], Convex(p), NEW first \in Int,
         NEW f, NEW n, Runs(f, n, Row(p, {k \in Int : first <= k}), LevelOrder(p)),
         NEW next, \A k \in Int : Chained(p, k, next[p[k]])
  PROVE  /\ n \in 1 .. last /\ f[1] = p[first]
         /\ \A i \in 1 .. n : f[i] \in 1 .. last /\ next[f[i]] = IF i = n THEN 0 ELSE f[i + 1]
<1> DEFINE K == {k \in Int : first <= k}
           S == Row(p, K)
           R == LevelOrder(p)
<1>1. /\ n \in Nat /\ f \in [1 .. n -> S]
      /\ \A i, j \in 1 .. n : i < j => <<f[i], f[j]>> \in R
      /\ \A x \in S : \E i \in 1 .. n : f[i] = x
  BY DEF Runs
<1>2. \A j, k \in Int : <<p[j], p[k]>> \in R <=> j < k /\ p[j] # p[k]
  BY RowOrder
<1>3. Orders(R, S)
  BY RowOrder
<1>4. \A i, j, k \in Int : i <= j /\ j <= k /\ p[i] = p[k] => p[j] = p[i]
  BY DEF Convex
<1>5. \A i \in 1 .. n : \E k \in Int : first <= k /\ f[i] = p[k]
  BY <1>1 DEF Row
<1>6. \A k \in Int : first <= k => \E i \in 1 .. n : f[i] = p[k]
  BY <1>1 DEF Row
<1>7. S \subseteq 1 .. last
  BY DEF Row
<1>8. Cardinality(S) = n /\ \A i, j \in 1 .. n : f[i] = f[j] => i = j
  BY <1>3, RunRanks
<1> HIDE DEF S, R
<1>9. n \in 1 .. last
  <2>1. Cardinality(S) <= last
    <3>1. IsFiniteSet(1 .. last) /\ Cardinality(1 .. last) = last
      BY FirstNumbers
    <3>2. Cardinality(S) <= Cardinality(1 .. last)
      BY <1>7, <3>1, FS_Subset, Zenon
    <3> QED
      BY <3>1, <3>2
  <2>2. n # 0
    <3>1. PICK i \in 1 .. n : f[i] = p[first]
      BY <1>6
    <3> QED
      BY <1>1, <3>1
  <2> QED
    BY <1>1, <1>8, <2>1, <2>2
<1>10. f[1] = p[first]
  <2>1. PICK i \in 1 .. n : f[i] = p[first]
    BY <1>6
  <2>2. PICK k \in Int : first <= k /\ f[1] = p[k]
    BY <1>5, <1>9
  <2>3. i > 1 => k < first
    <3>1. SUFFICES ASSUME i > 1 PROVE k < first
      OBVIOUS
    <3>2. 1 \in 1 .. n /\ 1 < i
      BY <1>1, <1>9, <3>1
    <3>3. <<p[k], p[first]>> \in R
      BY <1>1, <2>1, <2>2, <3>2
    <3> QED
      BY <1>2, <3>3
  <2> QED
    BY <1>9, <2>1, <2>2, <2>3
<1>11. ASSUME NEW i \in 1 .. n
       PROVE  next[f[i]] = IF i = n THEN 0 ELSE f[i + 1]
  <2>1. PICK k \in Int : first <= k /\ f[i] = p[k]
    BY <1>5
  <2>2. Chained(p, k, next[f[i]])
    BY <2>1
  <2>3. CASE next[f[i]] = 0 /\ \A j \in Int : j >= k => p[j] = p[k]
    <3>1. SUFFICES ASSUME i # n PROVE FALSE
      BY <2>3
    <3>2. i + 1 \in 1 .. n /\ i < i + 1
      BY <1>1, <3>1
    <3>3. PICK j \in Int : f[i + 1] = p[j]
      BY <1>5, <3>2
    <3>4. k < j /\ p[k] # p[j]
      <4>1. <<f[i], f[i + 1]>> \in R
        BY <1>1, <3>2
      <4> QED
        BY <1>2, <2>1, <3>3, <4>1
    <3> QED
      BY <2>3, <3>4
  <2>4. ASSUME NEW b \in Int, k < b, p[b] = next[f[i]], p[b] # p[k],
               \A j \in Int : k <= j /\ j < b => p[j] = p[k]
        PROVE  next[f[i]] = IF i = n THEN 0 ELSE f[i + 1]
    <3>1. first <= b
      BY <2>1, <2>4
    <3>2. PICK m \in 1 .. n : f[m] = p[b]
      BY <1>6, <3>1
    <3>3. i < m
      <4>1. m # i
        BY <2>1, <2>4, <3>2
      <4>2. m < i => b < k
        BY <1>1, <1>2, <2>1, <3>2
      <4> QED
        BY <1>1, <2>4, <4>1, <4>2
    <3>4. i + 1 \in 1 .. n /\ i < i + 1
      BY <1>1, <3>3
    <3>5. PICK c \in Int : f[i + 1] = p[c]
      BY <1>5, <3>4
    <3>6. k < c /\ p[c] # p[k]
      <4>1. <<f[i], f[i + 1]>> \in R
        BY <1>1, <3>4
      <4> QED
        BY <1>2, <2>1, <3>5, <4>1
    <3>7. b <= c
      BY <2>4, <3>6
    <3>8. m = i + 1
      <4>1. SUFFICES ASSUME i + 1 < m PROVE FALSE
        BY <1>1, <3>3
      <4>2. c < b
        BY <1>1, <1>2, <3>2, <3>4, <3>5, <4>1
      <4> QED
        BY <3>7, <4>2
    <3> QED
      BY <1>1, <2>4, <3>2, <3>3, <3>8
  <2> QED
    BY <2>2, <2>3, <2>4 DEF Chained
<1>12. \A i \in 1 .. n : f[i] \in 1 .. last
  BY <1>1, <1>7
<1> QED
  BY <1>9, <1>10, <1>11, <1>12

\* The leaves that leavesFrom visits, as the equation they satisfy.
Visits(t, id, v) ==
  v = [i \in DOMAIN t.blocks |->
        IF i = 1 THEN id
        ELSE LET leaf == v[i - 1] IN IF leaf = 0 THEN 0 ELSE readLeaf(t, leaf).next]

\* leavesFrom: what satisfies the recursion is what it visits.
LEMMA VisitIs ==
  ASSUME NEW t, NEW id, NEW last \in Nat, DOMAIN t.blocks = 1 .. last, NEW v,
         Visits(t, id, v)
  PROVE  leavesFrom(t, id) = Picked(v, {i \in DOMAIN t.blocks : v[i] # 0})
<1> DEFINE D == DOMAIN t.blocks
           Then(leaf) == IF leaf = 0 THEN 0 ELSE readLeaf(t, leaf).next
           R(h) == [i \in D |-> IF i = 1 THEN id
                                ELSE LET leaf == h[i - 1]
                                     IN  IF leaf = 0 THEN 0 ELSE readLeaf(t, leaf).next]
           g == CHOOSE h : h = R(h)
           T == {i \in D : g[i] # v[i]}
<1>1. leavesFrom(t, id) = Picked(g, {i \in D : g[i] # 0})
  BY DEF leavesFrom
<1>2. g = R(g)
  <2>1. v = R(v)
    BY DEF Visits
  <2> HIDE DEF R
  <2> QED
    BY <2>1
<1> HIDE DEF g
<1>3. \A i \in D : g[i] = IF i = 1 THEN id ELSE Then(g[i - 1])
  <2>1. g = [i \in D |-> IF i = 1 THEN id ELSE Then(g[i - 1])]
    BY <1>2
  <2> HIDE DEF Then, D
  <2> QED
    BY <2>1
<1>4. \A i \in D : v[i] = IF i = 1 THEN id ELSE Then(v[i - 1])
  <2>1. v = [i \in D |-> IF i = 1 THEN id ELSE Then(v[i - 1])]
    BY DEF Visits
  <2> HIDE DEF Then, D
  <2> QED
    BY <2>1
<1>5. D = 1 .. last
  OBVIOUS
<1>6. g = [i \in D |-> g[i]] /\ v = [i \in D |-> v[i]]
  <2>1. g = [i \in D |-> g[i]]
    BY <1>2
  <2>2. v = [i \in D |-> v[i]]
    BY DEF Visits
  <2> QED
    BY <2>1, <2>2
<1> HIDE DEF Then, D
<1>7. T = {}
  <2>1. SUFFICES ASSUME T # {} PROVE FALSE
    OBVIOUS
  <2>2. T \subseteq Nat /\ T \subseteq D
    BY <1>5
  <2>3. PICK i \in T : \A j \in T : i <= j
    <3> HIDE DEF T
    <3> QED
      BY <2>1, <2>2, LeastNumber, Zenon
  <2>4. i \in D /\ i # 1
    BY <1>3, <1>4
  <2>5. i - 1 \in D /\ i - 1 \notin T
    <3>1. i \in 1 .. last
      BY <1>5, <2>4
    <3>2. i - 1 \in D /\ ~ (i <= i - 1)
      BY <1>5, <2>4, <3>1
    <3> QED
      BY <2>3, <3>2, Zenon
  <2>6. g[i - 1] = v[i - 1]
    BY <2>5
  <2>7. g[i] = Then(g[i - 1]) /\ v[i] = Then(v[i - 1])
    BY <1>3, <1>4, <2>4
  <2> QED
    BY <2>6, <2>7
<1>8. \A i \in D : g[i] = v[i]
  BY <1>7
<1>9. g = v
  BY <1>6, <1>8
<1> QED
  BY <1>1, <1>9 DEF D

\* leavesFrom: the leaves from that of a key on, in order.
LEMMA LeavesRun ==
  ASSUME NEW t, NEW S, NEW P, Tree(t, S, P, P), NEW first \in Int, NEW f, NEW n,
         Runs(f, n, Row(P[t.depth], {k \in Int : first <= k}), LevelOrder(P[t.depth]))
  PROVE  leavesFrom(t, P[t.depth][first]) = f
<1> DEFINE p == P[t.depth]
           last == t.numOfNodes
           next == [id \in 1 .. last |-> readLeaf(t, id).next]
           v == [i \in 1 .. last |-> IF i <= n THEN f[i] ELSE 0]
<1>1. /\ t.depth \in Nat /\ last \in Nat /\ DOMAIN t.blocks = 1 .. last
      /\ Paths(P, t.depth, last) /\ \A k \in Int : LeafHolds(t, S, p, k)
  <2>1. /\ t.depth \in Nat /\ last \in Nat /\ Sound(t)
        /\ Paths(P, t.depth, last) /\ \A k \in Int : LeafHolds(t, S, p, k)
    BY TreeFacts
  <2>2. t.blocks \in Seq(Seq(Int)) /\ Len(t.blocks) = last
    BY <2>1 DEF Sound, TreeType
  <2> QED
    BY <2>1, <2>2
<1>2. p \in [Int -> 1 .. last] /\ Convex(p)
  <2>1. t.depth \in 0 .. t.depth
    BY <1>1
  <2> HIDE DEF last
  <2>2. P \in [0 .. t.depth -> [Int -> 1 .. last]] /\ \A l \in 0 .. t.depth : Convex(P[l])
    BY <1>1, OnLevels
  <2> QED
    BY <2>1, <2>2
<1>3. \A k \in Int : Chained(p, k, next[p[k]])
  <2>1. SUFFICES ASSUME NEW k \in Int PROVE Chained(p, k, next[p[k]])
    OBVIOUS
  <2>2. next[p[k]] = readLeaf(t, p[k]).next
    BY <1>2
  <2> QED
    BY <1>1, <2>2 DEF LeafHolds
<1> HIDE DEF p, next
<1>4. /\ n \in 1 .. last /\ f[1] = p[first]
      /\ \A i \in 1 .. n : f[i] \in 1 .. last /\ next[f[i]] = IF i = n THEN 0 ELSE f[i + 1]
  <2>1. Runs(f, n, Row(p, {k \in Int : first <= k}), LevelOrder(p))
    BY DEF p
  <2> HIDE DEF last
  <2>2. last \in Nat /\ p \in [Int -> 1 .. last] /\ Convex(p)
    BY <1>1, <1>2
  <2> QED
    BY <1>3, <2>1, <2>2, ChainRuns, SMTT(20)
<1>5. \A i \in 1 .. n : readLeaf(t, f[i]).next = IF i = n THEN 0 ELSE f[i + 1]
  BY <1>4 DEF next
<1>6. ASSUME NEW i \in 1 .. last
      PROVE  v[i] = IF i = 1 THEN p[first]
                    ELSE LET leaf == v[i - 1] IN IF leaf = 0 THEN 0 ELSE readLeaf(t, leaf).next
  <2>1. CASE i = 1
    BY <1>4, <2>1
  <2>2. CASE i # 1 /\ i - 1 <= n
    <3>1. i - 1 \in 1 .. n /\ i - 1 \in 1 .. last /\ (i - 1) + 1 = i
      BY <1>1, <1>4, <2>2
    <3>2. v[i - 1] = f[i - 1] /\ v[i - 1] # 0
      BY <1>4, <3>1
    <3>3. readLeaf(t, f[i - 1]).next = IF i - 1 = n THEN 0 ELSE f[i]
      BY <1>5, <3>1
    <3>4. v[i] = IF i - 1 = n THEN 0 ELSE f[i]
      BY <1>1, <1>4, <2>2
    <3> HIDE DEF v
    <3> QED
      BY <2>2, <3>2, <3>3, <3>4
  <2>3. CASE i # 1 /\ n < i - 1
    BY <1>1, <1>4, <2>3
  <2> QED
    BY <1>1, <1>4, <2>1, <2>2, <2>3
<1>7. Visits(t, p[first], v)
  <2>1. v = [i \in DOMAIN t.blocks |-> v[i]]
    BY <1>1
  <2> HIDE DEF v
  <2> QED
    BY <1>1, <1>6, <2>1 DEF Visits
<1>8. {i \in DOMAIN t.blocks : v[i] # 0} = 1 .. n
  BY <1>1, <1>4
<1>9. \A i \in 1 .. n : v[i] = f[i]
  BY <1>1, <1>4
<1> HIDE DEF v
<1>10. leavesFrom(t, p[first]) = Picked(v, 1 .. n)
  <2> HIDE DEF last
  <2>1. leavesFrom(t, p[first]) = Picked(v, {i \in DOMAIN t.blocks : v[i] # 0})
    BY <1>1, <1>7, VisitIs
  <2> QED
    BY <1>8, <2>1
<1>11. Picked(v, 1 .. n) = [i \in 1 .. n |-> v[i]]
  BY <1>4, PickedFront
<1>12. f = [i \in 1 .. n |-> f[i]]
  BY DEF Runs
<1> QED
  BY <1>9, <1>10, <1>11, <1>12 DEF p

\* A leaf on the way for a key of K, and what it lists.
LEMMA LeafOnRow ==
  ASSUME NEW t, NEW S, NEW P, Tree(t, S, P, P), NEW K, K \subseteq Int,
         NEW id \in Row(P[t.depth], K)
  PROVE  Lists(readLeaf(t, id).entries, t.capacity, S, P[t.depth], id)
<1>1. PICK k \in K : P[t.depth][k] = id
  BY DEF Row
<1>2. LeafHolds(t, S, P[t.depth], k)
  BY <1>1, TreeFacts
<1> QED
  BY <1>1, <1>2 DEF LeafHolds

\* The entries of S whose keys p leads to blocks of the row of K.
Beneath(S, p, K) == {e \in S : p[e.key] \in Row(p, K)}

\* entriesOf: the entries of the leaves for the keys of K, in key order.
LEMMA RowEntries ==
  ASSUME NEW t, NEW S, S \subseteq EntryType, NEW P, Tree(t, S, P, P), NEW K, K \subseteq Int,
         NEW f, NEW n, Runs(f, n, Row(P[t.depth], K), LevelOrder(P[t.depth]))
  PROVE  /\ entriesOf(t, f) \in Seq(EntryType) /\ Ascending(entriesOf(t, f))
         /\ ToSet(entriesOf(t, f)) = Beneath(S, P[t.depth], K)
<1> DEFINE p == P[t.depth]
           R == LevelOrder(p)
           seqs == [i \in DOMAIN f |-> readLeaf(t, f[i]).entries]
           r == entriesOf(t, f)
<1>1. t.depth \in Nat /\ Paths(P, t.depth, t.numOfNodes)
  BY TreeFacts
<1>2. Convex(p)
  <2>1. \A l \in 0 .. t.depth : Convex(P[l])
    BY <1>1, OnLevels
  <2> QED
    BY <1>1, <2>1
<1>3. \A j, k \in Int : <<p[j], p[k]>> \in R <=> j < k /\ p[j] # p[k]
  BY <1>2, RowOrder
<1>4. /\ n \in Nat /\ DOMAIN f = 1 .. n /\ \A i \in 1 .. n : f[i] \in Row(p, K)
      /\ \A i, j \in 1 .. n : i < j => <<f[i], f[j]>> \in R
      /\ \A x \in Row(p, K) : \E i \in 1 .. n : f[i] = x
  BY DEF Runs
<1>5. ASSUME NEW i \in 1 .. n
      PROVE  /\ seqs[i] \in Seq(EntryType) /\ Ascending(seqs[i])
             /\ ToSet(seqs[i]) = Under(S, p, f[i])
  <2>1. seqs[i] = readLeaf(t, f[i]).entries
    BY <1>4
  <2> HIDE DEF seqs
  <2> QED
    <3>1. f[i] \in Row(P[t.depth], K) /\ Tree(t, S, P, P) /\ K \subseteq Int
      BY <1>4
    <3>2. Lists(readLeaf(t, f[i]).entries, t.capacity, S, P[t.depth], f[i])
      BY <3>1, LeafOnRow
    <3> QED
      BY <2>1, <3>2 DEF Lists, Fits
<1>6. r = Joined(seqs)
  BY DEF entriesOf
<1>7. DOMAIN seqs = 1 .. n
  BY <1>4
<1> HIDE DEF p, R, seqs, r
<1>8. ASSUME NEW i \in 1 .. n, NEW j \in 1 .. n, i < j,
             NEW x \in ToSet(seqs[i]), NEW y \in ToSet(seqs[j])
      PROVE  x.key < y.key
  <2>1. x \in S /\ p[x.key] = f[i] /\ y \in S /\ p[y.key] = f[j]
    BY <1>5 DEF Under
  <2>2. x.key \in Int /\ y.key \in Int
    BY <2>1 DEF EntryType
  <2> QED
    BY <1>3, <1>4, <1>8, <2>1, <2>2
<1>9. Stacked(seqs, n)
  BY <1>4, <1>5, <1>7, <1>8 DEF Stacked
<1>10. /\ r \in Seq(EntryType) /\ Ascending(r)
       /\ \A x : x \in ToSet(r) <=> \E i \in 1 .. n : x \in ToSet(seqs[i])
  BY <1>6, <1>9, JoinedAscending
<1>11. ASSUME NEW x \in ToSet(r)
       PROVE  x \in Beneath(S, p, K)
  <2>1. PICK i \in 1 .. n : x \in ToSet(seqs[i])
    BY <1>10
  <2>2. x \in S /\ p[x.key] = f[i]
    BY <1>5, <2>1 DEF Under
  <2> QED
    BY <1>4, <2>2 DEF Beneath
<1>12. ASSUME NEW x \in Beneath(S, p, K)
       PROVE  x \in ToSet(r)
  <2>1. x \in S /\ p[x.key] \in Row(p, K)
    BY DEF Beneath
  <2>2. PICK i \in 1 .. n : f[i] = p[x.key]
    BY <1>4, <2>1
  <2>3. x \in ToSet(seqs[i])
    BY <1>5, <2>1, <2>2 DEF Under
  <2> QED
    BY <1>10, <2>3
<1>13. ToSet(r) = Beneath(S, p, K)
  BY <1>11, <1>12
<1> QED
  BY <1>10, <1>13 DEF r, p

\* Every row of a level has an order to run through it in.
LEMMA RowRuns ==
  ASSUME NEW p, NEW last \in Nat, p \in [Int -> 1 .. last], Convex(p), NEW K, K \subseteq Int
  PROVE  \E f, n : Runs(f, n, Row(p, K), LevelOrder(p))
<1> DEFINE S == Row(p, K)
<1>1. S \subseteq 1 .. last
  BY DEF Row
<1>2. IsFiniteSet(1 .. last)
  BY FirstNumbers
<1>3. IsFiniteSet(S)
  <2> HIDE DEF S
  <2> QED
    BY <1>1, <1>2, FS_Subset
<1>4. Orders(LevelOrder(p), S)
  BY RowOrder
<1> QED
  BY <1>3, <1>4, RankedRuns

\* rangeSearch: the entries of the range in key order.
LEMMA RangeScan ==
  ASSUME NEW t, t.numOfNodes # 0, NEW S, S \subseteq EntryType, NEW P, Tree(t, S, P, P),
         NEW first \in Int, NEW last \in Int
  PROVE  rangeSearch(t, first, last) = SortedByKey({e \in S : first <= e.key /\ e.key <= last})
<1> DEFINE p == P[t.depth]
           K == {k \in Int : first <= k}
<1>1. /\ t.depth \in Nat /\ t.numOfNodes \in Nat /\ Paths(P, t.depth, t.numOfNodes)
      /\ t.depth \in 0 .. t.depth
  BY TreeFacts
<1>2. p \in [Int -> 1 .. t.numOfNodes] /\ Convex(p)
  <2>1. /\ P \in [0 .. t.depth -> [Int -> 1 .. t.numOfNodes]]
        /\ \A l \in 0 .. t.depth : Convex(P[l])
    BY <1>1, OnLevels
  <2> QED
    BY <1>1, <2>1
<1>3. getPath(t, first)[t.depth] = p[first]
  BY <1>1, PathOf
<1>4. PICK f, n : Runs(f, n, Row(p, K), LevelOrder(p))
  <2>1. K \subseteq Int
    OBVIOUS
  <2> HIDE DEF p, K
  <2> QED
    BY <1>1, <1>2, <2>1, RowRuns
<1>5. leavesFrom(t, p[first]) = f
  BY <1>4, LeavesRun
<1> DEFINE entries == entriesOf(t, f)
           at == {i \in DOMAIN entries :
                    /\ entries[i].key >= first
                    /\ \A j \in 1 .. i : entries[j].key <= last}
<1>6. /\ entries \in Seq(EntryType) /\ Ascending(entries)
      /\ ToSet(entries) = Beneath(S, p, K)
  <2>1. K \subseteq Int
    OBVIOUS
  <2> HIDE DEF K
  <2> QED
    BY <1>4, <2>1, RowEntries
<1>7. rangeSearch(t, first, last) = Picked(entries, at)
  BY <1>3, <1>5 DEF rangeSearch
<1> HIDE DEF entries
<1>8. /\ DOMAIN entries = 1 .. Len(entries) /\ Len(entries) \in Nat
      /\ \A i \in 1 .. Len(entries) : entries[i].key \in Int
      /\ \A i, j \in 1 .. Len(entries) : i < j => entries[i].key < entries[j].key
  <2>1. \A i \in 1 .. Len(entries) : entries[i] \in EntryType
    BY <1>6
  <2> QED
    BY <1>6, <2>1 DEF EntryType, Ascending
<1>9. at = {i \in 1 .. Len(entries) : first <= entries[i].key /\ entries[i].key <= last}
  <2>1. ASSUME NEW i \in 1 .. Len(entries), entries[i].key <= last, NEW j \in 1 .. i
        PROVE  entries[j].key <= last
    <3>1. j \in 1 .. Len(entries) /\ (j < i \/ j = i)
      BY <1>8, <2>1
    <3>2. entries[j].key \in Int /\ entries[i].key \in Int
      BY <1>8, <3>1
    <3>3. j < i => entries[j].key < entries[i].key
      BY <1>8, <3>1
    <3> QED
      BY <2>1, <3>1, <3>2, <3>3
  <2>2. \A i \in 1 .. Len(entries) : i \in 1 .. i
    OBVIOUS
  <2> QED
    BY <1>8, <2>1, <2>2
<1> HIDE DEF at
<1>10. at \subseteq 1 .. Len(entries)
  BY <1>9
<1> DEFINE r == Picked(entries, at)
           T == {e \in S : first <= e.key /\ e.key <= last}
<1>11. r \in Seq(EntryType) /\ Ascending(r) /\ ToSet(r) = {entries[i] : i \in at}
  BY <1>6, <1>10, PickedAscending
<1>12. {entries[i] : i \in at} = T
  <2>1. ASSUME NEW e \in T
        PROVE  \E i \in at : entries[i] = e
    <3>1. e.key \in K
      BY DEF EntryType
    <3>2. e \in ToSet(entries)
      BY <1>6, <3>1 DEF Row, Beneath
    <3>3. PICK i \in 1 .. Len(entries) : entries[i] = e
      BY <1>6, <3>2, ToSetIs
    <3> QED
      BY <1>9, <3>3
  <2>2. ASSUME NEW i \in at
        PROVE  entries[i] \in T
    <3>1. entries[i] \in ToSet(entries)
      BY <1>6, <1>10, ToSetIs
    <3> QED
      BY <1>6, <1>9, <3>1 DEF Beneath
  <2> HIDE DEF T
  <2> QED
    BY <2>1, <2>2
<1> HIDE DEF r, T
<1>13. SortedByKey(T) = r
  BY <1>11, <1>12, SortedIs
<1> QED
  BY <1>7, <1>13 DEF r, T

-----------------------------------------------------------------------------
(* The levels, from the root down                                          *)

\* The children of a node, from left to right.
LEMMA ChildrenAre ==
  ASSUME NEW node \in NodeType
  PROVE  /\ DOMAIN childrenOf(node) = 1 .. Len(node.separators) + 1
         /\ \A i \in 1 .. Len(node.separators) + 1 : childrenOf(node)[i] = Kid(node, i - 1)
<1> DEFINE s == node.separators
           values == [i \in DOMAIN s |-> s[i].value]
<1>1. /\ s \in Seq(EntryType) /\ node.firstChild \in Int /\ Len(s) \in Nat
      /\ \A i \in 1 .. Len(s) : s[i].value \in Int
  BY SeparatorsOf
<1>2. DOMAIN s = 1 .. Len(s)
  BY <1>1
<1>3. values \in Seq(Int) /\ Len(values) = Len(s)
  BY <1>1, <1>2
<1>4. \A i \in 1 .. Len(s) : values[i] = s[i].value
  BY <1>2
<1>5. childrenOf(node) = <<node.firstChild>> \o values
  BY DEF childrenOf
<1> HIDE DEF s, values
<1>6. <<node.firstChild>> \in Seq(Int) /\ Len(<<node.firstChild>>) = 1
  BY <1>1
<1>7. DOMAIN childrenOf(node) = 1 .. Len(s) + 1
  BY <1>1, <1>3, <1>5, <1>6
<1>8. ASSUME NEW i \in 1 .. Len(s) + 1
      PROVE  childrenOf(node)[i] = Kid(node, i - 1)
  <2>1. CASE i = 1
    <3>1. childrenOf(node)[i] = node.firstChild
      BY <1>1, <1>3, <1>5, <1>6, <2>1
    <3> QED
      BY <2>1, <3>1 DEF Kid
  <2>2. CASE i > 1
    <3>1. childrenOf(node)[i] = values[i - 1] /\ i - 1 \in 1 .. Len(s)
      BY <1>1, <1>3, <1>5, <1>6, <2>2
    <3> QED
      BY <1>4, <2>2, <3>1 DEF Kid, s
  <2> QED
    BY <1>1, <2>1, <2>2
<1> QED
  BY <1>7, <1>8 DEF s

\* The keys of a block.
KeysOf(p, id) == {k \in Int : p[k] = id}

\* The children of a node run through the blocks below it.
LEMMA ChildrenRun ==
  ASSUME NEW t, NEW S, NEW p, NEW w, Convex(w), NEW id, \E k \in Int : p[k] = id,
         \A k \in Int : NodeHolds(t, S, p, w, k)
  PROVE  Runs(childrenOf(readInternal(t, id)), Len(readInternal(t, id).separators) + 1,
              Row(w, KeysOf(p, id)), LevelOrder(w))
<1> DEFINE node == readInternal(t, id)
           s == node.separators
           n == Len(s)
           c == childrenOf(node)
           R == LevelOrder(w)
           T == Row(w, KeysOf(p, id))
<1>1. PICK k0 \in Int : p[k0] = id
  OBVIOUS
<1>2. GoodNode(node, t.capacity) /\ Bounds(S, p, k0, node)
  BY <1>1 DEF NodeHolds
<1>3. \A k \in Int : p[k] = id => child(node, k) = w[k]
  BY DEF NodeHolds
<1> HIDE DEF node
<1>4. /\ node \in NodeType /\ Ascending(s)
      /\ \A i, j \in 0 .. n : Kid(node, i) = Kid(node, j) => i = j
  BY <1>2 DEF GoodNode
<1>5. /\ s \in Seq(EntryType) /\ n \in Nat
      /\ \A i \in 1 .. n : s[i].key \in Int
  BY <1>4, SeparatorsOf
<1>6. \A i \in 1 .. n : /\ p[s[i].key] = id
                        /\ \E j \in Int : j < s[i].key /\ p[j] = id
  BY <1>1, <1>2 DEF Bounds
<1>7. DOMAIN c = 1 .. n + 1 /\ \A i \in 1 .. n + 1 : c[i] = Kid(node, i - 1)
  BY <1>4, ChildrenAre
<1>8. c = [i \in 1 .. n + 1 |-> c[i]]
  <2>1. \E values : c = <<node.firstChild>> \o values
    BY DEF childrenOf
  <2>2. c = [i \in DOMAIN c |-> c[i]]
    BY <2>1
  <2> QED
    BY <1>7, <2>2
<1>9. ASSUME NEW i \in 1 .. n
      PROVE  w[s[i].key] = Kid(node, i)
  <2>1. child(node, s[i].key) = Kid(node, i)
    BY <1>2, KidReached
  <2> QED
    BY <1>3, <1>5, <1>6, <2>1
<1>10. PICK q \in Int : /\ p[q] = id /\ w[q] = Kid(node, 0)
                        /\ n > 0 => q < s[1].key
  <2>1. CASE n = 0
    <3>1. child(node, k0) = node.firstChild
      BY <1>2, <1>5, <2>1, FirstChildReached
    <3> QED
      BY <1>1, <1>3, <2>1, <3>1 DEF Kid
  <2>2. CASE n > 0
    <3>1. 1 \in 1 .. n
      BY <1>5, <2>2
    <3>2. PICK q \in Int : q < s[1].key /\ p[q] = id
      BY <1>6, <3>1
    <3>3. child(node, q) = node.firstChild
      BY <1>2, <3>2, FirstChildReached
    <3> QED
      BY <1>3, <3>2, <3>3 DEF Kid
  <2> QED
    BY <1>5, <2>1, <2>2
<1> DEFINE at(i) == IF i = 1 THEN q ELSE s[i - 1].key
<1>11. ASSUME NEW i \in 1 .. n + 1
       PROVE  at(i) \in Int /\ p[at(i)] = id /\ c[i] = w[at(i)]
  <2>1. CASE i = 1
    BY <1>7, <1>10, <2>1
  <2>2. CASE i > 1
    <3>1. i - 1 \in 1 .. n
      BY <1>5, <2>2
    <3> QED
      BY <1>5, <1>6, <1>7, <1>9, <2>2, <3>1
  <2> QED
    BY <1>5, <2>1, <2>2
<1>12. ASSUME NEW i \in 1 .. n + 1, NEW j \in 1 .. n + 1, i < j
       PROVE  at(i) < at(j) /\ c[i] # c[j]
  <2>1. j > 1 /\ j - 1 \in 1 .. n
    BY <1>5, <1>12
  <2>2. \A a, b \in 1 .. n : a < b => s[a].key < s[b].key
    BY <1>4 DEF Ascending
  <2>3. c[i] # c[j]
    <3>1. i - 1 \in 0 .. n /\ j - 1 \in 0 .. n /\ i - 1 # j - 1
      BY <1>5, <1>12
    <3>2. Kid(node, i - 1) # Kid(node, j - 1)
      BY <1>4, <3>1
    <3> QED
      BY <1>7, <3>2
  <2>4. CASE i = 1
    <3>1. 1 \in 1 .. n /\ q < s[1].key
      BY <1>5, <1>10, <2>1
    <3>2. s[1].key <= s[j - 1].key
      <4>1. CASE j - 1 = 1
        BY <1>5, <3>1, <4>1
      <4>2. CASE j - 1 # 1
        <5>1. 1 < j - 1
          BY <1>5, <2>1, <4>2
        <5>2. s[1].key < s[j - 1].key
          BY <2>1, <2>2, <3>1, <5>1
        <5> QED
          BY <1>5, <2>1, <3>1, <5>2, SMTT(30)
      <4> QED
        BY <4>1, <4>2
    <3>3. s[1].key \in Int /\ s[j - 1].key \in Int
      BY <1>5, <2>1, <3>1
    <3>4. at(i) = q /\ at(j) = s[j - 1].key
      BY <2>1, <2>4
    <3>5. at(i) < at(j)
      BY <3>1, <3>2, <3>3, <3>4
    <3> QED
      BY <2>3, <3>5
  <2>5. CASE i > 1
    <3>1. i - 1 \in 1 .. n /\ i - 1 < j - 1
      BY <1>5, <1>12, <2>5
    <3>2. at(i) < at(j)
      BY <2>1, <2>2, <2>5, <3>1
    <3> QED
      BY <2>3, <3>2
  <2> QED
    BY <2>4, <2>5
<1>13. \A j, k \in Int : <<w[j], w[k]>> \in R <=> j < k /\ w[j] # w[k]
  BY RowOrder
<1>14. ASSUME NEW k \in Int, p[k] = id
       PROVE  \E i \in 1 .. n + 1 : c[i] = w[k]
  <2>1. PICK m : At(s, k, m)
    BY <1>4, <1>5, Position
  <2>2. child(node, k) = Kid(node, m) /\ m \in 0 .. n
    BY <1>4, <2>1, ChildAt DEF At
  <2>3. m + 1 \in 1 .. n + 1 /\ (m + 1) - 1 = m
    BY <1>5, <2>2
  <2> QED
    BY <1>3, <1>7, <1>14, <2>2, <2>3
<1> HIDE DEF at, c, n
<1>15. \A i \in 1 .. n + 1 : c[i] \in T
  BY <1>11 DEF Row, KeysOf
<1>16. \A x \in T : \E i \in 1 .. n + 1 : c[i] = x
  BY <1>14 DEF Row, KeysOf
<1>17. \A i, j \in 1 .. n + 1 : i < j => <<c[i], c[j]>> \in R
  BY <1>11, <1>12, <1>13
<1>18. n + 1 \in Nat
  BY <1>5 DEF n
<1> HIDE DEF T, R
<1>19. Runs(c, n + 1, T, R)
  BY <1>8, <1>15, <1>16, <1>17, <1>18 DEF Runs
<1> QED
  BY <1>19 DEF c, n, T, R, node

-----------------------------------------------------------------------------
(* print                                                                   *)

\* The keys of sequences of entries, each with the keys of one.
Keyed(keys, seqs, m) ==
  /\ DOMAIN keys = 1 .. m
  /\ \A i \in 1 .. m : /\ DOMAIN keys[i] = DOMAIN seqs[i]
                       /\ \A a \in DOMAIN seqs[i] : keys[i][a] = seqs[i][a].key

\* The keys of sequences one after the other are the keys of the entries in them.
LEMMA JoinedKeys ==
  ASSUME NEW seqs, NEW m, Sequences(seqs, m), NEW keys, Keyed(keys, seqs, m)
  PROVE  Joined(keys) = keysOf(Joined(seqs))
<1> DEFINE at == Places(seqs)
           n == Cardinality(at)
           R == PlaceOrder(at)
<1>1. /\ m \in Nat /\ DOMAIN seqs = 1 .. m /\ DOMAIN keys = 1 .. m
      /\ \A i \in 1 .. m : /\ DOMAIN keys[i] = DOMAIN seqs[i]
                           /\ \A a \in DOMAIN seqs[i] : keys[i][a] = seqs[i][a].key
  BY DEF Sequences, Keyed
<1>2. Sequences(keys, m)
  BY <1>1 DEF Sequences
<1>3. Places(keys) = at
  BY <1>1 DEF Places
<1>4. PICK f : /\ Runs(f, n, at, R)
               /\ Joined(seqs) = [i \in 1 .. n |-> seqs[f[i][1]][f[i][2]]]
  BY JoinedRuns
<1>5. \E g : /\ Runs(g, n, at, R)
             /\ Joined(keys) = [i \in 1 .. n |-> keys[g[i][1]][g[i][2]]]
  <2>1. \E g : /\ Runs(g, Cardinality(Places(keys)), Places(keys), PlaceOrder(Places(keys)))
               /\ Joined(keys) = [i \in 1 .. Cardinality(Places(keys)) |-> keys[g[i][1]][g[i][2]]]
    BY <1>2, JoinedRuns
  <2> QED
    BY <1>3, <2>1
<1>6. PICK g : /\ Runs(g, n, at, R)
               /\ Joined(keys) = [i \in 1 .. n |-> keys[g[i][1]][g[i][2]]]
  BY <1>5
<1>7. /\ Orders(R, at)
      /\ at = {p \in Int \X Int : p[1] \in 1 .. m /\ p[2] \in DOMAIN seqs[p[1]]}
  BY PlacesAre
<1>8. \A i \in 1 .. n : f[i] \in at
  BY <1>4 DEF Runs
<1> HIDE DEF R, n
<1>9. f = g
  BY <1>4, <1>6, <1>7, OneRun
<1>10. \A i \in 1 .. n : keys[f[i][1]][f[i][2]] = seqs[f[i][1]][f[i][2]].key
  BY <1>1, <1>7, <1>8
<1> HIDE DEF at
<1>11. Joined(keys) = [i \in 1 .. n |-> seqs[f[i][1]][f[i][2]].key]
  BY <1>6, <1>9, <1>10
<1>12. DOMAIN Joined(seqs) = 1 .. n
       /\ \A i \in 1 .. n : Joined(seqs)[i] = seqs[f[i][1]][f[i][2]]
  BY <1>4
<1> QED
  BY <1>11, <1>12 DEF keysOf

\* print: of a tree with at most two levels the last line has every key, in order.
LEMMA PrintShows ==
  ASSUME NEW t, t.numOfNodes # 0, NEW S, S \subseteq EntryType, NEW P, Tree(t, S, P, P),
         t.depth <= 1
  PROVE  print(t)[t.depth + 1] = keysOf(SortedByKey(S))
<1> DEFINE root == t.rootBID
<1>1. /\ t.depth \in Nat /\ t.numOfNodes \in Nat /\ Paths(P, t.depth, t.numOfNodes)
      /\ \A k \in Int : P[0][k] = root
  BY TreeFacts
<1>2. \A l \in 0 .. t.depth : Convex(P[l])
  BY <1>1, OnLevels
<1>3. CASE t.depth = 0
  <2> DEFINE s == readLeaf(t, root).entries
  <2>1. root \in Row(P[t.depth], Int)
    BY <1>1, <1>3 DEF Row
  <2>2. Lists(s, t.capacity, S, P[t.depth], root)
    BY <2>1, LeafOnRow
  <2> HIDE DEF s
  <2>3. s \in Seq(EntryType) /\ Ascending(s) /\ ToSet(s) = Under(S, P[t.depth], root)
    BY <2>2 DEF Lists, Fits
  <2>4. Under(S, P[t.depth], root) = S
    <3>1. \A e \in S : P[0][e.key] = root
      BY <1>1 DEF EntryType
    <3> QED
      BY <1>3, <3>1 DEF Under
  <2>5. SortedByKey(S) = s
    BY <2>3, <2>4, SortedIs
  <2>6. print(t)[1] = keysOf(s)
    BY <1>3 DEF print, s
  <2> QED
    BY <1>3, <2>5, <2>6
<1>4. CASE t.depth = 1
  <2> DEFINE c == childrenOf(readInternal(t, root))
             n == Len(readInternal(t, root).separators) + 1
             w == P[1]
             seqs == [i \in DOMAIN c |-> readLeaf(t, c[i]).entries]
             keys == [i \in DOMAIN c |-> keysOf(readLeaf(t, c[i]).entries)]
             r == entriesOf(t, c)
  <2>1. Runs(c, n, Row(w, KeysOf(P[0], root)), LevelOrder(w))
    <3>1. \A k \in Int : NodeHolds(t, S, P[0], w, k)
      <4>1. 0 \in 0 .. t.depth - 1 /\ 0 + 1 = 1
        BY <1>4
      <4>2. \A l \in 0 .. t.depth - 1 : \A k \in Int : NodeHolds(t, S, P[l], P[l + 1], k)
        BY TreeFacts
      <4> QED
        BY <4>1, <4>2
    <3>2. Convex(w)
      BY <1>2, <1>4
    <3>3. \E k \in Int : P[0][k] = root
      BY <1>1
    <3> HIDE DEF root, w
    <3> QED
      BY <3>1, <3>2, <3>3, ChildrenRun
  <2>2. KeysOf(P[0], root) = Int
    BY <1>1 DEF KeysOf
  <2>3. n \in Nat /\ DOMAIN c = 1 .. n /\ \A i \in 1 .. n : c[i] \in Row(w, Int)
    BY <2>1, <2>2 DEF Runs
  <2>4. /\ r \in Seq(EntryType) /\ Ascending(r)
        /\ ToSet(r) = Beneath(S, w, Int)
    <3>1. Runs(c, n, Row(P[t.depth], Int), LevelOrder(P[t.depth])) /\ Int \subseteq Int
      BY <1>4, <2>1, <2>2
    <3> HIDE DEF c, n
    <3>2. /\ r \in Seq(EntryType) /\ Ascending(r)
          /\ ToSet(r) = Beneath(S, P[t.depth], Int)
      BY <3>1, RowEntries
    <3> QED
      BY <1>4, <3>2
  <2>5. Beneath(S, w, Int) = S
    BY DEF Beneath, Row, EntryType
  <2>6. SortedByKey(S) = r
    <3> HIDE DEF r
    <3> QED
      BY <2>4, <2>5, SortedIs
  <2>7. r = Joined(seqs)
    BY DEF entriesOf
  <2>8. print(t)[2] = Joined(keys)
    <3>1. print(t) = <<keysOf(readInternal(t, root).separators),
                       Joined([i \in DOMAIN c |->
                         IF t.depth = 1 THEN keysOf(readLeaf(t, c[i]).entries)
                         ELSE keysOf(readInternal(t, c[i]).separators)])>>
      BY <1>4 DEF print
    <3> HIDE DEF c
    <3>2. keys = [i \in DOMAIN c |->
                   IF t.depth = 1 THEN keysOf(readLeaf(t, c[i]).entries)
                   ELSE keysOf(readInternal(t, c[i]).separators)]
      BY <1>4
    <3> HIDE DEF keys
    <3> QED
      BY <3>1, <3>2
  <2> HIDE DEF c, n, r
  <2>9. \A i \in 1 .. n : readLeaf(t, c[i]).entries \in Seq(EntryType)
    <3>1. ASSUME NEW i \in 1 .. n
          PROVE  readLeaf(t, c[i]).entries \in Seq(EntryType)
      <4>1. c[i] \in Row(P[t.depth], Int)
        BY <1>4, <2>3
      <4>2. Lists(readLeaf(t, c[i]).entries, t.capacity, S, P[t.depth], c[i])
        BY <4>1, LeafOnRow
      <4> QED
        BY <4>2 DEF Lists, Fits
    <3> QED
      BY <3>1
  <2>10. Sequences(seqs, n)
    <3>1. \A i \in 1 .. n : \E m \in Nat : DOMAIN seqs[i] = 1 .. m
      <4>1. SUFFICES ASSUME NEW i \in 1 .. n
                     PROVE  \E m \in Nat : DOMAIN seqs[i] = 1 .. m
        OBVIOUS
      <4>2. seqs[i] \in Seq(EntryType)
        BY <2>3, <2>9
      <4> HIDE DEF seqs
      <4> QED
        BY <4>2
    <3> QED
      BY <2>3, <3>1 DEF Sequences
  <2>11. Keyed(keys, seqs, n)
    BY <2>3 DEF Keyed, keysOf
  <2>12. Joined(keys) = keysOf(Joined(seqs))
    <3> HIDE DEF keys, seqs
    <3> QED
      BY <2>10, <2>11, JoinedKeys
  <2> HIDE DEF keys, seqs
  <2> QED
    BY <1>4, <2>6, <2>7, <2>8, <2>12
<1> QED
  BY <1>1, <1>3, <1>4

-----------------------------------------------------------------------------
(* What the invariant says of rangeSearch and print                        *)

\* A tree with levels has a block.
LEMMA HeldBlocks ==
  ASSUME NEW t, NEW S, NEW P, Tree(t, S, P, P)
  PROVE  t.numOfNodes # 0
<1>1. Paths(P, t.depth, t.numOfNodes) /\ t.depth \in Nat
  BY TreeFacts
<1>2. Within(P, t.depth, t.numOfNodes)
  BY <1>1, OnLevels
<1>3. P[0][0] \in 1 .. t.numOfNodes
  BY <1>1, <1>2 DEF Within
<1> QED
  BY <1>3

\* No entries in key order.
LEMMA SortedNone == SortedByKey({}) = <<>>
<1>1. <<>> \in Seq(EntryType) /\ Len(<<>>) = 0
  OBVIOUS
<1>2. Ascending(<<>>)
  BY <1>1 DEF Ascending
<1>3. ToSet(<<>>) = {}
  <2>1. \A x \in ToSet(<<>>) : \E i \in 1 .. Len(<<>>) : <<>>[i] = x
    BY <1>1, ToSetIs
  <2> QED
    BY <1>1, <2>1
<1> QED
  BY <1>1, <1>2, <1>3, SortedIs

\* The invariant gives the answers of rangeSearch and print.
LEMMA RangeFinds ==
  ASSUME Aligned, FileInv
  PROVE  RangeAnswers
<1>1. SUFFICES ASSUME Readable
               PROVE  /\ \A first, last \in Keys :
                           rangeSearch(Stored, first, last) =
                             SortedByKey({e \in inserted : first <= e.key /\ e.key <= last})
                      /\ Stored.depth <= 1 =>
                           print(Stored)[Stored.depth + 1] = keysOf(SortedByKey(inserted))
  <2>1. Readable => Seen = Stored
    BY Counted DEF Readable
  <2> QED
    BY <2>1 DEF RangeAnswers
<1>2. AtRest(Stored, inserted) /\ inserted \subseteq Entries
  BY <1>1 DEF Readable, FileInv
<1>3. Keys \subseteq Int /\ inserted \subseteq EntryType
  BY <1>2, EntriesTyped DEF Keys, EntryType
<1> HIDE DEF Stored
<1>4. CASE inserted = {} /\ Stored.numOfNodes = 0 /\ Stored.depth = 0
  <2>1. \A first, last : rangeSearch(Stored, first, last) = <<>>
    BY <1>4 DEF rangeSearch
  <2>2. print(Stored)[1] = <<>>
    BY <1>4 DEF print
  <2>3. keysOf(<<>>) = <<>>
    BY DEF keysOf
  <2>4. \A first, last : {e \in inserted : first <= e.key /\ e.key <= last} = {}
    BY <1>4
  <2> QED
    BY <1>4, <2>1, <2>2, <2>3, <2>4, SortedNone
<1>5. ASSUME NEW P, Tree(Stored, inserted, P, P)
      PROVE  /\ \A first, last \in Keys :
                  rangeSearch(Stored, first, last) =
                    SortedByKey({e \in inserted : first <= e.key /\ e.key <= last})
             /\ Stored.depth <= 1 =>
                  print(Stored)[Stored.depth + 1] = keysOf(SortedByKey(inserted))
  <2>1. Stored.numOfNodes # 0
    BY <1>5, HeldBlocks
  <2>2. ASSUME NEW first \in Keys, NEW last \in Keys
        PROVE  rangeSearch(Stored, first, last) =
                 SortedByKey({e \in inserted : first <= e.key /\ e.key <= last})
    <3>1. first \in Int /\ last \in Int
      BY <1>3
    <3> QED
      BY <1>3, <1>5, <2>1, <3>1, RangeScan
  <2>3. Stored.depth <= 1 => print(Stored)[Stored.depth + 1] = keysOf(SortedByKey(inserted))
    BY <1>3, <1>5, <2>1, PrintShows
  <2> QED
    BY <2>2, <2>3
<1>6. \/ inserted = {} /\ Stored.numOfNodes = 0 /\ Stored.depth = 0
      \/ \E P : Tree(Stored, inserted, P, P)
  BY <1>2 DEF AtRest, Held
<1> QED
  BY <1>4, <1>5, <1>6

\* rangeSearch answers the entries of the range in key order, and print shows every
\* key of a tree that has at most two levels, whatever the block sizes (aligned ones),
\* the entries and the order they came in.
THEOREM BPlusTreeRange == ASSUME Aligned PROVE Spec => []RangeAnswers
<1>1. Spec => []FileInv
  BY BPlusTreeStored
<1>2. FileInv => RangeAnswers
  BY RangeFinds
<1> QED
  BY <1>1, <1>2, PTL

-----------------------------------------------------------------------------
(* Levels, and the first key under a block                                 *)

\* f goes through all blocks of a level, from left to right.
RunsThrough(f, p) == \E n : Runs(f, n, Row(p, Int), LevelOrder(p))

\* The children of blocks, one after the other.
Below(t, blocks) == Joined([i \in DOMAIN blocks |-> childrenOf(readInternal(t, blocks[i]))])

\* The children of the blocks of a level are the blocks of the next, in order.
LEMMA NextLevel ==
  ASSUME NEW t, NEW S, NEW P, Tree(t, S, P, P), NEW l \in 0 .. t.depth - 1,
         NEW f, RunsThrough(f, P[l])
  PROVE  RunsThrough(Below(t, f), P[l + 1])
<1> DEFINE p == P[l]
           w == P[l + 1]
           R == LevelOrder(p)
           Q == LevelOrder(w)
           c(i) == childrenOf(readInternal(t, f[i]))
           z(i) == Len(readInternal(t, f[i]).separators) + 1
           seqs == [i \in DOMAIN f |-> c(i)]
<1>1. /\ t.depth \in Nat /\ Paths(P, t.depth, t.numOfNodes)
      /\ \A k \in Int : NodeHolds(t, S, p, w, k)
  BY TreeFacts
<1>2. l \in 0 .. t.depth /\ l + 1 \in 1 .. t.depth /\ l + 1 \in 0 .. t.depth /\ (l + 1) - 1 = l
  BY <1>1
<1>3. Convex(p) /\ Convex(w)
  BY <1>1, <1>2, OnLevels
<1>4. \A j, k \in Int : w[j] = w[k] => p[j] = p[k]
  <2>1. \A m \in 1 .. t.depth : \A j, k \in Int : P[m][j] = P[m][k] => P[m - 1][j] = P[m - 1][k]
    BY <1>1, Zenon DEF Paths
  <2> QED
    BY <1>2, <2>1
<1>5. PICK n : Runs(f, n, Row(p, Int), R)
  BY DEF RunsThrough
<1> HIDE DEF p, w, R, Q
<1>6. /\ n \in Nat /\ DOMAIN f = 1 .. n
      /\ \A i, j \in 1 .. n : i < j => <<f[i], f[j]>> \in R
  BY <1>5 DEF Runs
<1>7. \A i \in 1 .. n : \E k \in Int : p[k] = f[i]
  BY <1>5 DEF Runs, Row
<1>8. \A k \in Int : \E i \in 1 .. n : f[i] = p[k]
  BY <1>5 DEF Runs, Row
<1>9. \A i \in 1 .. n : Runs(c(i), z(i), Row(w, KeysOf(p, f[i])), Q)
  <2>1. SUFFICES ASSUME NEW i \in 1 .. n
                 PROVE  Runs(c(i), z(i), Row(w, KeysOf(p, f[i])), Q)
    OBVIOUS
  <2>2. \E k \in Int : p[k] = f[i]
    BY <1>7
  <2> QED
    BY <1>1, <1>3, <2>2, ChildrenRun DEF Q
<1> HIDE DEF c, z
<1>10. ASSUME NEW i \in 1 .. n
       PROVE  /\ z(i) \in Nat /\ DOMAIN c(i) = 1 .. z(i)
              /\ \A a \in DOMAIN c(i) : \E k \in Int : p[k] = f[i] /\ c(i)[a] = w[k]
              /\ \A a, b \in DOMAIN c(i) : a < b => <<c(i)[a], c(i)[b]>> \in Q
              /\ \A k \in Int : p[k] = f[i] => \E a \in DOMAIN c(i) : c(i)[a] = w[k]
  <2>1. Runs(c(i), z(i), Row(w, KeysOf(p, f[i])), Q)
    BY <1>9
  <2>2. z(i) \in Nat /\ DOMAIN c(i) = 1 .. z(i)
    BY <2>1 DEF Runs
  <2>3. \A a \in DOMAIN c(i) : c(i)[a] \in Row(w, KeysOf(p, f[i]))
    BY <2>1 DEF Runs
  <2>4. \A x \in Row(w, KeysOf(p, f[i])) : \E a \in DOMAIN c(i) : c(i)[a] = x
    BY <2>1 DEF Runs
  <2>5. \A a, b \in DOMAIN c(i) : a < b => <<c(i)[a], c(i)[b]>> \in Q
    BY <2>1, <2>2 DEF Runs
  <2> QED
    BY <2>2, <2>3, <2>4, <2>5 DEF Row, KeysOf
<1>11. DOMAIN seqs = 1 .. n /\ \A i \in 1 .. n : seqs[i] = c(i)
  BY <1>6
<1>12. Below(t, f) = Joined(seqs)
  BY DEF Below, c
<1> HIDE DEF seqs
<1>13. Sequences(seqs, n)
  BY <1>6, <1>10, <1>11 DEF Sequences
<1>14. \A j, k \in Int : <<p[j], p[k]>> \in R <=> j < k /\ p[j] # p[k]
  BY <1>3, RowOrder DEF R
<1>15. \A j, k \in Int : <<w[j], w[k]>> \in Q <=> j < k /\ w[j] # w[k]
  BY <1>3, RowOrder DEF Q
<1>16. InOrder(seqs, n, Q)
  <2>1. \A i \in 1 .. n : \A a, b \in DOMAIN seqs[i] : a < b => <<seqs[i][a], seqs[i][b]>> \in Q
    BY <1>10, <1>11
  <2>2. ASSUME NEW i \in 1 .. n, NEW j \in 1 .. n, i < j,
               NEW a \in DOMAIN seqs[i], NEW b \in DOMAIN seqs[j]
        PROVE  <<seqs[i][a], seqs[j][b]>> \in Q
    <3>1. a \in DOMAIN c(i) /\ b \in DOMAIN c(j)
      BY <1>11
    <3>2. PICK x \in Int : p[x] = f[i] /\ c(i)[a] = w[x]
      BY <1>10, <3>1
    <3>3. PICK y \in Int : p[y] = f[j] /\ c(j)[b] = w[y]
      BY <1>10, <3>1
    <3>4. x < y /\ p[x] # p[y]
      BY <1>6, <1>14, <2>2, <3>2, <3>3
    <3>5. w[x] # w[y]
      BY <1>4, <3>4
    <3>6. <<w[x], w[y]>> \in Q
      BY <1>15, <3>4, <3>5
    <3> QED
      BY <1>11, <3>2, <3>3, <3>6
  <2> QED
    BY <2>1, <2>2 DEF InOrder
<1>17. \A i \in 1 .. n : \A a \in DOMAIN seqs[i] : seqs[i][a] \in Row(w, Int)
  BY <1>10, <1>11 DEF Row
<1>18. ASSUME NEW x \in Row(w, Int)
       PROVE  \E i \in 1 .. n : \E a \in DOMAIN seqs[i] : seqs[i][a] = x
  <2>1. PICK k \in Int : x = w[k]
    BY DEF Row
  <2>2. PICK i \in 1 .. n : f[i] = p[k]
    BY <1>8
  <2>3. \E a \in DOMAIN c(i) : c(i)[a] = w[k]
    BY <1>10, <2>2
  <2> QED
    BY <1>11, <2>1, <2>3
<1>19. Runs(Joined(seqs), Cardinality(Places(seqs)), Row(w, Int), Q)
  BY <1>13, <1>16, <1>17, <1>18, JoinedThrough
<1> QED
  BY <1>12, <1>19 DEF RunsThrough, w, Q

\* What Levels computes, as the equation it satisfies.
Descends(t, h) ==
  h = [l \in 0 .. t.depth |->
        IF l = 0 THEN <<t.rootBID>>
        ELSE LET above == h[l - 1]
             IN  Joined([i \in DOMAIN above |-> childrenOf(readInternal(t, above[i]))])]

\* Where the equation has a solution, Levels is one.
LEMMA LevelsDescend ==
  ASSUME NEW t, NEW h, Descends(t, h)
  PROVE  Descends(t, Levels(t))
<1> DEFINE R(x) == [l \in 0 .. t.depth |->
                     IF l = 0 THEN <<t.rootBID>>
                     ELSE LET above == x[l - 1]
                          IN  Joined([i \in DOMAIN above |-> childrenOf(readInternal(t, above[i]))])]
           g == CHOOSE x : x = R(x)
<1>1. Levels(t) = g
  BY DEF Levels
<1>2. h = R(h)
  BY DEF Descends
<1>3. g = R(g)
  <2> HIDE DEF R
  <2> QED
    BY <1>2
<1> QED
  BY <1>1, <1>3 DEF Descends

\* Every level of Levels goes through all its blocks, from left to right.
LEMMA LevelsRun ==
  ASSUME NEW t, NEW S, NEW P, Tree(t, S, P, P)
  PROVE  \A l \in 0 .. t.depth : RunsThrough(Levels(t)[l], P[l])
<1> DEFINE d == t.depth
           E == [l \in 0 .. d |-> CHOOSE f : RunsThrough(f, P[l])]
           g == Levels(t)
           T == {l \in 0 .. d : ~ RunsThrough(g[l], P[l])}
<1>1. /\ d \in Nat /\ t.numOfNodes \in Nat /\ Paths(P, d, t.numOfNodes)
      /\ \A k \in Int : P[0][k] = t.rootBID
  BY TreeFacts
<1>2. /\ P \in [0 .. d -> [Int -> 1 .. t.numOfNodes]]
      /\ \A l \in 0 .. d : Convex(P[l])
  BY <1>1, OnLevels
<1> HIDE DEF d
<1>3. \A l \in 0 .. d : \E f : RunsThrough(f, P[l])
  <2>1. SUFFICES ASSUME NEW l \in 0 .. d PROVE \E f : RunsThrough(f, P[l])
    OBVIOUS
  <2>2. P[l] \in [Int -> 1 .. t.numOfNodes] /\ Convex(P[l])
    BY <1>2
  <2>3. Int \subseteq Int
    OBVIOUS
  <2>4. \E f, n : Runs(f, n, Row(P[l], Int), LevelOrder(P[l]))
    BY <1>1, <2>2, <2>3, RowRuns
  <2> QED
    BY <2>4 DEF RunsThrough
<1>4. \A l \in 0 .. d : RunsThrough(E[l], P[l])
  <2>1. SUFFICES ASSUME NEW l \in 0 .. d PROVE RunsThrough(E[l], P[l])
    OBVIOUS
  <2>2. E[l] = CHOOSE f : RunsThrough(f, P[l])
    OBVIOUS
  <2>3. \E f : RunsThrough(f, P[l])
    BY <1>3
  <2> HIDE DEF E
  <2> QED
    BY <2>2, <2>3
<1>5. E = [l \in 0 .. d |-> E[l]]
  OBVIOUS
<1> HIDE DEF E
<1>6. \A l \in 0 .. d : \A f, h : RunsThrough(f, P[l]) /\ RunsThrough(h, P[l]) => f = h
  <2>1. SUFFICES ASSUME NEW l \in 0 .. d, NEW f, NEW h, RunsThrough(f, P[l]), RunsThrough(h, P[l])
                 PROVE  f = h
    OBVIOUS
  <2>2. Orders(LevelOrder(P[l]), Row(P[l], Int))
    BY <1>2, RowOrder
  <2>3. PICK n : Runs(f, n, Row(P[l], Int), LevelOrder(P[l]))
    BY <2>1 DEF RunsThrough
  <2>4. PICK m : Runs(h, m, Row(P[l], Int), LevelOrder(P[l]))
    BY <2>1 DEF RunsThrough
  <2> QED
    BY <2>2, <2>3, <2>4, OneRun
<1>7. RunsThrough(<<t.rootBID>>, P[0])
  <2> DEFINE f == <<t.rootBID>>
  <2>1. Row(P[0], Int) = {t.rootBID}
    BY <1>1 DEF Row
  <2>2. Runs(f, 1, {t.rootBID}, LevelOrder(P[0]))
    BY DEF Runs
  <2> QED
    BY <2>1, <2>2 DEF RunsThrough
<1>8. \A l \in 0 .. d : \A f : l # 0 /\ RunsThrough(f, P[l - 1]) => RunsThrough(Below(t, f), P[l])
  <2>1. SUFFICES ASSUME NEW l \in 0 .. d, NEW f, l # 0, RunsThrough(f, P[l - 1])
                 PROVE  RunsThrough(Below(t, f), P[l])
    OBVIOUS
  <2>2. l - 1 \in 0 .. t.depth - 1 /\ (l - 1) + 1 = l
    BY <1>1, <2>1 DEF d
  <2>3. RunsThrough(Below(t, f), P[(l - 1) + 1])
    BY <2>1, <2>2, NextLevel
  <2> QED
    BY <2>2, <2>3
<1>9. ASSUME NEW l \in 0 .. d
      PROVE  E[l] = IF l = 0 THEN <<t.rootBID>> ELSE Below(t, E[l - 1])
  <2>1. CASE l = 0
    BY <1>4, <1>6, <1>7, <2>1
  <2>2. CASE l # 0
    <3>1. l - 1 \in 0 .. d
      BY <1>1, <2>2
    <3>2. RunsThrough(Below(t, E[l - 1]), P[l])
      BY <1>4, <1>8, <2>2, <3>1
    <3> QED
      BY <1>4, <1>6, <2>2, <3>2
  <2> QED
    BY <2>1, <2>2
<1>10. Descends(t, E)
  BY <1>5, <1>9 DEF Descends, Below, d
<1>11. Descends(t, g)
  BY <1>10, LevelsDescend
<1>12. \A l \in 0 .. d : g[l] = IF l = 0 THEN <<t.rootBID>> ELSE Below(t, g[l - 1])
  <2> HIDE DEF g
  <2>1. g = [l \in 0 .. d |-> IF l = 0 THEN <<t.rootBID>> ELSE Below(t, g[l - 1])]
    BY <1>11 DEF Descends, Below, d
  <2> QED
    BY <2>1
<1> HIDE DEF g
<1>13. T = {}
  <2>1. SUFFICES ASSUME T # {} PROVE FALSE
    OBVIOUS
  <2>2. T \subseteq Nat /\ T \subseteq 0 .. d
    BY <1>1
  <2>3. PICK l \in T : \A m \in T : l <= m
    <3> HIDE DEF T
    <3> QED
      BY <2>1, <2>2, LeastNumber, Zenon
  <2>4. l \in 0 .. d /\ ~ RunsThrough(g[l], P[l])
    OBVIOUS
  <2>5. l # 0
    BY <1>7, <1>12, <2>4
  <2>6. l - 1 \in 0 .. d /\ ~ (l <= l - 1)
    BY <1>1, <2>4, <2>5
  <2>7. RunsThrough(g[l - 1], P[l - 1])
    <3>1. l - 1 \notin T
      BY <2>3, <2>6, Zenon
    <3> QED
      BY <2>6, <3>1
  <2>8. RunsThrough(Below(t, g[l - 1]), P[l])
    BY <1>8, <2>4, <2>5, <2>7
  <2> QED
    BY <1>12, <2>4, <2>5, <2>8
<1>14. \A l \in 0 .. d : RunsThrough(g[l], P[l])
  BY <1>13
<1> QED
  BY <1>14 DEF d, g

\* No key before k leads to the block that k leads to.
Leftmost(p, k) == \A j \in Int : j < k => p[j] # p[k]

\* Below a block that a key is the first of, it is the first as well.
LEMMA StaysLeftmost ==
  ASSUME NEW P, NEW d \in Nat, NEW last, Paths(P, d, last), NEW k \in Int,
         NEW l \in 0 .. d, Leftmost(P[l], k)
  PROVE  \A i \in l .. d : Leftmost(P[i], k)
<1> DEFINE T == {i \in l .. d : ~ Leftmost(P[i], k)}
<1>1. \A i \in 1 .. d : \A j \in Int : P[i][j] = P[i][k] => P[i - 1][j] = P[i - 1][k]
  <2>1. \A i \in 1 .. d : \A a, b \in Int : P[i][a] = P[i][b] => P[i - 1][a] = P[i - 1][b]
    BY Zenon DEF Paths
  <2> QED
    BY <2>1
<1>2. T = {}
  <2>1. SUFFICES ASSUME T # {} PROVE FALSE
    OBVIOUS
  <2>2. T \subseteq Nat
    OBVIOUS
  <2>3. PICK i \in T : \A m \in T : i <= m
    <3> HIDE DEF T
    <3> QED
      BY <2>1, <2>2, LeastNumber, Zenon
  <2>4. i \in l .. d /\ ~ Leftmost(P[i], k) /\ i # l
    OBVIOUS
  <2>5. i - 1 \in l .. d /\ i \in 1 .. d /\ ~ (i <= i - 1)
    BY <2>4
  <2>6. Leftmost(P[i - 1], k)
    <3>1. i - 1 \notin T
      BY <2>3, <2>5, Zenon
    <3> QED
      BY <2>5, <3>1
  <2> QED
    BY <1>1, <2>4, <2>5, <2>6 DEF Leftmost
<1> QED
  BY <1>2

\* The way down by first children, as the equation FirstKeyUnder has for it.
FirstChildren(t, id, l, h) ==
  h = [i \in l .. t.depth |->
        IF i = l THEN id ELSE readInternal(t, h[i - 1]).firstChild]

\* FirstKeyUnder: what satisfies the recursion is the way down.
LEMMA FirstKeyIs ==
  ASSUME NEW t, t.depth \in Nat, NEW id, NEW l \in 0 .. t.depth, NEW h, FirstChildren(t, id, l, h)
  PROVE  FirstKeyUnder(t, id, l) = readLeaf(t, h[t.depth]).entries[1].key
<1> DEFINE d == t.depth
           R(x) == [i \in l .. t.depth |->
                     IF i = l THEN id ELSE readInternal(t, x[i - 1]).firstChild]
           g == CHOOSE x : x = R(x)
           Then(b) == readInternal(t, b).firstChild
           T == {i \in l .. d : g[i] # h[i]}
<1>1. FirstKeyUnder(t, id, l) = readLeaf(t, g[t.depth]).entries[1].key
  BY DEF FirstKeyUnder
<1>2. h = R(h)
  BY DEF FirstChildren
<1>3. g = R(g)
  <2> HIDE DEF R
  <2> QED
    BY <1>2
<1> HIDE DEF g
<1>4. \A i \in l .. d : g[i] = IF i = l THEN id ELSE Then(g[i - 1])
  <2>1. g = [i \in l .. d |-> IF i = l THEN id ELSE Then(g[i - 1])]
    BY <1>3
  <2> HIDE DEF Then, d
  <2> QED
    BY <2>1
<1>5. \A i \in l .. d : h[i] = IF i = l THEN id ELSE Then(h[i - 1])
  <2>1. h = [i \in l .. d |-> IF i = l THEN id ELSE Then(h[i - 1])]
    BY <1>2
  <2> HIDE DEF Then, d
  <2> QED
    BY <2>1
<1> HIDE DEF Then
<1>6. T = {}
  <2>1. SUFFICES ASSUME T # {} PROVE FALSE
    OBVIOUS
  <2>2. T \subseteq Nat
    OBVIOUS
  <2>3. PICK i \in T : \A m \in T : i <= m
    <3> HIDE DEF T
    <3> QED
      BY <2>1, <2>2, LeastNumber, Zenon
  <2>4. i \in l .. d /\ g[i] # h[i]
    OBVIOUS
  <2>5. i # l
    BY <1>4, <1>5, <2>4
  <2>6. i - 1 \in l .. d /\ ~ (i <= i - 1)
    BY <2>4, <2>5
  <2>7. g[i - 1] = h[i - 1]
    <3>1. i - 1 \notin T
      BY <2>3, <2>6, Zenon
    <3> QED
      BY <2>6, <3>1
  <2> QED
    BY <1>4, <1>5, <2>4, <2>5, <2>7
<1>7. g[d] = h[d]
  BY <1>6
<1> QED
  BY <1>1, <1>7

\* A key that is in the tree and the first of its block on a level is the first key
\* under that block.
LEMMA FirstKey ==
  ASSUME NEW t, NEW S, S \subseteq EntryType, NEW P, Tree(t, S, P, P), NEW l \in 0 .. t.depth,
         NEW k \in Int, \E e \in S : e.key = k, Leftmost(P[l], k)
  PROVE  FirstKeyUnder(t, P[l][k], l) = k
<1> DEFINE d == t.depth
           h == [i \in l .. d |-> P[i][k]]
<1>1. /\ d \in Nat /\ Paths(P, d, t.numOfNodes)
      /\ \A i \in 0 .. d - 1 : \A j \in Int : NodeHolds(t, S, P[i], P[i + 1], j)
  BY TreeFacts
<1>2. \A i \in l .. d : Leftmost(P[i], k)
  <2> HIDE DEF d
  <2>1. l \in 0 .. d
    BY DEF d
  <2> QED
    BY <1>1, <2>1, StaysLeftmost
<1>3. ASSUME NEW i \in l .. d
      PROVE  h[i] = IF i = l THEN P[l][k] ELSE readInternal(t, h[i - 1]).firstChild
  <2>1. CASE i = l
    BY <2>1
  <2>2. CASE i # l
    <3> DEFINE node == readInternal(t, P[i - 1][k])
    <3>1. i - 1 \in l .. d /\ i - 1 \in 0 .. d - 1 /\ (i - 1) + 1 = i
      BY <1>1, <2>2
    <3>2. NodeHolds(t, S, P[i - 1], P[i], k)
      BY <1>1, <3>1
    <3>3. /\ GoodNode(node, t.capacity) /\ Bounds(S, P[i - 1], k, node)
          /\ child(node, k) = P[i][k]
      BY <3>2 DEF NodeHolds
    <3> HIDE DEF node
    <3>4. Len(node.separators) \in Nat /\ node.separators \in Seq(EntryType)
          /\ \A a \in 1 .. Len(node.separators) : node.separators[a].key \in Int
      BY <3>3, SeparatorsOf DEF GoodNode
    <3>5. node.separators = <<>> \/ k < node.separators[1].key
      <4>1. SUFFICES ASSUME node.separators # <<>>
                     PROVE  k < node.separators[1].key
        OBVIOUS
      <4>2. 1 \in 1 .. Len(node.separators)
        BY <3>4, <4>1
      <4>3. \E j \in Int : j < node.separators[1].key /\ P[i - 1][j] = P[i - 1][k]
        BY <3>3, <4>2 DEF Bounds
      <4>4. PICK j \in Int : j < node.separators[1].key /\ P[i - 1][j] = P[i - 1][k]
        BY <4>3
      <4>5. ~ (j < k)
        BY <1>2, <3>1, <4>4 DEF Leftmost
      <4> QED
        BY <1>1, <3>4, <4>2, <4>4, <4>5
    <3>6. child(node, k) = node.firstChild
      BY <1>1, <3>3, <3>5, FirstChildReached
    <3>7. h[i] = P[i][k] /\ h[i - 1] = P[i - 1][k]
      BY <3>1
    <3> QED
      BY <2>2, <3>3, <3>6, <3>7 DEF node
  <2> QED
    BY <2>1, <2>2
<1>4. FirstChildren(t, P[l][k], l, h)
  <2>1. h = [i \in l .. d |-> h[i]]
    OBVIOUS
  <2> HIDE DEF h
  <2> QED
    BY <1>3, <2>1 DEF FirstChildren
<1>5. h[d] = P[d][k] /\ d \in l .. d
  BY <1>1
<1> DEFINE s == readLeaf(t, P[d][k]).entries
<1>6. FirstKeyUnder(t, P[l][k], l) = s[1].key
  <2> HIDE DEF h
  <2> QED
    BY <1>1, <1>4, <1>5, FirstKeyIs
<1>7. s \in Seq(EntryType) /\ Ascending(s) /\ ToSet(s) = Under(S, P[d], P[d][k])
  <2>1. P[d][k] \in Row(P[d], Int)
    BY <1>1 DEF Row
  <2>2. Lists(s, t.capacity, S, P[d], P[d][k])
    BY <2>1, LeafOnRow
  <2> QED
    BY <2>2 DEF Lists, Fits
<1> HIDE DEF s
<1>8. \E a \in 1 .. Len(s) : s[a].key = k
  <2>1. PICK e \in S : e.key = k
    OBVIOUS
  <2>2. e \in ToSet(s)
    BY <1>7, <2>1 DEF Under
  <2> QED
    BY <1>7, <2>1, <2>2, ToSetIs
<1>9. Len(s) \in Nat /\ 1 \in 1 .. Len(s)
  BY <1>7, <1>8
<1>10. s[1] \in S /\ P[d][s[1].key] = P[d][k] /\ s[1].key \in Int
  <2>1. s[1] \in ToSet(s)
    BY <1>7, <1>9, ToSetIs
  <2> QED
    BY <1>7, <2>1 DEF Under, EntryType
<1>11. ~ (s[1].key < k)
  BY <1>2, <1>5, <1>10 DEF Leftmost
<1>12. ~ (k < s[1].key)
  <2>1. PICK a \in 1 .. Len(s) : s[a].key = k
    BY <1>8
  <2>2. a = 1 \/ s[1].key < s[a].key
    BY <1>7, <1>9, <2>1 DEF Ascending
  <2> QED
    BY <1>10, <2>1, <2>2
<1> QED
  BY <1>1, <1>6, <1>10, <1>11, <1>12

\* Every key of the tree is the first key under the blocks that it is the first of.
FirstKeysUnder(t, S, P) ==
  \A l \in 0 .. t.depth : \A k \in Int :
    (\E e \in S : e.key = k) /\ Leftmost(P[l], k) => FirstKeyUnder(t, P[l][k], l) = k

\* FirstKey for every level and every key.
LEMMA FirstKeys ==
  ASSUME NEW t, NEW S, S \subseteq EntryType, NEW P, Tree(t, S, P, P)
  PROVE  FirstKeysUnder(t, S, P)
<1>1. SUFFICES ASSUME NEW l \in 0 .. t.depth, NEW k \in Int, \E e \in S : e.key = k,
                      Leftmost(P[l], k)
               PROVE  FirstKeyUnder(t, P[l][k], l) = k
  BY DEF FirstKeysUnder
<1> QED
  BY <1>1, FirstKey

\* A separator is the first key under the child to its right.
LEMMA SeparatorFirst ==
  ASSUME NEW t, NEW S, S \subseteq EntryType, NEW P, Tree(t, S, P, P),
         NEW l \in 0 .. t.depth - 1, NEW id \in Row(P[l], Int),
         NEW s \in ToSet(readInternal(t, id).separators)
  PROVE  s.key = FirstKeyUnder(t, s.value, l + 1)
<1> DEFINE node == readInternal(t, id)
<1>1. /\ t.depth \in Nat /\ Paths(P, t.depth, t.numOfNodes)
      /\ \A j \in Int : NodeHolds(t, S, P[l], P[l + 1], j)
  BY TreeFacts
<1>2. l + 1 \in 1 .. t.depth /\ l + 1 \in 0 .. t.depth /\ (l + 1) - 1 = l
  BY <1>1
<1>3. PICK k \in Int : P[l][k] = id
  BY DEF Row
<1>4. GoodNode(node, t.capacity) /\ Bounds(S, P[l], k, node)
  BY <1>1, <1>3 DEF NodeHolds
<1>5. \A j \in Int : P[l][j] = id => child(node, j) = P[l + 1][j]
  BY <1>1 DEF NodeHolds
<1>6. s \in ToSet(node.separators)
  OBVIOUS
<1> HIDE DEF node
<1>7. /\ node \in NodeType /\ Ascending(node.separators) /\ node.separators \in Seq(EntryType)
      /\ Len(node.separators) \in Nat
      /\ \A i \in 1 .. Len(node.separators) : node.separators[i].key \in Int
      /\ \A i, j \in 0 .. Len(node.separators) : Kid(node, i) = Kid(node, j) => i = j
  BY <1>4, SeparatorsOf DEF GoodNode
<1>8. PICK a \in 1 .. Len(node.separators) : node.separators[a] = s
  BY <1>6, <1>7, ToSetIs
<1>9. P[l][s.key] = id /\ \E e \in S : e.key = s.key
  BY <1>3, <1>4, <1>8 DEF Bounds
<1>10. s.key \in Int
  BY <1>7, <1>8
<1>11. P[l + 1][s.key] = s.value
  <2>1. child(node, s.key) = Kid(node, a)
    BY <1>4, <1>8, KidReached
  <2>2. Kid(node, a) = s.value
    BY <1>7, <1>8 DEF Kid
  <2> QED
    BY <1>5, <1>9, <1>10, <2>1, <2>2
<1>12. ASSUME NEW j \in Int, j < s.key
       PROVE  P[l + 1][j] # P[l + 1][s.key]
  <2>1. SUFFICES ASSUME P[l + 1][j] = P[l + 1][s.key] PROVE FALSE
    OBVIOUS
  <2>2. P[l][j] = P[l][s.key]
    <3>1. \A m \in 1 .. t.depth : \A x, y \in Int :
            P[m][x] = P[m][y] => P[m - 1][x] = P[m - 1][y]
      BY <1>1, Zenon DEF Paths
    <3>2. P[(l + 1) - 1][j] = P[(l + 1) - 1][s.key]
      BY <1>2, <1>10, <2>1, <3>1
    <3> QED
      BY <1>2, <3>2
  <2>3. \E m : At(node.separators, j, m)
    BY <1>7, Position
  <2>4. PICK m : At(node.separators, j, m)
    BY <2>3
  <2>5. child(node, j) = Kid(node, m) /\ m \in 0 .. Len(node.separators)
    BY <1>7, <2>4, ChildAt DEF At
  <2>6. child(node, s.key) = Kid(node, a)
    BY <1>4, <1>8, KidReached
  <2>7. Kid(node, m) = Kid(node, a)
    BY <1>5, <1>9, <1>10, <2>1, <2>2, <2>5, <2>6
  <2>8. m = a
    <3>1. a \in 0 .. Len(node.separators)
      BY <1>7
    <3> QED
      BY <1>7, <2>5, <2>7, <3>1
  <2>9. a \in 1 .. m
    BY <1>7, <2>8
  <2>10. node.separators[a].key <= j
    BY <2>4, <2>9 DEF At
  <2> QED
    BY <1>8, <1>10, <1>12, <2>10
<1>13. Leftmost(P[l + 1], s.key)
  BY <1>12 DEF Leftmost
<1>14. FirstKeyUnder(t, P[l + 1][s.key], l + 1) = s.key
  <2>1. FirstKeysUnder(t, S, P)
    BY FirstKeys
  <2> QED
    BY <1>2, <1>9, <1>10, <1>13, <2>1 DEF FirstKeysUnder
<1> QED
  BY <1>11, <1>14

\* The leaves are chained in their order.
LEMMA LeavesChained ==
  ASSUME NEW t, NEW S, NEW P, Tree(t, S, P, P), NEW f, RunsThrough(f, P[t.depth])
  PROVE  leavesFrom(t, f[1]) = f
<1> DEFINE p == P[t.depth]
           R == LevelOrder(p)
<1>1. t.depth \in Nat /\ Paths(P, t.depth, t.numOfNodes) /\ t.depth \in 0 .. t.depth
  BY TreeFacts
<1>2. Convex(p)
  <2>1. \A l \in 0 .. t.depth : Convex(P[l])
    BY <1>1, OnLevels
  <2> QED
    BY <1>1, <2>1
<1>3. PICK n : Runs(f, n, Row(p, Int), R)
  BY DEF RunsThrough
<1>4. \A j, k \in Int : <<p[j], p[k]>> \in R <=> j < k /\ p[j] # p[k]
  BY <1>2, RowOrder
<1> HIDE DEF p, R
<1>5. /\ n \in Nat /\ \A i, j \in 1 .. n : i < j => <<f[i], f[j]>> \in R
      /\ \A i \in 1 .. n : f[i] \in Row(p, Int)
      /\ \A x \in Row(p, Int) : \E i \in 1 .. n : f[i] = x
  BY <1>3 DEF Runs
<1>6. \A k \in Int : \E i \in 1 .. n : f[i] = p[k]
  BY <1>5 DEF Row
<1>7. 1 \in 1 .. n
  <2>1. \E i \in 1 .. n : f[i] = p[0]
    BY <1>6
  <2> QED
    BY <1>5, <2>1
<1>8. PICK first \in Int : f[1] = p[first]
  BY <1>5, <1>7 DEF Row
<1> DEFINE K == {k \in Int : first <= k}
<1>9. ASSUME NEW k \in Int
      PROVE  p[k] \in Row(p, K)
  <2>1. PICK i \in 1 .. n : f[i] = p[k]
    BY <1>6
  <2>2. CASE i = 1
    <3>1. p[k] = p[first] /\ first \in K
      BY <1>8, <2>1, <2>2
    <3> QED
      BY <3>1 DEF Row
  <2>3. CASE i # 1
    <3>1. 1 < i
      BY <1>5, <2>3
    <3>2. <<p[first], p[k]>> \in R
      BY <1>5, <1>7, <1>8, <2>1, <3>1
    <3>3. k \in K
      BY <1>4, <3>2
    <3> QED
      BY <3>3 DEF Row
  <2> QED
    BY <2>2, <2>3
<1>10. Row(p, Int) = Row(p, K)
  BY <1>9 DEF Row
<1>11. Runs(f, n, Row(p, K), R)
  BY <1>3, <1>10
<1>12. leavesFrom(t, p[first]) = f
  BY <1>11, LeavesRun DEF p, R
<1> QED
  BY <1>8, <1>12

\* The leaves hold all entries, in key order.
LEMMA LeavesHold ==
  ASSUME NEW t, NEW S, S \subseteq EntryType, NEW P, Tree(t, S, P, P),
         NEW f, RunsThrough(f, P[t.depth])
  PROVE  /\ entriesOf(t, f) = SortedByKey(S)
         /\ \A i \in DOMAIN f : readLeaf(t, f[i]).entries # <<>>
<1> DEFINE p == P[t.depth]
           r == entriesOf(t, f)
<1>1. PICK n : Runs(f, n, Row(p, Int), LevelOrder(p))
  BY DEF RunsThrough
<1>2. /\ r \in Seq(EntryType) /\ Ascending(r)
      /\ ToSet(r) = Beneath(S, p, Int)
  BY <1>1, RowEntries
<1>3. Beneath(S, p, Int) = S
  BY DEF Beneath, Row, EntryType
<1>4. SortedByKey(S) = r
  <2> HIDE DEF r
  <2> QED
    BY <1>2, <1>3, SortedIs
<1>5. ASSUME NEW i \in DOMAIN f
      PROVE  readLeaf(t, f[i]).entries # <<>>
  <2>1. f[i] \in Row(p, Int)
    BY <1>1 DEF Runs
  <2>2. Lists(readLeaf(t, f[i]).entries, t.capacity, S, p, f[i])
    BY <2>1, LeafOnRow
  <2> QED
    BY <2>2 DEF Lists
<1> QED
  BY <1>4, <1>5

\* The blocks by their levels, and on a level from left to right.
BlockOrder(P, d) ==
  {x \in Int \X Int :
     \E l, m \in 0 .. d : /\ x[1] \in Row(P[l], Int) /\ x[2] \in Row(P[m], Int)
                          /\ l < m \/ (l = m /\ x \in LevelOrder(P[l]))}

\* Every block is on one level, so that is an order of all blocks.
LEMMA BlocksOrdered ==
  ASSUME NEW P, NEW d \in Nat, NEW last \in Nat, Paths(P, d, last)
  PROVE  /\ Orders(BlockOrder(P, d), 1 .. last)
         /\ \A l, m \in 0 .. d : \A j, k \in Int :
              <<P[l][j], P[m][k]>> \in BlockOrder(P, d)
                <=> l < m \/ (l = m /\ <<P[l][j], P[l][k]>> \in LevelOrder(P[l]))
<1> DEFINE R == BlockOrder(P, d)
<1>1. /\ P \in [0 .. d -> [Int -> 1 .. last]] /\ Apart(P, d)
      /\ \A l \in 0 .. d : Convex(P[l])
  BY OnLevels
<1>2. \A id \in 1 .. last : \E l \in 0 .. d : \E k \in Int : P[l][k] = id
  BY Zenon DEF Paths
<1>3. \A l, m \in 0 .. d : \A j, k \in Int : P[l][j] = P[m][k] => l = m
  BY Zenon DEF Paths
<1>4. ASSUME NEW l \in 0 .. d, NEW m \in 0 .. d, NEW j \in Int, NEW k \in Int
      PROVE  <<P[l][j], P[m][k]>> \in R
               <=> l < m \/ (l = m /\ <<P[l][j], P[l][k]>> \in LevelOrder(P[l]))
  <2>1. P[l][j] \in Int /\ P[m][k] \in Int
    <3>1. P[l] \in [Int -> 1 .. last] /\ P[m] \in [Int -> 1 .. last]
      BY <1>1
    <3> QED
      BY <3>1
  <2>2. \A a \in 0 .. d : (P[l][j] \in Row(P[a], Int) <=> a = l)
                          /\ (P[m][k] \in Row(P[a], Int) <=> a = m)
    <3>1. ASSUME NEW a \in 0 .. d, NEW b \in 0 .. d, NEW i \in Int
          PROVE  P[b][i] \in Row(P[a], Int) <=> a = b
      BY <1>3 DEF Row
    <3> QED
      BY <3>1
  <2>3. <<P[l][j], P[m][k]>> \in R
          <=> \E a, b \in 0 .. d :
                /\ P[l][j] \in Row(P[a], Int) /\ P[m][k] \in Row(P[b], Int)
                /\ a < b \/ (a = b /\ <<P[l][j], P[m][k]>> \in LevelOrder(P[a]))
    BY <2>1 DEF BlockOrder
  <2> QED
    BY <2>2, <2>3
<1> HIDE DEF R
<1>5. \A l \in 0 .. d : \A j, k \in Int :
        <<P[l][j], P[l][k]>> \in LevelOrder(P[l]) <=> j < k /\ P[l][j] # P[l][k]
  BY <1>1, RowOrder
<1>6. \A l, m \in 0 .. d : \A j, k \in Int :
        <<P[l][j], P[m][k]>> \in R <=> l < m \/ (l = m /\ j < k /\ P[l][j] # P[l][k])
  <2>1. SUFFICES ASSUME NEW l \in 0 .. d, NEW m \in 0 .. d, NEW j \in Int, NEW k \in Int
                 PROVE  <<P[l][j], P[m][k]>> \in R
                          <=> l < m \/ (l = m /\ j < k /\ P[l][j] # P[l][k])
    OBVIOUS
  <2>2. <<P[l][j], P[m][k]>> \in R
          <=> l < m \/ (l = m /\ <<P[l][j], P[l][k]>> \in LevelOrder(P[l]))
    BY <1>4
  <2>3. <<P[l][j], P[l][k]>> \in LevelOrder(P[l]) <=> j < k /\ P[l][j] # P[l][k]
    BY <1>5
  <2> QED
    BY <2>2, <2>3
<1>7. ASSUME NEW x \in 1 .. last, NEW y \in 1 .. last
      PROVE  /\ x # y => <<x, y>> \in R \/ <<y, x>> \in R
             /\ ~ (<<x, y>> \in R /\ <<y, x>> \in R)
  <2>1. PICK l \in 0 .. d, j \in Int : P[l][j] = x
    BY <1>2
  <2>2. PICK m \in 0 .. d, k \in Int : P[m][k] = y
    BY <1>2
  <2>3. <<x, y>> \in R <=> l < m \/ (l = m /\ j < k /\ x # y)
    BY <1>6, <2>1, <2>2
  <2>4. <<y, x>> \in R <=> m < l \/ (l = m /\ k < j /\ x # y)
    BY <1>6, <2>1, <2>2
  <2>5. l = m /\ j = k => x = y
    BY <2>1, <2>2
  <2> QED
    BY <2>3, <2>4, <2>5
<1>8. ASSUME NEW x \in 1 .. last, NEW y \in 1 .. last, NEW z \in 1 .. last,
             <<x, y>> \in R, <<y, z>> \in R
      PROVE  <<x, z>> \in R
  <2>1. PICK l \in 0 .. d, i \in Int : P[l][i] = x
    BY <1>2
  <2>2. PICK m \in 0 .. d, j \in Int : P[m][j] = y
    BY <1>2
  <2>3. PICK n \in 0 .. d, k \in Int : P[n][k] = z
    BY <1>2
  <2>4. l < m \/ (l = m /\ i < j /\ x # y)
    BY <1>6, <1>8, <2>1, <2>2
  <2>5. m < n \/ (m = n /\ j < k /\ y # z)
    BY <1>6, <1>8, <2>2, <2>3
  <2>6. l = n => i < k /\ x # z
    <3>1. SUFFICES ASSUME l = n PROVE i < k /\ x # z
      OBVIOUS
    <3>2. l = m /\ i < j /\ j < k /\ x # y
      BY <2>4, <2>5, <3>1
    <3>3. x = z => x = y
      <4>1. \A a, b, c \in Int : a <= b /\ b <= c /\ P[l][a] = P[l][c] => P[l][b] = P[l][a]
        BY <1>1 DEF Convex
      <4> QED
        BY <2>1, <2>2, <2>3, <3>1, <3>2, <4>1
    <3> QED
      BY <3>2, <3>3
  <2>7. l < n \/ l = n
    BY <2>4, <2>5
  <2> QED
    BY <1>6, <2>1, <2>3, <2>6, <2>7
<1>9. Orders(R, 1 .. last)
  BY <1>7, <1>8 DEF Orders
<1> QED
  BY <1>4, <1>9 DEF R

\* The levels from the root down have every block once.
LEMMA AllBlocks ==
  ASSUME NEW P, NEW d \in Nat, NEW last \in Nat, Paths(P, d, last),
         NEW levels, DOMAIN levels = 1 .. d + 1,
         \A l \in 1 .. d + 1 : RunsThrough(levels[l], P[l - 1])
  PROVE  Len(Joined(levels)) = last /\ ToSet(Joined(levels)) = 1 .. last
<1> DEFINE R == BlockOrder(P, d)
           r == Joined(levels)
           n == Cardinality(Places(levels))
<1>1. /\ P \in [0 .. d -> [Int -> 1 .. last]]
      /\ \A l \in 0 .. d : Convex(P[l])
  BY OnLevels
<1>2. \A id \in 1 .. last : \E l \in 0 .. d : \E k \in Int : P[l][k] = id
  BY Zenon DEF Paths
<1>3. /\ Orders(R, 1 .. last)
      /\ \A l, m \in 0 .. d : \A j, k \in Int :
           <<P[l][j], P[m][k]>> \in R
             <=> l < m \/ (l = m /\ <<P[l][j], P[l][k]>> \in LevelOrder(P[l]))
  BY BlocksOrdered
<1> HIDE DEF R
<1>4. ASSUME NEW l \in 1 .. d + 1
      PROVE  /\ l - 1 \in 0 .. d
             /\ \E m \in Nat : DOMAIN levels[l] = 1 .. m
             /\ \A a \in DOMAIN levels[l] : \E k \in Int : levels[l][a] = P[l - 1][k]
             /\ \A a, b \in DOMAIN levels[l] :
                  a < b => <<levels[l][a], levels[l][b]>> \in LevelOrder(P[l - 1])
             /\ \A k \in Int : \E a \in DOMAIN levels[l] : levels[l][a] = P[l - 1][k]
  <2> DEFINE s == levels[l]
             p == P[l - 1]
  <2>1. PICK m : Runs(s, m, Row(p, Int), LevelOrder(p))
    BY DEF RunsThrough
  <2> HIDE DEF s, p
  <2>2. m \in Nat /\ DOMAIN s = 1 .. m
    BY <2>1 DEF Runs
  <2>3. \A a \in DOMAIN s : \E k \in Int : s[a] = p[k]
    BY <2>1 DEF Runs, Row
  <2>4. \A a, b \in DOMAIN s : a < b => <<s[a], s[b]>> \in LevelOrder(p)
    BY <2>1, <2>2 DEF Runs
  <2>5. \A k \in Int : \E a \in DOMAIN s : s[a] = p[k]
    BY <2>1, <2>2 DEF Runs, Row
  <2>6. l - 1 \in 0 .. d
    OBVIOUS
  <2> QED
    BY <2>2, <2>3, <2>4, <2>5, <2>6, Zenon DEF s, p
<1>5. d + 1 \in Nat /\ Sequences(levels, d + 1)
  <2>1. \A l \in 1 .. d + 1 : \E m \in Nat : DOMAIN levels[l] = 1 .. m
    BY <1>4
  <2>2. d + 1 \in Nat
    OBVIOUS
  <2> QED
    BY <2>1, <2>2 DEF Sequences
<1>6. InOrder(levels, d + 1, R)
  <2>1. ASSUME NEW l \in 1 .. d + 1, NEW a \in DOMAIN levels[l], NEW b \in DOMAIN levels[l], a < b
        PROVE  <<levels[l][a], levels[l][b]>> \in R
    <3>1. PICK j \in Int : levels[l][a] = P[l - 1][j]
      BY <1>4
    <3>2. PICK k \in Int : levels[l][b] = P[l - 1][k]
      BY <1>4
    <3>3. <<P[l - 1][j], P[l - 1][k]>> \in LevelOrder(P[l - 1])
      BY <1>4, <2>1, <3>1, <3>2
    <3>4. l - 1 \in 0 .. d
      BY <1>4
    <3> QED
      BY <1>3, <3>1, <3>2, <3>3, <3>4
  <2>2. ASSUME NEW l \in 1 .. d + 1, NEW m \in 1 .. d + 1, l < m,
               NEW a \in DOMAIN levels[l], NEW b \in DOMAIN levels[m]
        PROVE  <<levels[l][a], levels[m][b]>> \in R
    <3>1. PICK j \in Int : levels[l][a] = P[l - 1][j]
      BY <1>4
    <3>2. PICK k \in Int : levels[m][b] = P[m - 1][k]
      BY <1>4
    <3>3. l - 1 \in 0 .. d /\ m - 1 \in 0 .. d /\ l - 1 < m - 1
      BY <1>4, <2>2
    <3> QED
      BY <1>3, <3>1, <3>2, <3>3
  <2> QED
    BY <2>1, <2>2 DEF InOrder
<1>7. \A l \in 1 .. d + 1 : \A a \in DOMAIN levels[l] : levels[l][a] \in 1 .. last
  <2>1. \A l \in 0 .. d : \A k \in Int : P[l][k] \in 1 .. last
    BY <1>1
  <2>2. SUFFICES ASSUME NEW l \in 1 .. d + 1, NEW a \in DOMAIN levels[l]
                 PROVE  levels[l][a] \in 1 .. last
    OBVIOUS
  <2>3. PICK k \in Int : levels[l][a] = P[l - 1][k]
    BY <1>4
  <2>4. l - 1 \in 0 .. d
    BY <1>4
  <2> QED
    BY <2>1, <2>3, <2>4
<1>8. ASSUME NEW x \in 1 .. last
      PROVE  \E l \in 1 .. d + 1 : \E a \in DOMAIN levels[l] : levels[l][a] = x
  <2>1. PICK l \in 0 .. d, k \in Int : P[l][k] = x
    BY <1>2
  <2>2. l + 1 \in 1 .. d + 1 /\ (l + 1) - 1 = l
    OBVIOUS
  <2>3. \E a \in DOMAIN levels[l + 1] : levels[l + 1][a] = P[(l + 1) - 1][k]
    BY <1>4, <2>2
  <2> QED
    BY <2>1, <2>2, <2>3
<1>9. Runs(r, n, 1 .. last, R)
  BY <1>5, <1>6, <1>7, <1>8, JoinedThrough
<1> HIDE DEF r, n
<1>10. n = last
  <2>1. Cardinality(1 .. last) = n
    BY <1>3, <1>9, RunRanks
  <2> QED
    BY <2>1, FirstNumbers
<1>11. /\ r \in [1 .. last -> 1 .. last]
       /\ \A x \in 1 .. last : \E i \in 1 .. last : r[i] = x
  BY <1>9, <1>10 DEF Runs
<1>12. r \in Seq(1 .. last) /\ Len(r) = last
  <2>1. r \in [1 .. last -> 1 .. last]
    BY <1>11
  <2> QED
    BY <2>1
<1>13. ToSet(r) = 1 .. last
  BY <1>11 DEF ToSet
<1> QED
  BY <1>12, <1>13 DEF r

\* What WellFormed says of a tree, clause by clause.
AllOnLevels(t, levels) ==
  LET onLevels == Joined([l \in 1 .. t.depth + 1 |-> levels[l - 1]])
  IN  Len(onLevels) = Len(t.blocks) /\ ToSet(onLevels) = DOMAIN t.blocks
LeavesList(t, leaves, S) ==
  /\ leavesFrom(t, leaves[1]) = leaves
  /\ entriesOf(t, leaves) = SortedByKey(S)
  /\ \A i \in DOMAIN leaves : readLeaf(t, leaves[i]).entries # <<>>
SeparatorsFirst(t, levels) ==
  \A l \in 0 .. t.depth - 1 : \A i \in DOMAIN levels[l] :
    \A s \in ToSet(readInternal(t, levels[l][i]).separators) :
      s.key = FirstKeyUnder(t, s.value, l + 1)

\* A tree with its levels is well formed.
LEMMA TreeFormed ==
  ASSUME NEW t, NEW S, S \subseteq EntryType, NEW P, Tree(t, S, P, P)
  PROVE  /\ AllOnLevels(t, Levels(t)) /\ LeavesList(t, Levels(t)[t.depth], S)
         /\ SeparatorsFirst(t, Levels(t))
<1> DEFINE levels == Levels(t)
<1>1. /\ t.depth \in Nat /\ t.numOfNodes \in Nat /\ Sound(t)
      /\ Paths(P, t.depth, t.numOfNodes) /\ t.depth \in 0 .. t.depth
  BY TreeFacts
<1>2. Len(t.blocks) = t.numOfNodes /\ DOMAIN t.blocks = 1 .. t.numOfNodes
  <2>1. t.blocks \in Seq(Seq(Int)) /\ Len(t.blocks) = t.numOfNodes
    BY <1>1 DEF Sound, TreeType
  <2> QED
    BY <2>1
<1>3. \A l \in 0 .. t.depth : RunsThrough(levels[l], P[l])
  BY LevelsRun
<1> HIDE DEF levels
<1>4. AllOnLevels(t, levels)
  <2> DEFINE seqs == [l \in 1 .. t.depth + 1 |-> levels[l - 1]]
  <2>1. DOMAIN seqs = 1 .. t.depth + 1
    OBVIOUS
  <2>2. \A l \in 1 .. t.depth + 1 : RunsThrough(seqs[l], P[l - 1])
    <3>1. \A l \in 1 .. t.depth + 1 : l - 1 \in 0 .. t.depth /\ seqs[l] = levels[l - 1]
      BY <1>1
    <3> HIDE DEF seqs
    <3> QED
      BY <1>3, <3>1
  <2> HIDE DEF seqs
  <2>3. Len(Joined(seqs)) = t.numOfNodes /\ ToSet(Joined(seqs)) = 1 .. t.numOfNodes
    BY <1>1, <2>1, <2>2, AllBlocks
  <2> QED
    BY <1>2, <2>3 DEF AllOnLevels, seqs
<1>5. LeavesList(t, levels[t.depth], S)
  <2>1. RunsThrough(levels[t.depth], P[t.depth])
    BY <1>1, <1>3
  <2>2. leavesFrom(t, levels[t.depth][1]) = levels[t.depth]
    BY <2>1, LeavesChained
  <2> QED
    BY <2>1, <2>2, LeavesHold DEF LeavesList
<1>6. SeparatorsFirst(t, levels)
  <2>1. SUFFICES ASSUME NEW l \in 0 .. t.depth - 1, NEW i \in DOMAIN levels[l],
                        NEW s \in ToSet(readInternal(t, levels[l][i]).separators)
                 PROVE  s.key = FirstKeyUnder(t, s.value, l + 1)
    BY DEF SeparatorsFirst
  <2>2. RunsThrough(levels[l], P[l])
    BY <1>1, <1>3
  <2>3. levels[l][i] \in Row(P[l], Int)
    BY <2>2 DEF RunsThrough, Runs
  <2> QED
    BY <2>1, <2>3, SeparatorFirst
<1> QED
  BY <1>4, <1>5, <1>6 DEF levels

\* The invariant makes the file a well-formed tree.
LEMMA FileFormed ==
  ASSUME Aligned, FileInv
  PROVE  WellFormed
<1>1. SUFFICES ASSUME Readable, Seen.numOfNodes > 0
               PROVE  /\ AllOnLevels(Seen, Levels(Seen))
                      /\ LeavesList(Seen, Levels(Seen)[Seen.depth], inserted)
                      /\ SeparatorsFirst(Seen, Levels(Seen))
  BY Zenon DEF WellFormed, AllOnLevels, LeavesList, SeparatorsFirst
<1>2. Seen = Stored /\ AtRest(Stored, inserted) /\ inserted \subseteq EntryType
  BY <1>1, Counted, EntriesTyped DEF Readable, FileInv
<1>3. \E P : Tree(Stored, inserted, P, P)
  <2>1. Stored.numOfNodes # 0
    BY <1>1, <1>2
  <2> QED
    BY <1>2, <2>1 DEF AtRest, Held
<1> QED
  BY <1>2, <1>3, TreeFormed

\* In every state of every run of the commands the file is a well-formed B+ tree of the
\* inserted entries, whatever the block sizes (aligned ones), the entries and the order
\* they came in.
THEOREM BPlusTreeWellFormed == ASSUME Aligned PROVE Spec => []WellFormed
<1>1. Spec => []FileInv
  BY BPlusTreeStored
<1>2. FileInv => WellFormed
  BY FileFormed
<1> QED
  BY <1>1, <1>2, PTL
=============================================================================
