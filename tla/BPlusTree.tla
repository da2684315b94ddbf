------------------------------ MODULE BPlusTree ------------------------------
(***************************************************************************)
(* The B+ tree index file (BPlusTree.cpp) and the commands that work on it *)
(* (b+tree.cpp).  A file has a header and blocks of integers; a command    *)
(* opens it, and what it knows of the tree it reads from there.  Commands  *)
(* run one after another: "c" creates a file, "i" inserts entries one by   *)
(* one, "s", "r" and "p" search, scan and print.                           *)
(***************************************************************************)
EXTENDS Integers, Sequences, FiniteSets, SequencesExt

CONSTANTS
  BlockSizes,   \* the block sizes a file may be created with
  Entries       \* the entries the inputs may hold, one for a key

ASSUME BlockSizesAssumption == BlockSizes \subseteq Nat \ {0}
ASSUME EntriesAssumption ==
  /\ Entries \subseteq [key : Int \ {0}, value : Int]
  /\ \A d, e \in Entries : d.key = e.key => d = e

VARIABLES
  file,       \* the index file
  tree,       \* the BPlusTree of the insert command that runs
  inserted    \* history: the entries inserted since the file was created

vars == <<file, tree, inserted>>

UNIT        == 4
HEADER_SIZE == 3 * UNIT

Entry(k, v) == [key |-> k, value |-> v]
NO_SPLIT    == Entry(-1, -1)

\* A file that does not exist is one that cannot be opened; a command that has
\* opened no file has the initial values of BPlusTree's members.
NoFile == [blockSize |-> 0, rootBID |-> 0, depth |-> 0, blocks |-> <<>>]
Closed == [capacity |-> 0, rootBID |-> 0, depth |-> 0, numOfNodes |-> 0,
           blocks |-> <<>>, promoted |-> NO_SPLIT]

Init == file = NoFile /\ tree = Closed /\ inserted = {}

-----------------------------------------------------------------------------
(* Blocks.  t is a tree: the members of BPlusTree, the blocks of its file  *)
(* and the entry a split promotes to the level above.                      *)

Slots(words, n) == [i \in 1 .. n |-> Entry(words[2 * i - 1], words[2 * i])]

Words(entries, n) ==
  [w \in 1 .. 2 * n |->
    LET i == (w + 1) \div 2
    IN  IF i > Len(entries) THEN 0
        ELSE IF w % 2 = 1 THEN entries[i].key ELSE entries[i].value]

\* The values of s at some of its places, in their order.
Picked(s, at) ==
  [n \in 1 .. Cardinality(at) |-> s[CHOOSE i \in at : Cardinality({j \in at : j < i}) = n - 1]]

\* Sequences one after the other.
Joined(seqs) ==
  LET at == UNION {{i} \X DOMAIN seqs[i] : i \in DOMAIN seqs}
      below(p) == {q \in at : q[1] < p[1] \/ (q[1] = p[1] /\ q[2] < p[2])}
      rank == [p \in at |-> Cardinality(below(p))]
  IN  [n \in 1 .. Cardinality(at) |->
        LET p == CHOOSE q \in at : rank[q] = n - 1 IN seqs[p[1]][p[2]]]

\* The slots in use.
used(slots) == Picked(slots, {i \in DOMAIN slots : slots[i].key # 0})

readLeaf(t, id) ==
  LET words == t.blocks[id]
  IN  [entries |-> used(Slots(words, t.capacity)),
       next    |-> words[2 * t.capacity + 1]]

readInternal(t, id) ==
  LET slots == Slots(Tail(t.blocks[id]), t.capacity)
      empty == SelectInSeq(slots, LAMBDA e : e.key = 0)
  IN  [firstChild |-> t.blocks[id][1],
       separators |-> IF empty = 0 THEN slots ELSE SubSeq(slots, 1, empty - 1)]

writeBlock(t, id, words) ==
  [t EXCEPT !.blocks = IF id > Len(@) THEN Append(@, words) ELSE [@ EXCEPT ![id] = words]]

writeLeaf(t, id, entries, next) == writeBlock(t, id, Words(entries, t.capacity) \o <<next>>)

writeInternal(t, id, firstChild, separators) ==
  writeBlock(t, id, <<firstChild>> \o Words(separators, t.capacity))

\* The size of the file: every block but the last is followed by another, and
\* of the last one only the words are there.
fileSize(f) ==
  HEADER_SIZE +
    IF f.blocks = <<>> THEN 0
    ELSE (Len(f.blocks) - 1) * f.blockSize + UNIT * Len(Last(f.blocks))

Capacity(f) == (f.blockSize - UNIT) \div (2 * UNIT)

\* Mutant of getMetadata: the header is counted as part of a block.
getMetadataWithHeader(f) ==
  [capacity |-> Capacity(f),
   rootBID |-> f.rootBID, depth |-> f.depth,
   numOfNodes |-> fileSize(f) \div f.blockSize,
   blocks |-> f.blocks, promoted |-> NO_SPLIT]

getMetadata(f) ==
  [capacity |-> Capacity(f),
   rootBID |-> f.rootBID, depth |-> f.depth,
   numOfNodes |-> (fileSize(f) - HEADER_SIZE) \div f.blockSize,
   blocks |-> f.blocks, promoted |-> NO_SPLIT]

writeMetadata(f, t) == [f EXCEPT !.rootBID = t.rootBID, !.depth = t.depth, !.blocks = t.blocks]

-----------------------------------------------------------------------------
(* Finding the way down                                                    *)

\* Mutant of child: a key equal to a separator goes left.
childLeftOfEqual(node, key) ==
  LET above == SelectInSeq(node.separators, LAMBDA s : s.key >= key)
      last  == IF above = 0 THEN Len(node.separators) ELSE above - 1
  IN  IF last = 0 THEN node.firstChild ELSE node.separators[last].value

\* The child right of the last separator before the first one above key.
child(node, key) ==
  LET above == SelectInSeq(node.separators, LAMBDA s : s.key > key)
      last  == IF above = 0 THEN Len(node.separators) ELSE above - 1
  IN  IF last = 0 THEN node.firstChild ELSE node.separators[last].value

getPath(t, key) ==
  LET path[level \in 0 .. t.depth] ==
        IF level = 0 THEN t.rootBID ELSE child(readInternal(t, path[level - 1]), key)
  IN  path

-----------------------------------------------------------------------------
(* insert                                                                  *)

splitIndex(t) == (t.capacity - 1) \div 2 + 1

\* By key, then by value; equal entries are the same.
before(entries, i, j) ==
  LET a == entries[i]
      b == entries[j]
  IN  \/ a.key < b.key
      \/ a.key = b.key /\ a.value < b.value
      \/ a = b /\ i < j

sortEntries(entries) ==
  [n \in DOMAIN entries |->
    entries[CHOOSE i \in DOMAIN entries :
              Cardinality({j \in DOMAIN entries : before(entries, j, i)}) = n - 1]]

\* Mutant of splitLeaf: the left leaf keeps its successor.
splitLeafUnlinked(t, id, entries, next) ==
  LET mid == splitIndex(t)
      new == t.numOfNodes + 1
      left == writeLeaf(t, id, SubSeq(entries, 1, mid), next)
  IN  [writeLeaf(left, new, SubSeq(entries, mid + 1, Len(entries)), next) EXCEPT
         !.numOfNodes = new, !.promoted = Entry(entries[mid + 1].key, new)]

splitLeaf(t, id, entries, next) ==
  LET mid == splitIndex(t)
      new == t.numOfNodes + 1
      left == writeLeaf(t, id, SubSeq(entries, 1, mid), new)
  IN  [writeLeaf(left, new, SubSeq(entries, mid + 1, Len(entries)), next) EXCEPT
         !.numOfNodes = new, !.promoted = Entry(entries[mid + 1].key, new)]

\* A new root above the two halves of the old one.
newRoot(t) ==
  LET new == t.numOfNodes + 1
  IN  [writeInternal(t, new, t.rootBID, <<t.promoted>>) EXCEPT
         !.numOfNodes = new, !.rootBID = new, !.depth = @ + 1, !.promoted = NO_SPLIT]

insertEmpty(t, entry) ==
  writeLeaf([t EXCEPT !.numOfNodes = 1, !.rootBID = 1], 1, <<entry>>, 0)

insertIntoOnlyOne(t, entry) ==
  LET root    == readLeaf(t, t.rootBID)
      entries == sortEntries(Append(root.entries, entry))
  IN  IF Len(entries) <= t.capacity THEN writeLeaf(t, t.rootBID, entries, root.next)
      ELSE newRoot(splitLeaf(t, t.rootBID, entries, 0))

insertLeaf(t, entry, id) ==
  LET leaf    == readLeaf(t, id)
      entries == sortEntries(Append(leaf.entries, entry))
  IN  IF Len(entries) <= t.capacity THEN writeLeaf(t, id, entries, leaf.next)
      ELSE splitLeaf(t, id, entries, leaf.next)

\* Mutant of propagate: the separator that moves up also stays in the right half.
propagateCopied(t, id) ==
  LET node == readInternal(t, id)
      separators == sortEntries(Append(node.separators, t.promoted))
      mid == splitIndex(t)
      up  == separators[mid + 1]
      new == t.numOfNodes + 1
      left == writeInternal(t, id, node.firstChild, SubSeq(separators, 1, mid))
      split == [writeInternal(left, new, up.value, SubSeq(separators, mid + 1, Len(separators)))
                  EXCEPT !.numOfNodes = new, !.promoted = Entry(up.key, new)]
  IN  IF Len(separators) <= t.capacity
        THEN [writeInternal(t, id, node.firstChild, separators) EXCEPT !.promoted = NO_SPLIT]
        ELSE IF id = t.rootBID THEN newRoot(split) ELSE split

propagate(t, id) ==
  LET node == readInternal(t, id)
      separators == sortEntries(Append(node.separators, t.promoted))
      mid == splitIndex(t)
      up  == separators[mid + 1]
      new == t.numOfNodes + 1
      left == writeInternal(t, id, node.firstChild, SubSeq(separators, 1, mid))
      split == [writeInternal(left, new, up.value, SubSeq(separators, mid + 2, Len(separators)))
                  EXCEPT !.numOfNodes = new, !.promoted = Entry(up.key, new)]
  IN  IF Len(separators) <= t.capacity
        THEN [writeInternal(t, id, node.firstChild, separators) EXCEPT !.promoted = NO_SPLIT]
        ELSE IF id = t.rootBID THEN newRoot(split) ELSE split

\* From the leaf upwards, as long as a level splits.
insertAlongPath(t, entry) ==
  LET path == getPath(t, entry.key)
      climbed[level \in 0 .. t.depth] ==
        IF level = t.depth THEN insertLeaf(t, entry, path[level])
        ELSE LET below == climbed[level + 1]
             IN  IF below.promoted = NO_SPLIT THEN below ELSE propagate(below, path[level])
  IN  climbed[0]

insert(t, entry) ==
  CASE t.numOfNodes = 0 -> insertEmpty(t, entry)
    [] t.numOfNodes = 1 -> insertIntoOnlyOne(t, entry)
    [] OTHER            -> insertAlongPath(t, entry)

-----------------------------------------------------------------------------
(* search, rangeSearch and print                                           *)

search(t, key) ==
  LET leaf == readLeaf(t, getPath(t, key)[t.depth])
      at   == SelectInSeq(leaf.entries, LAMBDA e : e.key = key)
  IN  IF t.numOfNodes = 0 \/ at = 0 THEN -1 ELSE leaf.entries[at].value

\* The leaf and those its chain leads to, never more than the file has blocks.
leavesFrom(t, id) ==
  LET visit[i \in DOMAIN t.blocks] ==
        IF i = 1 THEN id
        ELSE LET leaf == visit[i - 1] IN IF leaf = 0 THEN 0 ELSE readLeaf(t, leaf).next
  IN  Picked(visit, {i \in DOMAIN t.blocks : visit[i] # 0})

entriesOf(t, leaves) ==
  Joined([i \in DOMAIN leaves |-> readLeaf(t, leaves[i]).entries])

rangeSearch(t, first, last) ==
  IF t.numOfNodes = 0 THEN <<>>
  ELSE LET entries == entriesOf(t, leavesFrom(t, getPath(t, first)[t.depth]))
       IN  Picked(entries, {i \in DOMAIN entries :
                              /\ entries[i].key >= first
                              /\ \A j \in 1 .. i : entries[j].key <= last})

keysOf(entries) == [i \in DOMAIN entries |-> entries[i].key]

childrenOf(node) ==
  <<node.firstChild>> \o [i \in DOMAIN node.separators |-> node.separators[i].value]

\* The keys print writes for the root and for the level below it.
print(t) ==
  IF t.numOfNodes = 0 THEN <<<<>>, <<>>>>
  ELSE IF t.depth = 0 THEN <<keysOf(readLeaf(t, t.rootBID).entries), <<>>>>
  ELSE LET root     == readInternal(t, t.rootBID)
           children == childrenOf(root)
       IN  <<keysOf(root.separators),
             Joined([i \in DOMAIN children |->
               IF t.depth = 1 THEN keysOf(readLeaf(t, children[i]).entries)
               ELSE keysOf(readInternal(t, children[i]).separators)])>>

-----------------------------------------------------------------------------
(* The commands                                                            *)

\* "c": whatever the file held is gone.
Create(blockSize) ==
  /\ tree = Closed
  /\ file' = [NoFile EXCEPT !.blockSize = blockSize]
  /\ inserted' = {}
  /\ UNCHANGED tree

\* "i": a file whose blocks have no room for an entry is refused.
Open ==
  /\ tree = Closed
  /\ Capacity(file) > 0
  /\ tree' = getMetadata(file)
  /\ UNCHANGED <<file, inserted>>

\* A line of the input.
Insert(entry) ==
  /\ tree # Closed
  /\ entry \notin inserted
  /\ tree' = insert(tree, entry)
  /\ file' = writeMetadata(file, tree')
  /\ inserted' = inserted \cup {entry}

\* The end of the input, or a line that is no entry.
Close ==
  /\ tree # Closed
  /\ tree' = Closed
  /\ UNCHANGED <<file, inserted>>

Next ==
  \/ \E blockSize \in BlockSizes : Create(blockSize)
  \/ Open \/ Close
  \/ \E entry \in Entries : Insert(entry)

Spec == Init /\ [][Next]_vars

-----------------------------------------------------------------------------
(* Properties.  A command that starts now sees the tree in the file.       *)

Readable == tree = Closed /\ Capacity(file) > 0
Seen     == getMetadata(file)
Keys     == {e.key : e \in Entries}

SortedByKey(S) ==
  [i \in 1 .. Cardinality(S) |->
    CHOOSE e \in S : Cardinality({d \in S : d.key < e.key}) = i - 1]

\* Type of the file and of an open tree; the tree a command works on is the
\* one in its file, and both count the same blocks.
TypeOK ==
  /\ file.blockSize \in BlockSizes \cup {0}
  /\ \A id \in DOMAIN file.blocks : file.blocks[id] \in Seq(Int)
  /\ inserted \subseteq Entries
  /\ tree # Closed => tree = [Seen EXCEPT !.numOfNodes = Len(file.blocks)]

\* The blocks on each level, from left to right.
Levels(t) ==
  LET level[l \in 0 .. t.depth] ==
        IF l = 0 THEN <<t.rootBID>>
        ELSE LET above == level[l - 1]
             IN  Joined([i \in DOMAIN above |-> childrenOf(readInternal(t, above[i]))])
  IN  level

\* The first key under a block of a level.
FirstKeyUnder(t, id, l) ==
  LET down[i \in l .. t.depth] ==
        IF i = l THEN id ELSE readInternal(t, down[i - 1]).firstChild
  IN  readLeaf(t, down[t.depth]).entries[1].key

\* The file holds a B+ tree: every block is on exactly one level, all leaves on
\* the last one, chained in their order; the leaves' entries are in key order,
\* and a separator is the first key under the child to its right.
WellFormed ==
  Readable /\ Seen.numOfNodes > 0 =>
    LET t == Seen
        levels == Levels(t)
        leaves == levels[t.depth]
        onLevels == Joined([l \in 1 .. t.depth + 1 |-> levels[l - 1]])
    IN  /\ Len(onLevels) = Len(t.blocks) /\ ToSet(onLevels) = DOMAIN t.blocks
        /\ leavesFrom(t, leaves[1]) = leaves
        /\ entriesOf(t, leaves) = SortedByKey(inserted)
        /\ \A i \in DOMAIN leaves : readLeaf(t, leaves[i]).entries # <<>>
        /\ \A l \in 0 .. t.depth - 1 : \A i \in DOMAIN levels[l] :
             \A s \in ToSet(readInternal(t, levels[l][i]).separators) :
               s.key = FirstKeyUnder(t, s.value, l + 1)

\* search finds the value of every inserted key, and -1 for the others.
SearchAnswers ==
  Readable =>
    \A k \in Keys :
      search(Seen, k) = IF \E e \in inserted : e.key = k
                          THEN (CHOOSE e \in inserted : e.key = k).value ELSE -1

\* rangeSearch answers the inserted entries of the range in key order, and print
\* shows every key on the last level of a tree that has at most two.
RangeAnswers ==
  Readable =>
    /\ \A first, last \in Keys :
         rangeSearch(Seen, first, last) =
           SortedByKey({e \in inserted : first <= e.key /\ e.key <= last})
    /\ Seen.depth <= 1 => print(Seen)[Seen.depth + 1] = keysOf(SortedByKey(inserted))
=============================================================================
