--------------------------- MODULE RelationProofs ---------------------------
(***************************************************************************)
(* For every fanout, all keys and records, any number of cursors and any   *)
(* sequence of calls: the tree of relation_mem.c stays a search tree with  *)
(* its nodes half full, and a cursor that no other one has overtaken       *)
(* stays a path of it.                                                     *)
(*                                                                         *)
(* The argument: every node has a region, the keys that a walk from the    *)
(* root may bring to it.  The regions of a node's children cut its own in  *)
(* pieces, so that those of one level never meet, and a key leads to one   *)
(* node in each level only.  A split cuts one region in two and changes no *)
(* other; until the second half is in a parent, that half and the first    *)
(* one share what the parent has for them.                                 *)
(***************************************************************************)
EXTENDS MCRelation, SequenceTheorems, FiniteSetTheorems, WellFoundedInduction, TLAPS

-----------------------------------------------------------------------------
(* Induction, for which the numbers with a property are a set. *)

LEMMA LeastNat ==
    ASSUME NEW T, T \subseteq Nat, T # {}
    PROVE  \E x \in T : \A y \in T : ~(y < x)
<1>1. \E x \in T : \A y \in T : ~(<<y, x>> \in OpToRel(<, Nat))
  BY NatLessThanWellFounded, WFMin, Zenon
<1> QED
  BY <1>1 DEF OpToRel

LEMMA SetInduction ==
    ASSUME NEW S, 0 \in S, \A n \in Nat : n \in S => n + 1 \in S
    PROVE  Nat \subseteq S
<1> SUFFICES ASSUME Nat \ S # {} PROVE FALSE
  OBVIOUS
<1>1. Nat \ S \subseteq Nat
  OBVIOUS
<1>2. PICK x \in Nat \ S : \A y \in Nat \ S : ~(y < x)
  BY <1>1, LeastNat
<1>3. x - 1 \in Nat /\ x - 1 \notin Nat \ S
  BY <1>2
<1>4. (x - 1) + 1 \in S
  BY <1>3
<1> QED
  BY <1>2, <1>4

\* What holds at a and goes on from each number to the next holds up to b.
LEMMA UpTo ==
    ASSUME NEW a \in Int, NEW b \in Int, NEW S, a \in S, \A i \in a .. b : i \in S /\ i # b => i + 1 \in S
    PROVE  \A i \in a .. b : i \in S
<1> DEFINE T == {n \in Nat : a + n <= b => a + n \in S}
<1>1. 0 \in T /\ \A n \in Nat : n \in T => n + 1 \in T
  <2>1. ASSUME NEW n \in Nat, n \in T, a + (n + 1) <= b PROVE a + (n + 1) \in S
    <3>1. a + n \in a .. b /\ a + n # b /\ a + n \in S /\ (a + n) + 1 = a + (n + 1)
      BY <2>1
    <3>2. (a + n) + 1 \in S
      BY <3>1
    <3> QED
      BY <3>1, <3>2
  <2> QED
    BY <2>1
<1> HIDE DEF T
<1>2. Nat \subseteq T
  BY <1>1, SetInduction
<1>3. ASSUME NEW i \in a .. b PROVE i \in S
  <2>1. i - a \in Nat /\ a + (i - a) = i
    OBVIOUS
  <2>2. i - a \in T
    BY <1>2, <2>1
  <2> QED
    BY <2>1, <2>2 DEF T
<1> QED
  BY <1>3

\* The least and the greatest of some numbers between a and b.
LEMMA Lowest ==
    ASSUME NEW a \in Int, NEW b \in Int, NEW S, NEW x \in a .. b, x \in S
    PROVE  \E i \in a .. b : i \in S /\ \A j \in a .. i - 1 : j \notin S
<1> DEFINE T == {n \in Nat : a + n \in a .. b /\ a + n \in S}
<1>1. T \subseteq Nat /\ T # {}
  <2>1. x - a \in Nat /\ a + (x - a) = x
    OBVIOUS
  <2> QED
    BY <2>1
<1>2. PICK n \in T : \A m \in T : ~(m < n)
  BY <1>1, LeastNat
<1>3. ASSUME NEW j \in a .. (a + n) - 1, j \in S PROVE FALSE
  <2>1. j - a \in Nat /\ a + (j - a) = j /\ j - a < n /\ j \in a .. b
    BY <1>2
  <2>2. j - a \in T
    BY <1>3, <2>1
  <2> QED
    BY <1>2, <2>1, <2>2
<1> QED
  BY <1>2, <1>3

LEMMA Highest ==
    ASSUME NEW a \in Int, NEW b \in Int, NEW S, NEW x \in a .. b, x \in S
    PROVE  \E i \in a .. b : i \in S /\ \A j \in i + 1 .. b : j \notin S
<1> DEFINE T == {n \in Nat : b - n \in a .. b /\ b - n \in S}
<1>1. T \subseteq Nat /\ T # {}
  <2>1. b - x \in Nat /\ b - (b - x) = x
    OBVIOUS
  <2> QED
    BY <2>1
<1>2. PICK n \in T : \A m \in T : ~(m < n)
  BY <1>1, LeastNat
<1>3. ASSUME NEW j \in (b - n) + 1 .. b, j \in S PROVE FALSE
  <2>1. b - j \in Nat /\ b - (b - j) = j /\ b - j < n /\ j \in a .. b
    BY <1>2
  <2>2. b - j \in T
    BY <1>3, <2>1
  <2> QED
    BY <1>2, <2>1, <2>2
<1> QED
  BY <1>2, <1>3

-----------------------------------------------------------------------------
(* One node. *)

AnyNodes == BtNodes(Keys, Records \cup Nat)

HasKeys(nd) ==
    /\ nd.numKeys \in Nat
    /\ \A i \in 0 .. nd.numKeys - 1 : nd.entries[i].key \in Nat

LEMMA FanoutIs == FANOUT \in Nat /\ FANOUT >= 2
BY FanoutAssumption

LEMMA RecordIndex ==
    ASSUME NEW nd, HasKeys(nd), NEW key \in Int, NEW t, t = findRecordIndex(nd, key)
    PROVE  /\ t \in 0 .. nd.numKeys
           /\ \A j \in 0 .. t - 1 : nd.entries[j].key < key
           /\ t < nd.numKeys => key <= nd.entries[t].key
<1> DEFINE S == {i \in 0 .. nd.numKeys : i < nd.numKeys => key <= nd.entries[i].key}
<1>1. nd.numKeys \in Int /\ nd.numKeys \in 0 .. nd.numKeys /\ nd.numKeys \in S
  BY FanoutIs DEF HasKeys
<1>2. PICK i \in 0 .. nd.numKeys : i \in S /\ \A j \in 0 .. i - 1 : j \notin S
  <2>1. PICK n \in Int : n = nd.numKeys
    BY <1>1
  <2> HIDE DEF S
  <2>2. n \in 0 .. n /\ n \in S
    BY <1>1, <2>1
  <2>3. PICK a \in Int, T \in {S} : a = 0
    OBVIOUS
  <2>4. \E i \in a .. n : i \in T /\ \A j \in a .. i - 1 : j \notin T
    BY <2>2, <2>3, Lowest
  <2> QED
    BY <2>1, <2>3, <2>4
<1>3. \A j \in 0 .. i - 1 : nd.entries[j].key < key
  BY <1>1, <1>2 DEF HasKeys
<1>4. i < nd.numKeys => key <= nd.entries[i].key
  BY <1>2
<1> QED
  BY <1>3, <1>4 DEF findRecordIndex

\* Where a key belongs among the keys of an intern node.
Between(nd, i, k) ==
    /\ i # -1 => nd.entries[i].key <= k
    /\ i < nd.numKeys - 1 => k < nd.entries[i + 1].key

LEMMA ChildIndex ==
    ASSUME NEW nd, HasKeys(nd), NEW key \in Int, NEW t, t = findChildIndex(nd, key)
    PROVE  t \in -1 .. nd.numKeys - 1 /\ Between(nd, t, key)
<1> DEFINE S == {i \in -1 .. nd.numKeys - 1 : i # -1 => nd.entries[i].key <= key}
<1>1. nd.numKeys \in Int /\ nd.numKeys >= 0 /\ -1 \in -1 .. nd.numKeys - 1 /\ -1 \in S
  BY FanoutIs DEF HasKeys
<1>2. PICK i \in -1 .. nd.numKeys - 1 : i \in S /\ \A j \in i + 1 .. nd.numKeys - 1 : j \notin S
  <2>1. PICK n \in Int : n = nd.numKeys - 1
    BY <1>1
  <2> HIDE DEF S
  <2>2. PICK a \in Int, T \in {S} : a = -1
    OBVIOUS
  <2>3. a \in a .. n /\ a \in T
    BY <1>1, <2>1, <2>2
  <2>4. PICK i \in a .. n : i \in T /\ \A j \in i + 1 .. n : j \notin T
    BY <2>3, Highest
  <2>5. i \in -1 .. nd.numKeys - 1 /\ i \in S /\ \A j \in i + 1 .. nd.numKeys - 1 : j \notin S
    BY <1>1, <2>1, <2>2, <2>4
  <2> QED
    BY <2>5
<1>3. i < nd.numKeys - 1 => key < nd.entries[i + 1].key
  BY <1>1, <1>2 DEF HasKeys
<1>4. i # -1 => nd.entries[i].key <= key
  BY <1>2
<1> QED
  BY <1>3, <1>4 DEF findChildIndex, Between

LEMMA OnePlace ==
    ASSUME NEW nd, HasKeys(nd), Sorted(nd), NEW key \in Int,
           NEW i \in -1 .. nd.numKeys - 1, NEW j \in -1 .. nd.numKeys - 1,
           Between(nd, i, key), Between(nd, j, key)
    PROVE  i = j
<1>1. ASSUME NEW a \in -1 .. nd.numKeys - 1, NEW b \in -1 .. nd.numKeys - 1,
             Between(nd, a, key), Between(nd, b, key), a < b
      PROVE  FALSE
  <2>1. a + 1 \in 0 .. nd.numKeys - 1 /\ b \in 0 .. nd.numKeys - 1 /\ a < nd.numKeys - 1 /\ b # -1
    BY <1>1 DEF HasKeys
  <2>2. nd.entries[a + 1].key <= nd.entries[b].key
    <3>1. nd.entries[a + 1].key \in Nat /\ nd.entries[b].key \in Nat
      BY <2>1 DEF HasKeys
    <3>2. CASE a + 1 = b
      BY <3>1, <3>2
    <3>3. CASE a + 1 < b
      BY <2>1, <3>1, <3>3 DEF Sorted
    <3> QED
      BY <1>1, <2>1, <3>2, <3>3
  <2>3. key < nd.entries[a + 1].key /\ nd.entries[b].key <= key
    BY <1>1, <2>1 DEF Between
  <2> QED
    BY <2>1, <2>2, <2>3 DEF HasKeys
<1> QED
  BY <1>1 DEF HasKeys

\* The entries of a node with one more among them, at t.
Wide(nd, t, e) ==
    [i \in 0 .. FANOUT |-> CASE i < t -> nd.entries[i]
                             [] i = t -> e
                             [] OTHER -> nd.entries[i - 1]]

\* t is the place of a new key.
IsPlace(nd, t, key) ==
    /\ t \in 0 .. nd.numKeys
    /\ \A j \in 0 .. t - 1 : nd.entries[j].key < key
    /\ t < nd.numKeys => key < nd.entries[t].key

Increasing(a, n) ==
    /\ \A i \in 0 .. n - 1 : a[i].key \in Nat
    /\ \A i, j \in 0 .. n - 1 : i < j => a[i].key < a[j].key

LEMMA WideIs ==
    ASSUME NEW nd, nd.numKeys \in 0 .. FANOUT, NEW t \in 0 .. nd.numKeys, NEW e
    PROVE  /\ Wide(nd, t, e)[t] = e
           /\ \A i \in 0 .. t - 1 : Wide(nd, t, e)[i] = nd.entries[i]
           /\ \A i \in t + 1 .. nd.numKeys : Wide(nd, t, e)[i] = nd.entries[i - 1]
<1>1. nd.numKeys \in 0 .. FANOUT
  OBVIOUS
<1>2. t \in 0 .. FANOUT
  BY <1>1, FanoutIs
<1>3. \A i \in 0 .. t - 1 : i \in 0 .. FANOUT /\ i < t
  BY <1>1, FanoutIs
<1>4. \A i \in t + 1 .. nd.numKeys : i \in 0 .. FANOUT /\ ~(i < t) /\ i # t
  BY <1>1, FanoutIs
<1> QED
  BY <1>2, <1>3, <1>4 DEF Wide

LEMMA WideIncreases ==
    ASSUME NEW nd, HasKeys(nd), nd.numKeys <= FANOUT, Sorted(nd), NEW e, e.key \in Nat,
           NEW t, IsPlace(nd, t, e.key)
    PROVE  Increasing(Wide(nd, t, e), nd.numKeys + 1)
<1>1. nd.numKeys \in Nat /\ nd.numKeys \in 0 .. FANOUT /\ t \in 0 .. nd.numKeys
  BY FanoutIs DEF HasKeys, IsPlace
<1>2. PICK n \in Nat, w \in {Wide(nd, t, e)}, a \in {nd.entries} :
         n = nd.numKeys /\ w = Wide(nd, t, e) /\ a = nd.entries
  BY <1>1
<1>3. /\ w[t] = e
      /\ \A i \in 0 .. t - 1 : w[i] = a[i]
      /\ \A i \in t + 1 .. n : w[i] = a[i - 1]
  BY <1>1, <1>2, WideIs
<1>4. /\ \A i \in 0 .. n - 1 : a[i].key \in Nat
      /\ \A i, j \in 0 .. n - 1 : i < j => a[i].key < a[j].key
      /\ \A j \in 0 .. t - 1 : a[j].key < e.key
      /\ t < n => e.key < a[t].key
  BY <1>2 DEF HasKeys, Sorted, IsPlace
<1>5. \A i \in t .. n - 1 : e.key < a[i].key
  BY <1>1, <1>2, <1>4
<1>6. \A i \in 0 .. n : w[i].key \in Nat
  BY <1>1, <1>2, <1>3, <1>4
<1>7. ASSUME NEW i \in 0 .. n, NEW j \in 0 .. n, i < j PROVE w[i].key < w[j].key
  <2>1. CASE j < t
    BY <1>1, <1>2, <1>3, <1>4, <1>7, <2>1
  <2>2. CASE j = t
    BY <1>1, <1>2, <1>3, <1>4, <1>7, <2>2
  <2>3. CASE j > t /\ i < t
    <3>1. w[i] = a[i] /\ w[j] = a[j - 1] /\ i \in 0 .. n - 1 /\ j - 1 \in 0 .. n - 1 /\ i < j - 1
      BY <1>1, <1>2, <1>3, <1>7, <2>3
    <3> QED
      BY <1>4, <3>1
  <2>4. CASE j > t /\ i = t
    BY <1>1, <1>2, <1>3, <1>5, <1>7, <2>4
  <2>5. CASE j > t /\ i > t
    <3>1. w[i] = a[i - 1] /\ w[j] = a[j - 1] /\ i - 1 \in 0 .. n - 1 /\ j - 1 \in 0 .. n - 1 /\ i - 1 < j - 1
      BY <1>1, <1>2, <1>3, <1>7, <2>5
    <3> QED
      BY <1>4, <3>1
  <2> QED
    BY <1>1, <1>7, <2>1, <2>2, <2>3, <2>4, <2>5
<1> QED
  BY <1>2, <1>6, <1>7 DEF Increasing

\* A node whose keys in use are the n entries of a from s on.
Holds(nd, a, s, n) == nd.numKeys = n /\ \A i \in 0 .. n - 1 : nd.entries[i] = a[s + i]

LEMMA MiddleIs == /\ middle \in Nat /\ middle >= 1 /\ middle <= FANOUT
                  /\ middle >= FANOUT \div 2 /\ FANOUT - middle >= FANOUT \div 2 /\ FANOUT - middle >= 1
                  /\ FANOUT \div 2 \in Nat
BY FanoutIs DEF middle

LEMMA InsertIs ==
    ASSUME NEW P, NEW nd \in BtNodes(Keys, P), nd.numKeys < FANOUT, NEW t \in 0 .. nd.numKeys,
           NEW e \in Entry(Keys, P), NEW nd2, nd2 = insertAt(nd, t, e)
    PROVE  /\ nd2 \in BtNodes(Keys, P)
           /\ Holds(nd2, Wide(nd, t, e), 0, nd.numKeys + 1)
           /\ nd2.isLeaf = nd.isLeaf /\ nd2.FirstLeaf = nd.FirstLeaf /\ nd2.LastLeaf = nd.LastLeaf
           /\ nd2.ptr0 = nd.ptr0
<1>1. /\ nd.numKeys \in 0 .. FANOUT /\ nd.entries \in [Slots -> Entry(Keys, P) \cup {Unset}]
      /\ nd.isLeaf \in BOOLEAN /\ nd.FirstLeaf \in BOOLEAN /\ nd.LastLeaf \in BOOLEAN
      /\ nd.ptr0 \in P \cup {NULL}
  BY DEF BtNodes
<1>2. PICK n \in Nat : n = nd.numKeys /\ n < FANOUT
  BY <1>1, FanoutIs
<1> DEFINE a == [i \in Slots |-> CASE i < t \/ i > n -> nd.entries[i]
                                   [] i = t          -> e
                                   [] OTHER          -> nd.entries[i - 1]]
<1>3. nd2 = [nd EXCEPT !.numKeys = n + 1, !.entries = a]
  BY <1>2 DEF insertAt
<1>4. a \in [Slots -> Entry(Keys, P) \cup {Unset}]
  <2>1. ASSUME NEW i \in Slots PROVE a[i] \in Entry(Keys, P) \cup {Unset}
    <3>1. CASE i < t \/ i > n
      BY <1>1, <3>1
    <3>2. CASE i = t
      BY <1>2, <3>2
    <3>3. CASE i > t /\ i <= n
      <4>1. i - 1 \in Slots /\ ~(i < t \/ i > n) /\ i # t
        BY <1>2, <3>3, FanoutIs DEF Slots
      <4>2. a[i] = nd.entries[i - 1]
        BY <4>1
      <4>3. nd.entries[i - 1] \in Entry(Keys, P) \cup {Unset}
        BY <1>1, <4>1
      <4> QED
        BY <4>2, <4>3
    <3> QED
      BY <1>2, <3>1, <3>2, <3>3 DEF Slots
  <2> QED
    BY <2>1
<1>5. ASSUME NEW i \in 0 .. n PROVE a[i] = Wide(nd, t, e)[i]
  <2>1. i \in Slots /\ i \in 0 .. FANOUT
    BY <1>2, FanoutIs DEF Slots
  <2>2. CASE i < t
    BY <2>1, <2>2 DEF Wide
  <2>3. CASE i = t
    BY <1>2, <2>1, <2>3 DEF Wide
  <2>4. CASE i > t
    BY <1>2, <2>1, <2>4 DEF Wide
  <2> QED
    BY <1>2, <2>2, <2>3, <2>4
<1> HIDE DEF a
<1>6. /\ nd2.numKeys = n + 1 /\ nd2.entries = a
      /\ nd2.isLeaf = nd.isLeaf /\ nd2.FirstLeaf = nd.FirstLeaf /\ nd2.LastLeaf = nd.LastLeaf
      /\ nd2.ptr0 = nd.ptr0
  BY <1>3 DEF BtNodes
<1>7. nd2 \in BtNodes(Keys, P)
  <2>1. n + 1 \in 0 .. FANOUT
    BY <1>2, FanoutIs
  <2>2. nd2 = [isLeaf |-> nd.isLeaf, FirstLeaf |-> nd.FirstLeaf, LastLeaf |-> nd.LastLeaf,
               numKeys |-> n + 1, ptr0 |-> nd.ptr0, entries |-> a]
    BY <1>3 DEF BtNodes
  <2> QED
    BY <1>1, <1>4, <2>1, <2>2 DEF BtNodes
<1>8. Holds(nd2, Wide(nd, t, e), 0, n + 1)
  BY <1>2, <1>5, <1>6 DEF Holds
<1> QED
  BY <1>2, <1>6, <1>7, <1>8

\* What splitnode makes of a full node, w being its entries and the new one.
Parted(P, nd, e, w, left, right) ==
    /\ splitKey(nd, e) = w[middle].key
    /\ left \in BtNodes(Keys, P) /\ Holds(left, w, 0, middle)
    /\ left.isLeaf = nd.isLeaf /\ left.FirstLeaf = nd.FirstLeaf /\ left.LastLeaf = FALSE
    /\ left.ptr0 = nd.ptr0
    /\ right \in BtNodes(Keys, P)
    /\ nd.isLeaf => Holds(right, w, middle, FANOUT + 1 - middle) /\ right.ptr0 = NULL
    /\ ~nd.isLeaf => Holds(right, w, middle + 1, FANOUT - middle) /\ right.ptr0 = w[middle].ptr
    /\ right.isLeaf = nd.isLeaf /\ right.FirstLeaf = FALSE /\ right.LastLeaf = nd.LastLeaf

Entries(P, w) == \A i \in 0 .. FANOUT : w[i] \in Entry(Keys, P)

LEMMA SplitIs ==
    ASSUME NEW P, NEW nd \in BtNodes(Keys, P), nd.numKeys = FANOUT, NEW e \in Entry(Keys, P),
           NEW t, t = findRecordIndex(nd, e.key), NEW w, w = Wide(nd, t, e),
           Entries(P, w),
           NEW left, left = splitLeft(nd, e), NEW right, right = splitRight(nd, e)
    PROVE  Parted(P, nd, e, w, left, right)
<1>0. \A i \in 0 .. FANOUT : w[i] \in Entry(Keys, P)
  BY DEF Entries
<1>1. /\ nd.numKeys \in 0 .. FANOUT /\ nd.entries \in [Slots -> Entry(Keys, P) \cup {Unset}]
      /\ nd.isLeaf \in BOOLEAN /\ nd.FirstLeaf \in BOOLEAN /\ nd.LastLeaf \in BOOLEAN
      /\ nd.ptr0 \in P \cup {NULL}
  BY DEF BtNodes
<1>2. allEntries(nd, e) = w
  BY DEF allEntries, Wide
<1>3. PICK m \in Nat, s \in Nat : m = middle /\ s = startIdx(nd.isLeaf) /\ m >= 1 /\ m < FANOUT
                                  /\ s = (IF nd.isLeaf THEN m ELSE m + 1)
  BY MiddleIs, FanoutIs DEF startIdx
<1>4. splitKey(nd, e) = w[m].key
  BY <1>1, <1>2, <1>3 DEF splitKey
<1> DEFINE a == [i \in Slots |-> IF i < m THEN w[i] ELSE nd.entries[i]]
           b == [i \in Slots |-> IF i < FANOUT + 1 - s THEN w[s + i] ELSE Unset]
           p == IF nd.isLeaf THEN NULL ELSE w[s - 1].ptr
<1>5. left = [nd EXCEPT !.numKeys = m, !.LastLeaf = FALSE, !.entries = a]
  BY <1>2, <1>3 DEF splitLeft
<1>6. right = [isLeaf |-> nd.isLeaf, FirstLeaf |-> FALSE, LastLeaf |-> nd.LastLeaf,
               numKeys |-> FANOUT + 1 - s, ptr0 |-> p, entries |-> b]
  BY <1>2, <1>3 DEF splitRight, createNewNode
<1>7. a \in [Slots -> Entry(Keys, P) \cup {Unset}] /\ \A i \in 0 .. m - 1 : a[i] = w[0 + i]
  BY <1>0, <1>1, <1>3, FanoutIs DEF Slots
<1>8. b \in [Slots -> Entry(Keys, P) \cup {Unset}] /\ \A i \in 0 .. FANOUT - s : b[i] = w[s + i]
  <2>1. ASSUME NEW i \in Slots, i < FANOUT + 1 - s PROVE w[s + i] \in Entry(Keys, P)
    <3>1. s + i \in 0 .. FANOUT
      BY <1>3, <2>1, FanoutIs DEF Slots
    <3> QED
      BY <1>0, <3>1
  <2>2. \A i \in 0 .. FANOUT - s : i \in Slots /\ i < FANOUT + 1 - s
    BY <1>3, FanoutIs DEF Slots
  <2> QED
    BY <2>1, <2>2
<1>9. p \in P \cup {NULL} /\ (~nd.isLeaf => p = w[m].ptr)
  <2>1. ~nd.isLeaf => s - 1 = m /\ s - 1 \in 0 .. FANOUT
    BY <1>3, FanoutIs
  <2> QED
    BY <1>0, <1>3, <2>1 DEF Entry
<1> HIDE DEF a, b, p
<1>10. left \in BtNodes(Keys, P)
  <2>1. m \in 0 .. FANOUT /\ FALSE \in BOOLEAN
    BY <1>3, FanoutIs
  <2>2. left = [isLeaf |-> nd.isLeaf, FirstLeaf |-> nd.FirstLeaf, LastLeaf |-> FALSE,
                numKeys |-> m, ptr0 |-> nd.ptr0, entries |-> a]
    BY <1>5 DEF BtNodes
  <2> QED
    BY <1>1, <1>7, <2>1, <2>2 DEF BtNodes
<1>11. FANOUT + 1 - s \in 0 .. FANOUT
  BY <1>3, FanoutIs
<1>12. right \in BtNodes(Keys, P)
  BY <1>1, <1>6, <1>8, <1>9, <1>11 DEF BtNodes
<1>13. Holds(left, w, 0, m) /\ left.isLeaf = nd.isLeaf /\ left.FirstLeaf = nd.FirstLeaf
       /\ left.LastLeaf = FALSE /\ left.ptr0 = nd.ptr0
  BY <1>5, <1>7 DEF BtNodes, Holds
<1>14. /\ Holds(right, w, s, FANOUT + 1 - s) /\ right.isLeaf = nd.isLeaf /\ right.FirstLeaf = FALSE
       /\ right.LastLeaf = nd.LastLeaf /\ right.ptr0 = p
  BY <1>3, <1>6, <1>8, FanoutIs DEF Holds
<1>15. nd.isLeaf => Holds(right, w, m, FANOUT + 1 - m) /\ right.ptr0 = NULL
  BY <1>3, <1>14 DEF p
<1>16. ~nd.isLeaf => Holds(right, w, m + 1, FANOUT - m) /\ right.ptr0 = w[m].ptr
  <2>1. ~nd.isLeaf => FANOUT + 1 - s = FANOUT - m
    BY <1>3, FanoutIs
  <2> QED
    BY <1>3, <1>9, <1>14, <2>1
<1> QED
  BY <1>3, <1>4, <1>10, <1>12, <1>13, <1>14, <1>15, <1>16 DEF Parted

-----------------------------------------------------------------------------
(* The tree.  A node may hold more than FANOUT entries here: what goes into  *)
(* a full node is put into it first, and then the node is split.             *)

Convex(S)   == \A a, b \in S : \A c \in Int : a <= c /\ c <= b => c \in S
UpClosed(S) == \A a \in S : \A c \in Int : a <= c => c \in S

NodeRight(nd) ==
    /\ HasKeys(nd) /\ Sorted(nd)
    /\ nd.isLeaf \in BOOLEAN /\ nd.FirstLeaf \in BOOLEAN /\ nd.LastLeaf \in BOOLEAN
    /\ ~nd.isLeaf => nd.numKeys >= 1

\* The keys that a walk may bring to node n, and where it is.
Placed(node, depth, reg, lev, n) ==
    /\ lev[n] \in 0 .. depth /\ (node[n].isLeaf <=> lev[n] = depth)
    /\ reg[n] \subseteq Int /\ reg[n] # {} /\ Convex(reg[n]) /\ NodeKeys(node[n]) \subseteq reg[n]
    /\ node[n].FirstLeaf <=> node[n].isLeaf /\ -1 \in reg[n]
    /\ node[n].LastLeaf <=> node[n].isLeaf /\ UpClosed(reg[n])

RegionsApart(N, reg, lev) == \A m, n \in N : m # n /\ lev[m] = lev[n] => reg[m] \cap reg[n] = {}

Kids(nd)        == -1 .. nd.numKeys - 1
Piece(nd, S, i) == {k \in S : Between(nd, i, k)}

\* The children of n cut its region in pieces; "full" is what n has for each of them.
Parts(node, reg, lev, full, n) ==
    ~node[n].isLeaf => \A i \in Kids(node[n]) :
        LET c == Child(node[n], i)
        IN  c \in DOMAIN node /\ lev[c] = lev[n] + 1 /\ full[c] = Piece(node[n], reg[n], i)

IsChild(node, m, n) == ~node[m].isLeaf /\ \E i \in Kids(node[m]) : Child(node[m], i) = n

Tree(node, root, depth, reg, lev, full, orphans) ==
    /\ root \in DOMAIN node /\ lev[root] = 0 /\ full[root] = Int /\ depth \in Nat
    /\ \A n \in DOMAIN node : NodeRight(node[n]) /\ Placed(node, depth, reg, lev, n)
    /\ RegionsApart(DOMAIN node, reg, lev)
    /\ \A n \in DOMAIN node : Parts(node, reg, lev, full, n)
    /\ \A n \in DOMAIN node \ orphans : \E m \in DOMAIN node : IsChild(node, m, n)

Whole(node, root, depth, reg, lev) == Tree(node, root, depth, reg, lev, reg, {root})

\* The node x has been split: what its parent has for it is now for x and for y, which is
\* in no parent yet.
Joined(reg, x, y) == [reg EXCEPT ![x] = reg[x] \cup reg[y]]

Pending(node, root, depth, reg, lev, x, y, key) ==
    /\ reg \in [DOMAIN node -> SUBSET Int] /\ x \in DOMAIN node /\ y \in DOMAIN node /\ x # y
    /\ Tree(node, root, depth, reg, lev, Joined(reg, x, y), {root, y})
    /\ lev[x] = lev[y] /\ y # root /\ key \in Nat /\ key \in reg[y]
    /\ \A k \in reg[x] : k < key
    /\ \A k \in reg[y] : key <= k

\* A leaf may get other entries that belong there.
LEMMA LeafChange ==
    ASSUME NEW node, NEW root, NEW depth, NEW reg, NEW lev, Whole(node, root, depth, reg, lev),
           NEW n \in DOMAIN node, node[n].isLeaf, NEW nd, NEW node2, node2 = [node EXCEPT ![n] = nd],
           NodeRight(nd), NodeKeys(nd) \subseteq reg[n], nd.isLeaf,
           nd.FirstLeaf = node[n].FirstLeaf, nd.LastLeaf = node[n].LastLeaf
    PROVE  Whole(node2, root, depth, reg, lev)
<1>1. DOMAIN node2 = DOMAIN node /\ node2[n] = nd /\ \A m \in DOMAIN node : m # n => node2[m] = node[m]
  OBVIOUS
<1>2. \A m \in DOMAIN node : NodeRight(node2[m]) /\ Placed(node2, depth, reg, lev, m)
  BY <1>1 DEF Whole, Tree, Placed
<1>3. \A m \in DOMAIN node : Parts(node2, reg, lev, reg, m)
  BY <1>1 DEF Whole, Tree, Parts
<1>4. \A m, k \in DOMAIN node : IsChild(node, m, k) => IsChild(node2, m, k)
  BY <1>1 DEF IsChild
<1> QED
  BY <1>1, <1>2, <1>3, <1>4 DEF Whole, Tree

NodeEntries(nd) == {nd.entries[i] : i \in 0 .. nd.numKeys - 1}

LEMMA EntryKeys == ASSUME NEW nd PROVE NodeKeys(nd) = {e.key : e \in NodeEntries(nd)}
BY DEF NodeKeys, NodeEntries

\* A node with one more entry.
LEMMA WideNode ==
    ASSUME NEW nd, NodeRight(nd), nd.numKeys <= FANOUT, NEW e, e.key \in Nat, NEW t, IsPlace(nd, t, e.key),
           NEW nd2, Holds(nd2, Wide(nd, t, e), 0, nd.numKeys + 1),
           nd2.isLeaf = nd.isLeaf, nd2.FirstLeaf = nd.FirstLeaf, nd2.LastLeaf = nd.LastLeaf
    PROVE  /\ NodeRight(nd2) /\ NodeEntries(nd2) = NodeEntries(nd) \cup {e}
           /\ NodeKeys(nd2) = NodeKeys(nd) \cup {e.key}
<1>1. nd.numKeys \in Nat /\ nd.numKeys \in 0 .. FANOUT /\ t \in 0 .. nd.numKeys
  BY FanoutIs DEF NodeRight, HasKeys, IsPlace
<1>2. PICK n \in Nat, w \in {Wide(nd, t, e)} : n = nd.numKeys /\ w = Wide(nd, t, e)
  BY <1>1
<1>3. Increasing(w, n + 1)
  BY <1>2, WideIncreases DEF NodeRight
<1>4. nd2.numKeys = n + 1 /\ \A i \in 0 .. n : nd2.entries[i] = w[i]
  BY <1>2 DEF Holds
<1>5. HasKeys(nd2) /\ Sorted(nd2)
  BY <1>2, <1>3, <1>4 DEF HasKeys, Sorted, Increasing
<1>6. /\ w[t] = e
      /\ \A i \in 0 .. t - 1 : w[i] = nd.entries[i]
      /\ \A i \in t + 1 .. n : w[i] = nd.entries[i - 1]
  BY <1>1, <1>2, WideIs
<1>7. NodeEntries(nd2) \subseteq NodeEntries(nd) \cup {e}
  <2>1. ASSUME NEW i \in 0 .. n PROVE w[i] \in NodeEntries(nd) \cup {e}
    <3>1. CASE i < t
      BY <1>1, <1>2, <1>6, <3>1 DEF NodeEntries
    <3>2. CASE i = t
      BY <1>6, <3>2
    <3>3. CASE i > t
      <4>1. i - 1 \in 0 .. n - 1 /\ w[i] = nd.entries[i - 1]
        BY <1>1, <1>2, <1>6, <3>3
      <4> QED
        BY <1>2, <4>1 DEF NodeEntries
    <3> QED
      BY <1>1, <1>2, <3>1, <3>2, <3>3
  <2> QED
    BY <1>2, <1>4, <2>1 DEF NodeEntries
<1>8. NodeEntries(nd) \cup {e} \subseteq NodeEntries(nd2)
  <2>1. e \in NodeEntries(nd2)
    BY <1>1, <1>2, <1>4, <1>6 DEF NodeEntries
  <2>2. ASSUME NEW i \in 0 .. n - 1 PROVE nd.entries[i] \in NodeEntries(nd2)
    <3>1. CASE i < t
      BY <1>1, <1>2, <1>4, <1>6, <3>1 DEF NodeEntries
    <3>2. CASE i >= t
      <4>1. i + 1 \in t + 1 .. n /\ (i + 1) - 1 = i /\ i + 1 \in 0 .. n
        BY <1>1, <1>2, <3>2
      <4>2. nd2.entries[i + 1] = nd.entries[i]
        BY <1>4, <1>6, <4>1
      <4>3. i + 1 \in 0 .. nd2.numKeys - 1
        BY <1>4, <4>1
      <4> QED
        BY <4>2, <4>3 DEF NodeEntries
    <3> QED
      BY <1>1, <1>2, <3>1, <3>2
  <2> QED
    BY <1>2, <2>1, <2>2 DEF NodeEntries
<1>9. NodeEntries(nd2) = NodeEntries(nd) \cup {e}
  BY <1>7, <1>8
<1>10. NodeKeys(nd2) = NodeKeys(nd) \cup {e.key}
  BY <1>9, EntryKeys
<1> QED
  BY <1>2, <1>4, <1>5, <1>9, <1>10 DEF NodeRight

LEMMA OneSlot ==
    ASSUME NEW node, NEW root, NEW depth, NEW reg, NEW lev, NEW full, NEW orphans,
           Tree(node, root, depth, reg, lev, full, orphans),
           NEW m \in DOMAIN node, NEW n \in DOMAIN node, lev[m] = lev[n],
           NEW i \in Kids(node[m]), NEW j \in Kids(node[n]), NEW k \in Int,
           k \in Piece(node[m], reg[m], i), k \in Piece(node[n], reg[n], j)
    PROVE  m = n /\ i = j
<1>1. m = n
  BY DEF Tree, RegionsApart, Piece
<1>2. HasKeys(node[m]) /\ Sorted(node[m])
  BY DEF Tree, NodeRight
<1>3. i = j
  BY <1>1, <1>2, OnePlace DEF Piece, Kids
<1> QED
  BY <1>1, <1>3

\* The second half of a split is nowhere yet; the first is where the node was.
LEMMA PendingParent ==
    ASSUME NEW node, NEW root, NEW depth, NEW reg, NEW lev, NEW x, NEW y, NEW key,
           Pending(node, root, depth, reg, lev, x, y, key),
           NEW p \in DOMAIN node, ~node[p].isLeaf, NEW i \in Kids(node[p]), Child(node[p], i) = x
    PROVE  /\ IsPlace(node[p], i + 1, key)
           /\ key \in reg[p]
           /\ reg[x] = {k \in Piece(node[p], reg[p], i) : k < key}
           /\ reg[y] = {k \in Piece(node[p], reg[p], i) : key <= k}
           /\ lev[x] = lev[p] + 1
           /\ \A m \in DOMAIN node : ~node[m].isLeaf => \A j \in Kids(node[m]) :
                 /\ Child(node[m], j) # y
                 /\ Child(node[m], j) = x => m = p /\ j = i
<1> DEFINE full == Joined(reg, x, y)
           nd   == node[p]
           S    == Piece(nd, reg[p], i)
<1>1. /\ Tree(node, root, depth, reg, lev, full, {root, y}) /\ x # y /\ lev[x] = lev[y] /\ key \in Nat /\ key \in reg[y]
      /\ x \in DOMAIN node /\ y \in DOMAIN node
      /\ \A k \in reg[x] : k < key
      /\ \A k \in reg[y] : key <= k
  BY DEF Pending
<1>2. full[x] = reg[x] \cup reg[y] /\ \A n \in DOMAIN node : n # x => full[n] = reg[n]
  BY DEF Pending, Joined
<1> HIDE DEF full
<1>3. /\ reg[x] \subseteq Int /\ reg[y] \subseteq Int /\ reg[x] # {}
      /\ NodeRight(nd) /\ lev[p] \in Int /\ lev[x] = lev[p] + 1
      /\ \A m \in DOMAIN node : lev[m] \in Int
  BY <1>1 DEF Tree, Placed, Parts
<1>4. full[x] = S
  BY <1>1 DEF Tree, Parts
<1>5. S = reg[x] \cup reg[y]
  BY <1>2, <1>4
<1>6. reg[x] = {k \in S : k < key} /\ reg[y] = {k \in S : key <= k}
  BY <1>1, <1>3, <1>5
<1>7. key \in S /\ key \in reg[p]
  BY <1>1, <1>5 DEF Piece
<1>8. IsPlace(nd, i + 1, key)
  <2>1. nd.numKeys \in Nat /\ \A j \in 0 .. nd.numKeys - 1 : nd.entries[j].key \in Nat
    BY <1>3 DEF NodeRight, HasKeys
  <2>2. i + 1 \in 0 .. nd.numKeys
    BY <2>1 DEF Kids
  <2>3. i + 1 < nd.numKeys => key < nd.entries[i + 1].key
    BY <1>7, <2>1 DEF Piece, Between, Kids
  <2>4. ASSUME NEW j \in 0 .. (i + 1) - 1 PROVE nd.entries[j].key < key
    <3>1. PICK k \in reg[x] : k \in Int /\ k < key
      BY <1>1, <1>3
    <3>2. k \in S
      BY <1>5
    <3>3. i # -1 /\ i \in 0 .. nd.numKeys - 1 /\ j \in 0 .. nd.numKeys - 1 /\ j <= i
      BY <2>1, <2>2, <2>4 DEF Kids
    <3>4. nd.entries[i].key <= k
      BY <3>2, <3>3 DEF Piece, Between
    <3>5. nd.entries[j].key <= nd.entries[i].key
      BY <1>3, <2>1, <3>3 DEF NodeRight, Sorted
    <3> QED
      BY <1>1, <2>1, <3>1, <3>3, <3>4, <3>5
  <2> QED
    BY <2>2, <2>3, <2>4 DEF IsPlace
<1>9. ASSUME NEW m \in DOMAIN node, ~node[m].isLeaf, NEW j \in Kids(node[m]),
             Child(node[m], j) = x \/ Child(node[m], j) = y
      PROVE  m = p /\ j = i
  <2>1. PICK c : c = Child(node[m], j) /\ (c = x \/ c = y)
    BY <1>9
  <2>2. lev[c] = lev[m] + 1 /\ full[c] = Piece(node[m], reg[m], j)
    BY <1>1, <1>9, <2>1 DEF Tree, Parts
  <2>3. key \in full[c]
    BY <1>1, <1>2, <2>1
  <2>4. lev[c] = lev[p] + 1
    BY <1>1, <1>3, <2>1
  <2>5. lev[m] \in Int /\ lev[p] \in Int
    BY <1>3
  <2>6. lev[m] = lev[p]
    BY <2>2, <2>4, <2>5
  <2> QED
    BY <1>1, <1>7, <2>2, <2>3, <2>6, OneSlot
<1>10. ASSUME NEW m \in DOMAIN node, ~node[m].isLeaf, NEW j \in Kids(node[m]), Child(node[m], j) = y
       PROVE  FALSE
  BY <1>1, <1>9, <1>10
<1> QED
  BY <1>3, <1>6, <1>7, <1>8, <1>9, <1>10

\* What a second child cuts off from the piece of its neighbour, and no other.
LEMMA WidePieces ==
    ASSUME NEW nd, HasKeys(nd), nd.numKeys <= FANOUT, NEW e, e.key \in Nat, NEW i \in Kids(nd),
           IsPlace(nd, i + 1, e.key), NEW nd2, Holds(nd2, Wide(nd, i + 1, e), 0, nd.numKeys + 1),
           nd2.ptr0 = nd.ptr0, NEW S, S \subseteq Int
    PROVE  /\ \A j \in Kids(nd) : j < i => Child(nd2, j) = Child(nd, j) /\ Piece(nd2, S, j) = Piece(nd, S, j)
           /\ Child(nd2, i) = Child(nd, i) /\ Piece(nd2, S, i) = {k \in Piece(nd, S, i) : k < e.key}
           /\ Child(nd2, i + 1) = e.ptr /\ Piece(nd2, S, i + 1) = {k \in Piece(nd, S, i) : e.key <= k}
           /\ \A j \in Kids(nd) : j > i =>
                 Child(nd2, j + 1) = Child(nd, j) /\ Piece(nd2, S, j + 1) = Piece(nd, S, j)
<1>1. nd.numKeys \in Nat /\ nd.numKeys \in 0 .. FANOUT
  BY FanoutIs DEF HasKeys
<1>2. PICK n \in Nat, a \in {nd.entries}, b \in {nd2.entries}, q \in {e.key} :
         n = nd.numKeys /\ a = nd.entries /\ b = nd2.entries /\ q = e.key
  BY <1>1
<1>3. i \in -1 .. n - 1 /\ i + 1 \in 0 .. n /\ q \in Nat
  BY <1>2 DEF Kids
<1>4. /\ Wide(nd, i + 1, e)[i + 1] = e
      /\ \A j \in 0 .. (i + 1) - 1 : Wide(nd, i + 1, e)[j] = nd.entries[j]
      /\ \A j \in (i + 1) + 1 .. nd.numKeys : Wide(nd, i + 1, e)[j] = nd.entries[j - 1]
  <2>1. PICK t \in Int : t = i + 1
    BY <1>3
  <2>2. t \in 0 .. nd.numKeys
    BY <1>2, <1>3, <2>1
  <2>3. /\ Wide(nd, t, e)[t] = e
        /\ \A j \in 0 .. t - 1 : Wide(nd, t, e)[j] = nd.entries[j]
        /\ \A j \in t + 1 .. nd.numKeys : Wide(nd, t, e)[j] = nd.entries[j - 1]
    BY <1>1, <2>2, WideIs
  <2> QED
    BY <2>1, <2>3
<1>5. \A j \in 0 .. (n + 1) - 1 : nd2.entries[j] = Wide(nd, i + 1, e)[0 + j]
  BY <1>2 DEF Holds
<1>6. \A j \in 0 .. n : j \in 0 .. (n + 1) - 1 /\ 0 + j = j
  BY <1>3
<1>7. /\ b[i + 1] = e
      /\ \A j \in 0 .. i : b[j] = a[j]
      /\ \A j \in i + 2 .. n : b[j] = a[j - 1]
  <2>1. b[i + 1] = e
    BY <1>2, <1>3, <1>4, <1>5, <1>6
  <2>2. ASSUME NEW j \in 0 .. i PROVE b[j] = a[j]
    <3>1. j \in 0 .. n /\ j \in 0 .. (i + 1) - 1
      BY <1>3
    <3> QED
      BY <1>2, <1>4, <1>5, <1>6, <3>1
  <2>3. ASSUME NEW j \in i + 2 .. n PROVE b[j] = a[j - 1]
    <3>1. j \in 0 .. n /\ j \in (i + 1) + 1 .. nd.numKeys
      BY <1>2, <1>3
    <3> QED
      BY <1>2, <1>4, <1>5, <1>6, <3>1
  <2> QED
    BY <2>1, <2>2, <2>3
<1>8. /\ nd2.numKeys = n + 1
      /\ \A j \in 0 .. n - 1 : a[j].key \in Nat
      /\ \A j \in 0 .. i : a[j].key < q
      /\ i + 1 < n => q < a[i + 1].key
  BY <1>2, <1>3 DEF Holds, HasKeys, IsPlace
<1>9. ASSUME NEW j \in -1 .. n - 1, j < i PROVE Child(nd2, j) = Child(nd, j) /\ Piece(nd2, S, j) = Piece(nd, S, j)
  <2>1. j # -1 => b[j] = a[j]
    BY <1>3, <1>7, <1>9
  <2>2. j + 1 \in 0 .. i /\ j < n - 1 /\ j < nd2.numKeys - 1
    BY <1>3, <1>8, <1>9
  <2>3. b[j + 1] = a[j + 1]
    BY <1>7, <2>2
  <2>4. \A k \in S : Between(nd2, j, k) <=> Between(nd, j, k)
    BY <1>2, <2>1, <2>2, <2>3 DEF Between
  <2> QED
    BY <1>2, <2>1, <2>4 DEF Child, Piece
<1>10. Child(nd2, i) = Child(nd, i) /\ Piece(nd2, S, i) = {k \in Piece(nd, S, i) : k < q}
  <2>1. i # -1 => b[i] = a[i]
    BY <1>3, <1>7
  <2>2. i < nd2.numKeys - 1 /\ b[i + 1].key = q
    BY <1>2, <1>3, <1>7, <1>8
  <2>3. i < n - 1 => i + 1 < n /\ i + 1 \in 0 .. n - 1
    BY <1>3
  <2>4. \A k \in S : Between(nd2, i, k) <=> Between(nd, i, k) /\ k < q
    BY <1>2, <1>3, <1>8, <2>1, <2>2, <2>3 DEF Between
  <2> QED
    BY <1>2, <2>1, <2>4 DEF Child, Piece
<1>11. Child(nd2, i + 1) = e.ptr /\ Piece(nd2, S, i + 1) = {k \in Piece(nd, S, i) : q <= k}
  <2>1. i + 1 # -1 /\ b[i + 1] = e
    BY <1>3, <1>7
  <2>2. i + 1 < nd2.numKeys - 1 => i < n - 1 /\ b[(i + 1) + 1] = a[i + 1]
    <3>1. ASSUME i + 1 < nd2.numKeys - 1 PROVE i < n - 1 /\ b[(i + 1) + 1] = a[i + 1]
      <4>1. i < n - 1 /\ i + 2 \in i + 2 .. n /\ (i + 1) + 1 = i + 2 /\ (i + 2) - 1 = i + 1
        BY <1>3, <1>8, <3>1
      <4> QED
        BY <1>7, <4>1
    <3> QED
      BY <3>1
  <2>3. i < n - 1 => i + 1 < nd2.numKeys - 1
    BY <1>3, <1>8
  <2>4. i # -1 => i \in 0 .. i /\ i \in 0 .. n - 1
    BY <1>3
  <2>5. ASSUME NEW k \in S PROVE Between(nd2, i + 1, k) <=> Between(nd, i, k) /\ q <= k
    <3>1. i # -1 /\ q <= k => a[i].key <= k
      <4>1. i # -1 => a[i].key \in Nat /\ a[i].key < q
        BY <1>8, <2>4
      <4> QED
        BY <1>3, <4>1
    <3> QED
      BY <1>2, <2>1, <2>2, <2>3, <3>1 DEF Between
  <2> QED
    BY <1>2, <2>1, <2>5 DEF Child, Piece
<1>12. ASSUME NEW j \in -1 .. n - 1, j > i PROVE Child(nd2, j + 1) = Child(nd, j) /\ Piece(nd2, S, j + 1) = Piece(nd, S, j)
  <2>1. j # -1 /\ j + 1 # -1 /\ j + 1 \in i + 2 .. n /\ (j + 1) - 1 = j
    BY <1>3, <1>12
  <2>2. b[j + 1] = a[j]
    BY <1>7, <2>1
  <2>3. j + 1 < nd2.numKeys - 1 <=> j < n - 1
    BY <1>8
  <2>4. j < n - 1 => b[(j + 1) + 1] = a[j + 1]
    <3>1. ASSUME j < n - 1 PROVE b[(j + 1) + 1] = a[j + 1]
      <4>1. (j + 1) + 1 \in i + 2 .. n /\ ((j + 1) + 1) - 1 = j + 1
        BY <1>3, <1>12, <3>1
      <4> QED
        BY <1>7, <4>1
    <3> QED
      BY <3>1
  <2>5. \A k \in S : Between(nd2, j + 1, k) <=> Between(nd, j, k)
    BY <1>2, <2>1, <2>2, <2>3, <2>4 DEF Between
  <2> QED
    BY <1>2, <2>1, <2>2, <2>5 DEF Child, Piece
<1> QED
  BY <1>2, <1>9, <1>10, <1>11, <1>12 DEF Kids

\* The parent of a node that has been split gets the second half.
LEMMA InternChange ==
    ASSUME NEW node, NEW root, NEW depth, NEW reg, NEW lev, NEW x, NEW y, NEW e,
           Pending(node, root, depth, reg, lev, x, y, e.key), e.ptr = y,
           NEW p \in DOMAIN node, ~node[p].isLeaf, NEW i \in Kids(node[p]), Child(node[p], i) = x,
           node[p].numKeys <= FANOUT,
           NEW nd, Holds(nd, Wide(node[p], i + 1, e), 0, node[p].numKeys + 1),
           nd.isLeaf = node[p].isLeaf, nd.FirstLeaf = node[p].FirstLeaf, nd.LastLeaf = node[p].LastLeaf,
           nd.ptr0 = node[p].ptr0, NEW node2, node2 = [node EXCEPT ![p] = nd]
    PROVE  Whole(node2, root, depth, reg, lev)
<1> DEFINE full == Joined(reg, x, y)
<1>1. DOMAIN node2 = DOMAIN node /\ node2[p] = nd /\ \A m \in DOMAIN node : m # p => node2[m] = node[m]
  OBVIOUS
<1>2. /\ Tree(node, root, depth, reg, lev, full, {root, y}) /\ x # y /\ lev[x] = lev[y] /\ e.key \in Nat
      /\ x \in DOMAIN node /\ y \in DOMAIN node /\ y # root
  BY DEF Pending
<1>3. \A m \in DOMAIN node : m # x => full[m] = reg[m]
  BY DEF Pending, Joined
<1> HIDE DEF full
<1>4. /\ IsPlace(node[p], i + 1, e.key)
      /\ e.key \in reg[p]
      /\ reg[x] = {k \in Piece(node[p], reg[p], i) : k < e.key}
      /\ reg[y] = {k \in Piece(node[p], reg[p], i) : e.key <= k}
      /\ lev[x] = lev[p] + 1
      /\ \A m \in DOMAIN node : ~node[m].isLeaf => \A j \in Kids(node[m]) :
            /\ Child(node[m], j) # y
            /\ Child(node[m], j) = x => m = p /\ j = i
  <2>1. PICK key \in Nat : key = e.key
    BY <1>2
  <2>2. Pending(node, root, depth, reg, lev, x, y, key)
    BY <2>1
  <2> QED
    BY <2>1, <2>2, PendingParent
<1>5. NodeRight(node[p]) /\ HasKeys(node[p]) /\ reg[p] \subseteq Int /\ Placed(node, depth, reg, lev, p)
  BY <1>2 DEF Tree, NodeRight, Placed
<1>6. PICK n \in Nat : n = node[p].numKeys /\ nd.numKeys = n + 1
  BY <1>5 DEF HasKeys, Holds
<1>7. NodeRight(nd) /\ NodeKeys(nd) = NodeKeys(node[p]) \cup {e.key}
  <2>1. PICK t \in Int : t = i + 1
    BY DEF Kids
  <2>2. IsPlace(node[p], t, e.key) /\ Holds(nd, Wide(node[p], t, e), 0, node[p].numKeys + 1)
    BY <1>4, <2>1
  <2> QED
    BY <1>2, <1>5, <2>2, WideNode
<1>8. /\ \A j \in Kids(node[p]) : j < i => Child(nd, j) = Child(node[p], j) /\ Piece(nd, reg[p], j) = Piece(node[p], reg[p], j)
      /\ Child(nd, i) = Child(node[p], i) /\ Piece(nd, reg[p], i) = {k \in Piece(node[p], reg[p], i) : k < e.key}
      /\ Child(nd, i + 1) = e.ptr /\ Piece(nd, reg[p], i + 1) = {k \in Piece(node[p], reg[p], i) : e.key <= k}
      /\ \A j \in Kids(node[p]) : j > i =>
            Child(nd, j + 1) = Child(node[p], j) /\ Piece(nd, reg[p], j + 1) = Piece(node[p], reg[p], j)
  BY <1>2, <1>4, <1>5, WidePieces
<1>9. \A m \in DOMAIN node : NodeRight(node2[m]) /\ Placed(node2, depth, reg, lev, m)
  <2>1. Placed(node2, depth, reg, lev, p)
    BY <1>1, <1>4, <1>5, <1>7 DEF Placed
  <2>2. ASSUME NEW m \in DOMAIN node, m # p PROVE NodeRight(node2[m]) /\ Placed(node2, depth, reg, lev, m)
    BY <1>1, <1>2, <2>2 DEF Tree, Placed
  <2> QED
    BY <1>1, <1>7, <2>1, <2>2
<1>10. ASSUME NEW m \in DOMAIN node, ~node[m].isLeaf, NEW j \in Kids(node[m]), m # p \/ j # i,
              NEW c, c = Child(node[m], j)
       PROVE  c \in DOMAIN node /\ lev[c] = lev[m] + 1 /\ reg[c] = Piece(node[m], reg[m], j)
  <2>1. c \in DOMAIN node /\ lev[c] = lev[m] + 1 /\ full[c] = Piece(node[m], reg[m], j)
    BY <1>2, <1>10 DEF Tree, Parts
  <2>2. c # x
    BY <1>4, <1>10
  <2> QED
    BY <1>3, <2>1, <2>2
<1>11. ASSUME NEW j \in Kids(nd), NEW c, c = Child(nd, j)
       PROVE  c \in DOMAIN node /\ lev[c] = lev[p] + 1 /\ reg[c] = Piece(nd, reg[p], j)
  <2>1. j \in -1 .. n /\ i \in -1 .. n - 1
    BY <1>6 DEF Kids
  <2>2. CASE j < i
    <3>1. j \in Kids(node[p])
      BY <1>6, <2>1, <2>2 DEF Kids
    <3> QED
      BY <1>8, <1>10, <1>11, <2>1, <2>2, <3>1
  <2>3. CASE j = i
    BY <1>2, <1>4, <1>8, <1>11, <2>3
  <2>4. CASE j = i + 1
    BY <1>2, <1>4, <1>8, <1>11, <2>4
  <2>5. CASE j > i + 1
    <3>1. PICK h \in Int : h = j - 1
      BY <2>1
    <3>2. h \in Kids(node[p]) /\ h > i /\ j = h + 1
      BY <1>6, <2>1, <2>5, <3>1 DEF Kids
    <3>3. Child(nd, h + 1) = Child(node[p], h) /\ Piece(nd, reg[p], h + 1) = Piece(node[p], reg[p], h)
      BY <1>8, <3>2
    <3>4. c = Child(node[p], h) /\ h # i
      BY <1>11, <2>1, <3>2, <3>3
    <3>5. c \in DOMAIN node /\ lev[c] = lev[p] + 1 /\ reg[c] = Piece(node[p], reg[p], h)
      BY <1>10, <3>2, <3>4
    <3> QED
      BY <3>2, <3>3, <3>5
  <2> QED
    BY <2>1, <2>2, <2>3, <2>4, <2>5
<1>12. \A m \in DOMAIN node : Parts(node2, reg, lev, reg, m)
  <2>1. ASSUME NEW m \in DOMAIN node, m # p PROVE Parts(node2, reg, lev, reg, m)
    BY <1>1, <1>10, <2>1 DEF Parts
  <2>2. Parts(node2, reg, lev, reg, p)
    BY <1>1, <1>11 DEF Parts
  <2> QED
    BY <2>1, <2>2
<1>13. ASSUME NEW k \in DOMAIN node \ {root} PROVE \E m \in DOMAIN node : IsChild(node2, m, k)
  <2>1. CASE k = y
    <3>1. i + 1 \in Kids(nd)
      BY <1>6 DEF Kids
    <3>2. IsChild(node2, p, y)
      BY <1>1, <1>8, <3>1 DEF IsChild
    <3> QED
      BY <2>1, <3>2
  <2>2. CASE k # y
    <3>1. PICK m \in DOMAIN node : IsChild(node, m, k)
      BY <1>2, <2>2 DEF Tree
    <3>2. PICK j \in Kids(node[m]) : Child(node[m], j) = k /\ ~node[m].isLeaf
      BY <3>1 DEF IsChild
    <3>3. CASE m # p
      BY <1>1, <3>1, <3>3 DEF IsChild
    <3>4. CASE m = p
      <4>1. j \in -1 .. n - 1 /\ i \in -1 .. n - 1 /\ j \in Kids(node[p])
        BY <1>6, <3>4 DEF Kids
      <4>2. \E h \in Kids(nd) : Child(nd, h) = k
        <5>1. CASE j < i
          <6>1. j \in Kids(nd)
            BY <1>6, <4>1 DEF Kids
          <6> QED
            BY <1>8, <3>2, <3>4, <4>1, <5>1, <6>1
        <5>2. CASE j = i
          <6>1. j \in Kids(nd)
            BY <1>6, <4>1 DEF Kids
          <6> QED
            BY <1>8, <3>2, <3>4, <5>2, <6>1
        <5>3. CASE j > i
          <6>1. j + 1 \in Kids(nd)
            BY <1>6, <4>1 DEF Kids
          <6> QED
            BY <1>8, <3>2, <3>4, <4>1, <5>3, <6>1
        <5> QED
          BY <4>1, <5>1, <5>2, <5>3
      <4>3. IsChild(node2, p, k)
        BY <1>1, <4>2 DEF IsChild
      <4> QED
        BY <4>3
    <3> QED
      BY <3>3, <3>4
  <2> QED
    BY <2>1, <2>2
<1>14. Tree(node2, root, depth, reg, lev, reg, {root})
  <2>1. root \in DOMAIN node2 /\ lev[root] = 0 /\ reg[root] = Int /\ depth \in Nat
    <3>1. root # x
      <4>1. lev[p] \in Nat /\ lev[root] = 0
        BY <1>2 DEF Tree, Placed
      <4> QED
        BY <1>4, <4>1
    <3>2. full[root] = Int /\ root \in DOMAIN node /\ lev[root] = 0 /\ depth \in Nat
      BY <1>2 DEF Tree
    <3> QED
      BY <1>1, <1>3, <3>1, <3>2
  <2>2. RegionsApart(DOMAIN node2, reg, lev)
    BY <1>1, <1>2 DEF Tree
  <2> QED
    BY <1>1, <1>9, <1>12, <1>13, <2>1, <2>2 DEF Tree
<1> QED
  BY <1>14 DEF Whole

\* A node n split in two, the second of which is y.
Halved(node, n, left, y, right) ==
    [m \in DOMAIN node \cup {y} |-> IF m = y THEN right ELSE IF m = n THEN left ELSE node[m]]

\* Its region is split at the key.
HalvedRegion(node, reg, n, y, key) ==
    [m \in DOMAIN node \cup {y} |-> IF m = y THEN {k \in reg[n] : key <= k}
                                    ELSE IF m = n THEN {k \in reg[n] : k < key} ELSE reg[m]]

HalvedLevel(node, lev, n, y) == [m \in DOMAIN node \cup {y} |-> IF m = y THEN lev[n] ELSE lev[m]]

\* The entries of a node divided over two, c in all, the key at m separating them.
Division(nd, m, left, right) ==
    LET c == nd.numKeys
        s == IF nd.isLeaf THEN m ELSE m + 1
    IN  /\ m \in 1 .. c - 1 /\ s \in 1 .. c - 1
        /\ Holds(left, nd.entries, 0, m) /\ Holds(right, nd.entries, s, c - s)
        /\ left.isLeaf = nd.isLeaf /\ right.isLeaf = nd.isLeaf
        /\ left.FirstLeaf = nd.FirstLeaf /\ left.LastLeaf = FALSE
        /\ right.FirstLeaf = FALSE /\ right.LastLeaf = nd.LastLeaf
        /\ left.ptr0 = nd.ptr0 /\ (~nd.isLeaf => right.ptr0 = nd.entries[m].ptr)

LEMMA DividedKeys ==
    ASSUME NEW nd, NodeRight(nd), NEW m \in Int, NEW left, NEW right, Division(nd, m, left, right)
    PROVE  /\ NodeRight(left) /\ NodeRight(right)
           /\ nd.entries[m].key \in NodeKeys(nd)
           /\ NodeKeys(left) \subseteq {k \in NodeKeys(nd) : k < nd.entries[m].key}
           /\ NodeKeys(right) \subseteq {k \in NodeKeys(nd) : nd.entries[m].key <= k}
           /\ nd.entries[0].key \in NodeKeys(left)
           /\ nd.isLeaf => NodeEntries(left) \cup NodeEntries(right) = NodeEntries(nd)
<1>1. PICK c \in Nat, s \in Nat, a \in {nd.entries} :
         /\ c = nd.numKeys /\ s = (IF nd.isLeaf THEN m ELSE m + 1) /\ a = nd.entries
         /\ m \in 1 .. c - 1 /\ s \in 1 .. c - 1
  <2>1. nd.numKeys \in Nat
    BY DEF NodeRight, HasKeys
  <2>2. (IF nd.isLeaf THEN m ELSE m + 1) \in 1 .. nd.numKeys - 1 /\ m \in 1 .. nd.numKeys - 1
    BY DEF Division
  <2>3. PICK s \in Nat : s = IF nd.isLeaf THEN m ELSE m + 1
    BY <2>1, <2>2
  <2> QED
    BY <2>1, <2>2, <2>3
<1>2. /\ left.numKeys = m /\ \A i \in 0 .. m - 1 : left.entries[i] = a[0 + i]
      /\ right.numKeys = c - s /\ \A i \in 0 .. (c - s) - 1 : right.entries[i] = a[s + i]
      /\ left.isLeaf = nd.isLeaf /\ right.isLeaf = nd.isLeaf
      /\ left.FirstLeaf = nd.FirstLeaf /\ left.LastLeaf = FALSE
      /\ right.FirstLeaf = FALSE /\ right.LastLeaf = nd.LastLeaf
  BY <1>1 DEF Division, Holds
<1>3. /\ \A i \in 0 .. c - 1 : a[i].key \in Nat
      /\ \A i, j \in 0 .. c - 1 : i < j => a[i].key < a[j].key
      /\ nd.isLeaf \in BOOLEAN /\ nd.FirstLeaf \in BOOLEAN /\ nd.LastLeaf \in BOOLEAN
  BY <1>1 DEF NodeRight, HasKeys, Sorted
<1>4. \A i \in 0 .. m - 1 : left.entries[i] = a[i] /\ i \in 0 .. c - 1
  BY <1>1, <1>2
<1>5. \A i \in 0 .. (c - s) - 1 : right.entries[i] = a[s + i] /\ s + i \in 0 .. c - 1 /\ m <= s + i
  BY <1>1, <1>2
<1>6. NodeRight(left)
  <2>1. HasKeys(left)
    BY <1>1, <1>2, <1>3, <1>4 DEF HasKeys
  <2>2. Sorted(left)
    BY <1>1, <1>2, <1>3, <1>4 DEF Sorted
  <2>3. left.numKeys >= 1
    BY <1>1, <1>2
  <2> QED
    BY <1>2, <1>3, <2>1, <2>2, <2>3 DEF NodeRight
<1>7. NodeRight(right)
  <2>1. HasKeys(right)
    BY <1>1, <1>2, <1>3, <1>5 DEF HasKeys
  <2>2. Sorted(right)
    <3>1. ASSUME NEW i \in 0 .. (c - s) - 1, NEW j \in 0 .. (c - s) - 1, i < j
          PROVE  right.entries[i].key < right.entries[j].key
      <4>1. s + i < s + j
        BY <1>1, <3>1
      <4> QED
        BY <1>3, <1>5, <4>1
    <3> QED
      BY <1>2, <3>1 DEF Sorted
  <2>3. right.numKeys >= 1
    BY <1>1, <1>2
  <2> QED
    BY <1>1, <1>2, <1>3, <2>1, <2>2, <2>3 DEF NodeRight
<1>8. m \in 0 .. c - 1 /\ 0 \in 0 .. m - 1
  BY <1>1
<1>9. \A i \in 0 .. c - 1 : a[i].key \in NodeKeys(nd)
  BY <1>1 DEF NodeKeys
<1>10. NodeKeys(left) \subseteq {k \in NodeKeys(nd) : k < nd.entries[m].key}
  <2>1. \A i \in 0 .. m - 1 : a[i].key < a[m].key
    BY <1>1, <1>3, <1>4, <1>8
  <2> QED
    BY <1>1, <1>2, <1>4, <1>9, <2>1 DEF NodeKeys
<1>11. NodeKeys(right) \subseteq {k \in NodeKeys(nd) : nd.entries[m].key <= k}
  <2>1. ASSUME NEW i \in 0 .. (c - s) - 1 PROVE a[m].key <= a[s + i].key
    <3>1. a[m].key \in Nat /\ a[s + i].key \in Nat
      BY <1>3, <1>5, <1>8
    <3>2. m < s + i => a[m].key < a[s + i].key
      BY <1>3, <1>5, <1>8
    <3> QED
      BY <1>5, <3>1, <3>2
  <2> QED
    BY <1>1, <1>2, <1>5, <1>9, <2>1 DEF NodeKeys
<1>12. nd.entries[0].key \in NodeKeys(left)
  BY <1>1, <1>2, <1>4, <1>8 DEF NodeKeys
<1>13. ASSUME nd.isLeaf PROVE NodeEntries(nd) \subseteq NodeEntries(left) \cup NodeEntries(right)
  <2>1. ASSUME NEW i \in 0 .. c - 1 PROVE a[i] \in NodeEntries(left) \cup NodeEntries(right)
    <3>1. CASE i < m
      <4>1. i \in 0 .. m - 1
        BY <3>1
      <4> QED
        BY <1>2, <1>4, <4>1 DEF NodeEntries
    <3>2. CASE i >= m
      <4>1. i - m \in 0 .. (c - s) - 1 /\ s + (i - m) = i
        BY <1>1, <1>13, <3>2
      <4>2. right.entries[i - m] = a[i]
        BY <1>5, <4>1
      <4> QED
        BY <1>2, <4>1, <4>2 DEF NodeEntries
    <3> QED
      BY <1>1, <3>1, <3>2
  <2> QED
    BY <1>1, <2>1 DEF NodeEntries
<1>14. NodeEntries(left) \subseteq NodeEntries(nd)
  BY <1>1, <1>2, <1>4 DEF NodeEntries
<1>15. NodeEntries(right) \subseteq NodeEntries(nd)
  BY <1>1, <1>2, <1>5 DEF NodeEntries
<1>16. nd.isLeaf => NodeEntries(left) \cup NodeEntries(right) = NodeEntries(nd)
  BY <1>13, <1>14, <1>15
<1> QED
  BY <1>1, <1>6, <1>7, <1>8, <1>9, <1>10, <1>11, <1>12, <1>16

\* The children of an intern node are divided with it; the middle one goes to the second half.
KidsDivided(nd, m, left, right, S, key) ==
    /\ \A j \in Kids(left) : /\ j \in Kids(nd) /\ j < m /\ Child(left, j) = Child(nd, j)
                             /\ Piece(left, {k \in S : k < key}, j) = Piece(nd, S, j)
    /\ \A j \in Kids(right) : /\ m + 1 + j \in Kids(nd) /\ Child(right, j) = Child(nd, m + 1 + j)
                              /\ Piece(right, {k \in S : key <= k}, j) = Piece(nd, S, m + 1 + j)
    /\ \A j \in Kids(nd) : j < m => j \in Kids(left)
    /\ \A j \in Kids(nd) : j >= m => j - (m + 1) \in Kids(right) /\ m + 1 + (j - (m + 1)) = j

LEMMA DividedPieces ==
    ASSUME NEW nd, NodeRight(nd), ~nd.isLeaf, NEW m \in Int, NEW left, NEW right, Division(nd, m, left, right),
           NEW S, S \subseteq Int, NEW key, key = nd.entries[m].key
    PROVE  KidsDivided(nd, m, left, right, S, key)
<1>1. PICK c \in Nat, a \in {nd.entries} :
         c = nd.numKeys /\ a = nd.entries /\ m \in 1 .. c - 1 /\ m + 1 \in 1 .. c - 1
  BY DEF NodeRight, HasKeys, Division
<1>2. /\ left.numKeys = m /\ \A i \in 0 .. m - 1 : left.entries[i] = a[0 + i]
      /\ right.numKeys = c - (m + 1) /\ \A i \in 0 .. (c - (m + 1)) - 1 : right.entries[i] = a[m + 1 + i]
      /\ left.ptr0 = nd.ptr0 /\ right.ptr0 = a[m].ptr
  BY <1>1 DEF Division, Holds
<1>3. /\ \A i \in 0 .. c - 1 : a[i].key \in Nat
      /\ \A i, j \in 0 .. c - 1 : i < j => a[i].key < a[j].key
  BY <1>1 DEF NodeRight, HasKeys, Sorted
<1>4. PICK b \in {left.entries}, d \in {right.entries} : b = left.entries /\ d = right.entries
  OBVIOUS
<1>5. \A i \in 0 .. m - 1 : b[i] = a[i] /\ i \in 0 .. c - 1
  BY <1>1, <1>2, <1>4
<1>6. \A i \in 0 .. c - m - 2 : d[i] = a[m + 1 + i] /\ m + 1 + i \in 0 .. c - 1
  BY <1>1, <1>2, <1>4
<1>7. m \in 0 .. c - 1 /\ key = a[m].key /\ key \in Nat
  BY <1>1, <1>3
<1>8. ASSUME NEW j \in -1 .. m - 1
      PROVE  Child(left, j) = Child(nd, j) /\ Piece(left, {k \in S : k < key}, j) = Piece(nd, S, j)
  <2>1. j # -1 => j \in 0 .. m - 1 /\ b[j] = a[j] /\ a[j].key \in Nat
    BY <1>3, <1>5
  <2>2. j < c - 1 /\ j + 1 \in 0 .. c - 1 /\ j + 1 \in 0 .. m
    BY <1>1
  <2>3. j < m - 1 => b[j + 1] = a[j + 1] /\ a[j + 1].key < key
    BY <1>1, <1>3, <1>5, <1>7, <2>2
  <2>4. ~(j < m - 1) => a[j + 1].key = key
    <3>1. ~(j < m - 1) => j + 1 = m
      BY <1>1
    <3> QED
      BY <1>7, <3>1
  <2>5. ASSUME NEW k \in S PROVE Between(left, j, k) /\ k < key <=> Between(nd, j, k)
    <3>1. Between(nd, j, k) <=> (j # -1 => a[j].key <= k) /\ k < a[j + 1].key
      BY <1>1, <2>2 DEF Between
    <3>2. Between(left, j, k) <=> (j # -1 => a[j].key <= k) /\ (j < m - 1 => k < a[j + 1].key)
      BY <1>2, <1>4, <2>1, <2>3 DEF Between
    <3>3. k \in Int /\ a[j + 1].key \in Nat
      BY <1>3, <2>2
    <3>4. (j < m - 1 => k < a[j + 1].key) /\ k < key <=> k < a[j + 1].key
      BY <1>7, <2>3, <2>4, <3>3
    <3> QED
      BY <3>1, <3>2, <3>4
  <2> QED
    BY <1>1, <1>2, <1>4, <2>1, <2>5 DEF Child, Piece
<1>9. ASSUME NEW j \in -1 .. c - m - 2, NEW h, h = m + 1 + j
      PROVE  Child(right, j) = Child(nd, h) /\ Piece(right, {k \in S : key <= k}, j) = Piece(nd, S, h)
  <2>1. h \in m .. c - 1 /\ h \in 0 .. c - 1 /\ h # -1
    BY <1>1, <1>9
  <2>2. j # -1 => d[j] = a[h] /\ key < a[h].key
    <3>1. j # -1 => j \in 0 .. c - m - 2 /\ m < h
      BY <1>1, <1>9
    <3> QED
      BY <1>3, <1>6, <1>7, <1>9, <2>1, <3>1
  <2>3. j = -1 => h = m
    BY <1>1, <1>9
  <2>4. j < (c - (m + 1)) - 1 <=> h < c - 1
    BY <1>1, <1>9
  <2>5. h < c - 1 => d[j + 1] = a[h + 1]
    <3>1. h < c - 1 => j + 1 \in 0 .. c - m - 2 /\ m + 1 + (j + 1) = h + 1
      BY <1>1, <1>9
    <3> QED
      BY <1>6, <3>1
  <2>6. ASSUME NEW k \in S PROVE Between(right, j, k) /\ key <= k <=> Between(nd, h, k)
    <3>1. Between(nd, h, k) <=> a[h].key <= k /\ (h < c - 1 => k < a[h + 1].key)
      BY <1>1, <2>1 DEF Between
    <3>2. Between(right, j, k) <=> (j # -1 => a[h].key <= k) /\ (h < c - 1 => k < a[h + 1].key)
      BY <1>2, <1>4, <2>2, <2>4, <2>5 DEF Between
    <3>3. k \in Int /\ a[h].key \in Nat
      BY <1>3, <2>1
    <3>4. (j # -1 => a[h].key <= k) /\ key <= k <=> a[h].key <= k
      BY <1>7, <2>2, <2>3, <3>3
    <3> QED
      BY <3>1, <3>2, <3>4
  <2>7. Child(right, j) = Child(nd, h)
    <3>1. Child(nd, h) = a[h].ptr
      BY <1>1, <2>1 DEF Child
    <3>2. j = -1 => Child(right, j) = a[h].ptr
      BY <1>2, <2>3 DEF Child
    <3>3. j # -1 => Child(right, j) = a[h].ptr
      BY <1>4, <2>2 DEF Child
    <3> QED
      BY <3>1, <3>2, <3>3
  <2> QED
    BY <2>6, <2>7 DEF Piece
<1>10. ASSUME NEW j \in Kids(left) PROVE j \in -1 .. m - 1 /\ j \in Kids(nd) /\ j < m
  BY <1>1, <1>2, <1>10 DEF Kids
<1>11. ASSUME NEW j \in Kids(right) PROVE j \in -1 .. c - m - 2 /\ m + 1 + j \in Kids(nd)
  BY <1>1, <1>2, <1>11 DEF Kids
<1>12. ASSUME NEW j \in Kids(nd), j < m PROVE j \in Kids(left)
  BY <1>1, <1>2, <1>12 DEF Kids
<1>13. ASSUME NEW j \in Kids(nd), j >= m PROVE j - (m + 1) \in Kids(right) /\ m + 1 + (j - (m + 1)) = j
  BY <1>1, <1>2, <1>13 DEF Kids
<1> QED
  BY <1>8, <1>9, <1>10, <1>11, <1>12, <1>13 DEF KidsDivided

\* The regions of the two halves.
LEMMA HalvedPlaces ==
    ASSUME NEW node, NEW root, NEW depth, NEW reg, NEW lev, Whole(node, root, depth, reg, lev),
           NEW n \in DOMAIN node, NEW y, y \notin DOMAIN node,
           NEW m \in Int, NEW left, NEW right, Division(node[n], m, left, right),
           NEW key, key = node[n].entries[m].key,
           NEW node2, node2 = Halved(node, n, left, y, right),
           NEW reg2, reg2 = HalvedRegion(node, reg, n, y, key), NEW lev2, lev2 = HalvedLevel(node, lev, n, y)
    PROVE  /\ key \in Nat /\ key \in reg2[y]
           /\ NodeRight(left) /\ NodeRight(right)
           /\ Placed(node2, depth, reg2, lev2, n) /\ Placed(node2, depth, reg2, lev2, y)
<1>1. /\ node2[n] = left /\ node2[y] = right /\ lev2[n] = lev[n] /\ lev2[y] = lev[n]
      /\ reg2[n] = {k \in reg[n] : k < key} /\ reg2[y] = {k \in reg[n] : key <= k}
  BY DEF Halved, HalvedRegion, HalvedLevel
<1>2. NodeRight(node[n]) /\ Placed(node, depth, reg, lev, n)
  BY DEF Whole, Tree
<1>3. PICK R \in SUBSET Int, nd \in {node[n]} : R = reg[n] /\ nd = node[n]
  BY <1>2 DEF Placed
<1>4. /\ NodeRight(left) /\ NodeRight(right)
      /\ key \in NodeKeys(nd)
      /\ NodeKeys(left) \subseteq {k \in NodeKeys(nd) : k < key}
      /\ NodeKeys(right) \subseteq {k \in NodeKeys(nd) : key <= k}
      /\ nd.entries[0].key \in NodeKeys(left)
  BY <1>2, <1>3, DividedKeys
<1>5. /\ left.isLeaf = nd.isLeaf /\ right.isLeaf = nd.isLeaf
      /\ left.FirstLeaf = nd.FirstLeaf /\ left.LastLeaf = FALSE
      /\ right.FirstLeaf = FALSE /\ right.LastLeaf = nd.LastLeaf
  BY <1>3 DEF Division
<1>6. /\ lev[n] \in 0 .. depth /\ (nd.isLeaf <=> lev[n] = depth)
      /\ R # {} /\ Convex(R) /\ NodeKeys(nd) \subseteq R
      /\ nd.FirstLeaf <=> nd.isLeaf /\ -1 \in R
      /\ nd.LastLeaf <=> nd.isLeaf /\ UpClosed(R)
      /\ nd.isLeaf \in BOOLEAN /\ nd.FirstLeaf \in BOOLEAN /\ nd.LastLeaf \in BOOLEAN
  BY <1>2, <1>3 DEF Placed, NodeRight
<1>7. NodeKeys(nd) \subseteq Nat
  BY <1>2, <1>3 DEF NodeRight, HasKeys, NodeKeys
<1>8. key \in Nat /\ key \in R /\ -1 < key
  BY <1>4, <1>6, <1>7
<1> DEFINE A == {k \in R : k < key}
           B == {k \in R : key <= k}
<1>9. A # {} /\ B # {} /\ key \in B /\ A \subseteq Int /\ B \subseteq Int
  <2>1. nd.entries[0].key \in A
    BY <1>4, <1>6
  <2>2. key \in B
    BY <1>8
  <2>3. A \subseteq Int /\ B \subseteq Int
    BY <1>3
  <2> QED
    BY <2>1, <2>2, <2>3
<1>10. Convex(A) /\ Convex(B)
  <2>1. Convex(A)
    BY <1>3, <1>6, <1>8 DEF Convex
  <2>2. Convex(B)
    BY <1>3, <1>6, <1>8 DEF Convex
  <2> QED
    BY <2>1, <2>2
<1>11. NodeKeys(left) \subseteq A /\ NodeKeys(right) \subseteq B
  BY <1>4, <1>6
<1>12. /\ -1 \in A <=> -1 \in R
       /\ -1 \notin B
       /\ ~UpClosed(A)
       /\ UpClosed(B) <=> UpClosed(R)
  <2>1. (-1 \in A <=> -1 \in R) /\ -1 \notin B
    BY <1>8
  <2>2. ~UpClosed(A)
    <3>1. PICK k \in A : k \in Int /\ k <= key
      BY <1>8, <1>9
    <3>2. key \notin A /\ key \in Int
      BY <1>8
    <3> QED
      BY <3>1, <3>2 DEF UpClosed
  <2>3. UpClosed(R) => UpClosed(B)
    BY <1>3, <1>8 DEF UpClosed
  <2>4. ASSUME UpClosed(B) PROVE UpClosed(R)
    <3>1. ASSUME NEW a \in R, NEW b \in Int, a <= b PROVE b \in R
      <4>1. CASE key <= b
        <5>1. b \in B
          BY <1>9, <2>4, <4>1 DEF UpClosed
        <5> QED
          BY <5>1
      <4>2. CASE b < key
        <5>1. b <= key
          BY <1>8, <4>2
        <5> QED
          BY <1>6, <1>8, <3>1, <5>1 DEF Convex
      <4> QED
        BY <1>8, <4>1, <4>2
    <3> QED
      BY <3>1 DEF UpClosed
  <2> QED
    BY <2>1, <2>2, <2>3, <2>4
<1>13. reg2[n] = A /\ reg2[y] = B
  BY <1>1, <1>3
<1> HIDE DEF A, B
<1>14. Placed(node2, depth, reg2, lev2, n)
  BY <1>1, <1>5, <1>6, <1>9, <1>10, <1>11, <1>12, <1>13 DEF Placed
<1>15. Placed(node2, depth, reg2, lev2, y)
  BY <1>1, <1>5, <1>6, <1>9, <1>10, <1>11, <1>12, <1>13 DEF Placed
<1> QED
  BY <1>4, <1>8, <1>9, <1>13, <1>14, <1>15

\* A split node leaves its second half without a parent, and nothing else wrong.
LEMMA Split ==
    ASSUME NEW node, NEW root, NEW depth, NEW reg, NEW lev, Whole(node, root, depth, reg, lev),
           NEW n \in DOMAIN node, NEW y, y \notin DOMAIN node,
           NEW m \in Int, NEW left, NEW right, Division(node[n], m, left, right),
           NEW key, key = node[n].entries[m].key,
           NEW node2, node2 = Halved(node, n, left, y, right),
           NEW reg2, reg2 = HalvedRegion(node, reg, n, y, key), NEW lev2, lev2 = HalvedLevel(node, lev, n, y)
    PROVE  Pending(node2, root, depth, reg2, lev2, n, y, key)
<1>1. /\ DOMAIN node2 = DOMAIN node \cup {y}
      /\ node2[n] = left /\ node2[y] = right /\ \A k \in DOMAIN node : k # n => node2[k] = node[k]
      /\ lev2[y] = lev[n] /\ \A k \in DOMAIN node : lev2[k] = lev[k]
      /\ reg2[n] = {k \in reg[n] : k < key} /\ reg2[y] = {k \in reg[n] : key <= k}
      /\ \A k \in DOMAIN node : k # n => reg2[k] = reg[k]
      /\ reg2 = [k \in DOMAIN node \cup {y} |-> reg2[k]]
  BY DEF Halved, HalvedRegion, HalvedLevel
<1>2. /\ Tree(node, root, depth, reg, lev, reg, {root}) /\ root \in DOMAIN node
      /\ NodeRight(node[n]) /\ reg[n] \subseteq Int /\ n # y
      /\ \A k \in DOMAIN node : reg[k] \subseteq Int
  BY DEF Whole, Tree, Placed
<1>3. /\ key \in Nat /\ key \in reg2[y]
      /\ NodeRight(left) /\ NodeRight(right)
      /\ Placed(node2, depth, reg2, lev2, n) /\ Placed(node2, depth, reg2, lev2, y)
  BY HalvedPlaces
<1> DEFINE full == Joined(reg2, n, y)
<1>4. full[n] = reg[n] /\ full[y] = reg2[y] /\ \A k \in DOMAIN node : full[k] = reg[k]
  <2>1. reg2[n] \cup reg2[y] = reg[n]
    BY <1>1, <1>2, <1>3
  <2>2. full[n] = reg2[n] \cup reg2[y] /\ \A k \in DOMAIN node \cup {y} : k # n => full[k] = reg2[k]
    BY <1>1 DEF Joined
  <2> QED
    BY <1>1, <1>2, <2>1, <2>2
<1> HIDE DEF full
<1>5. \A k \in DOMAIN node2 : NodeRight(node2[k]) /\ Placed(node2, depth, reg2, lev2, k)
  <2>1. ASSUME NEW k \in DOMAIN node, k # n PROVE NodeRight(node2[k]) /\ Placed(node2, depth, reg2, lev2, k)
    BY <1>1, <1>2, <2>1 DEF Tree, Placed
  <2> QED
    BY <1>1, <1>3, <2>1
<1>6. RegionsApart(DOMAIN node2, reg2, lev2)
  <2>1. \A a, b \in DOMAIN node : a # b /\ lev[a] = lev[b] => reg[a] \cap reg[b] = {}
    BY <1>2 DEF Tree, RegionsApart
  <2>2. reg2[n] \cap reg2[y] = {}
    BY <1>1, <1>2, <1>3
  <2>3. \A a \in DOMAIN node : reg2[a] \subseteq reg[a]
    BY <1>1
  <2>4. reg2[y] \subseteq reg[n]
    BY <1>1
  <2>5. ASSUME NEW a \in DOMAIN node, NEW b \in DOMAIN node, a # b, lev2[a] = lev2[b] PROVE reg2[a] \cap reg2[b] = {}
    <3>1. reg[a] \cap reg[b] = {}
      BY <1>1, <2>1, <2>5
    <3> QED
      BY <2>3, <3>1
  <2>6. ASSUME NEW a \in DOMAIN node, lev2[a] = lev2[y] PROVE reg2[a] \cap reg2[y] = {}
    <3>1. CASE a = n
      BY <2>2, <3>1
    <3>2. CASE a # n
      <4>1. reg[a] \cap reg[n] = {}
        BY <1>1, <2>1, <2>6, <3>2
      <4> QED
        BY <2>3, <2>4, <4>1
    <3> QED
      BY <3>1, <3>2
  <2>7. ASSUME NEW a \in DOMAIN node \cup {y}, NEW b \in DOMAIN node \cup {y}, a # b, lev2[a] = lev2[b]
        PROVE  reg2[a] \cap reg2[b] = {}
    <3>1. CASE a \in DOMAIN node /\ b \in DOMAIN node
      BY <2>5, <2>7, <3>1
    <3>2. CASE a \in DOMAIN node /\ b = y
      BY <2>6, <2>7, <3>2
    <3>3. CASE a = y /\ b \in DOMAIN node
      <4>1. reg2[b] \cap reg2[y] = {}
        BY <2>6, <2>7, <3>3
      <4> QED
        BY <3>3, <4>1
    <3> QED
      BY <2>7, <3>1, <3>2, <3>3
  <2> QED
    BY <1>1, <2>7 DEF RegionsApart
<1>7. ASSUME NEW k \in DOMAIN node, ~node[k].isLeaf, NEW j \in Kids(node[k]), NEW c, c = Child(node[k], j)
      PROVE  c \in DOMAIN node /\ lev2[c] = lev2[k] + 1 /\ full[c] = Piece(node[k], reg[k], j)
  <2>1. c \in DOMAIN node /\ lev[c] = lev[k] + 1 /\ reg[c] = Piece(node[k], reg[k], j)
    BY <1>2, <1>7 DEF Tree, Parts
  <2> QED
    BY <1>1, <1>4, <2>1
<1>8. ~node[n].isLeaf => KidsDivided(node[n], m, left, right, reg[n], key)
  BY <1>2, DividedPieces
<1>9. left.isLeaf = node[n].isLeaf /\ right.isLeaf = node[n].isLeaf
  BY DEF Division
<1>10. \A k \in DOMAIN node2 : Parts(node2, reg2, lev2, full, k)
  <2>1. ASSUME NEW k \in DOMAIN node, k # n PROVE Parts(node2, reg2, lev2, full, k)
    BY <1>1, <1>7, <2>1 DEF Parts
  <2>2. Parts(node2, reg2, lev2, full, n)
    <3>1. ASSUME ~left.isLeaf, NEW j \in Kids(left), NEW c, c = Child(left, j)
          PROVE  c \in DOMAIN node /\ lev2[c] = lev2[n] + 1 /\ full[c] = Piece(left, reg2[n], j)
      <4>1. j \in Kids(node[n]) /\ c = Child(node[n], j) /\ Piece(left, reg2[n], j) = Piece(node[n], reg[n], j)
        BY <1>1, <1>8, <1>9, <3>1 DEF KidsDivided
      <4> QED
        BY <1>7, <1>9, <3>1, <4>1
    <3> QED
      BY <1>1, <3>1 DEF Parts
  <2>3. Parts(node2, reg2, lev2, full, y)
    <3>1. ASSUME ~right.isLeaf, NEW j \in Kids(right), NEW c, c = Child(right, j)
          PROVE  c \in DOMAIN node /\ lev2[c] = lev2[n] + 1 /\ full[c] = Piece(right, reg2[y], j)
      <4>1. PICK h \in Kids(node[n]) : h = m + 1 + j
        BY <1>8, <1>9, <3>1 DEF KidsDivided
      <4>2. c = Child(node[n], h) /\ Piece(right, reg2[y], j) = Piece(node[n], reg[n], h)
        BY <1>1, <1>8, <1>9, <3>1, <4>1 DEF KidsDivided
      <4> QED
        BY <1>7, <1>9, <3>1, <4>1, <4>2
    <3> QED
      BY <1>1, <3>1 DEF Parts
  <2> QED
    BY <1>1, <2>1, <2>2, <2>3
<1>11. ASSUME NEW k \in DOMAIN node2 \ {root, y} PROVE \E p \in DOMAIN node2 : IsChild(node2, p, k)
  <2>1. PICK p \in DOMAIN node : IsChild(node, p, k)
    BY <1>1, <1>2, <1>11 DEF Tree
  <2>2. PICK j \in Kids(node[p]) : Child(node[p], j) = k /\ ~node[p].isLeaf
    BY <2>1 DEF IsChild
  <2>3. CASE p # n
    BY <1>1, <2>1, <2>3 DEF IsChild
  <2>4. CASE p = n /\ j < m
    <3>1. j \in Kids(left) /\ Child(left, j) = k
      BY <1>8, <2>2, <2>4 DEF KidsDivided
    <3>2. IsChild(node2, n, k)
      BY <1>1, <1>9, <2>2, <2>4, <3>1 DEF IsChild
    <3> QED
      BY <1>1, <3>2
  <2>5. CASE p = n /\ j >= m
    <3>1. PICK h \in Kids(right) : h = j - (m + 1) /\ m + 1 + h = j
      BY <1>8, <2>2, <2>5 DEF KidsDivided
    <3>2. Child(right, h) = k
      BY <1>8, <2>2, <2>5, <3>1 DEF KidsDivided
    <3>3. IsChild(node2, y, k)
      BY <1>1, <1>9, <2>2, <2>5, <3>2 DEF IsChild
    <3> QED
      BY <1>1, <3>3
  <2>6. j \in Int
    BY <1>2, <2>2 DEF Kids
  <2> QED
    BY <2>3, <2>4, <2>5, <2>6
<1>12. Tree(node2, root, depth, reg2, lev2, full, {root, y})
  <2>1. root \in DOMAIN node2 /\ lev2[root] = 0 /\ full[root] = Int /\ depth \in Nat
    BY <1>1, <1>2, <1>4 DEF Tree
  <2> QED
    BY <1>5, <1>6, <1>10, <1>11, <2>1 DEF Tree
<1>13. reg2 \in [DOMAIN node2 -> SUBSET Int]
  <2>1. \A k \in DOMAIN node \cup {y} : reg2[k] \subseteq Int
    BY <1>1, <1>2
  <2> QED
    BY <1>1, <2>1
<1> QED
  BY <1>1, <1>2, <1>3, <1>12, <1>13 DEF full, Pending

Grown(node, new, nd) == [m \in DOMAIN node \cup {new} |-> IF m = new THEN nd ELSE node[m]]

\* A root that has been split gets a parent with its two halves.
LEMMA NewRoot ==
    ASSUME NEW node, NEW root, NEW depth, NEW reg, NEW lev, NEW y, NEW e,
           Pending(node, root, depth, reg, lev, root, y, e.key), e.ptr = y,
           NEW new, new \notin DOMAIN node,
           NEW nd, nd.isLeaf = FALSE, nd.FirstLeaf = FALSE, nd.LastLeaf = FALSE,
           nd.ptr0 = root, nd.numKeys = 1, nd.entries[0] = e,
           NEW node2, node2 = Grown(node, new, nd)
    PROVE  \E reg2, lev2 : Whole(node2, new, depth + 1, reg2, lev2)
<1> DEFINE full == Joined(reg, root, y)
           reg2 == [m \in DOMAIN node \cup {new} |-> IF m = new THEN Int ELSE reg[m]]
           lev2 == [m \in DOMAIN node \cup {new} |-> IF m = new THEN 0 ELSE lev[m] + 1]
<1>1. /\ DOMAIN node2 = DOMAIN node \cup {new} /\ node2[new] = nd /\ lev2[new] = 0 /\ reg2[new] = Int
      /\ \A m \in DOMAIN node : m # new /\ node2[m] = node[m] /\ reg2[m] = reg[m] /\ lev2[m] = lev[m] + 1
  BY DEF Grown
<1> HIDE DEF reg2, lev2
<1>2. /\ Tree(node, root, depth, reg, lev, full, {root, y}) /\ root # y /\ lev[root] = lev[y] /\ e.key \in Nat
      /\ root \in DOMAIN node /\ y \in DOMAIN node /\ e.key \in reg[y]
      /\ \A k \in reg[root] : k < e.key
      /\ \A k \in reg[y] : e.key <= k
  BY DEF Pending
<1>3. full[root] = reg[root] \cup reg[y] /\ \A m \in DOMAIN node : m # root => full[m] = reg[m]
  BY DEF Pending, Joined
<1> HIDE DEF full
<1>4. /\ lev[root] = 0 /\ full[root] = Int /\ depth \in Nat /\ reg[root] \subseteq Int /\ reg[y] \subseteq Int
      /\ \A m \in DOMAIN node : lev[m] \in 0 .. depth
  BY <1>2 DEF Tree, Placed
<1>5. reg[root] = {k \in Int : k < e.key} /\ reg[y] = {k \in Int : e.key <= k}
  <2>1. reg[root] \cup reg[y] = Int
    BY <1>3, <1>4
  <2>2. ASSUME NEW k \in Int PROVE (k \in reg[root] <=> k < e.key) /\ (k \in reg[y] <=> e.key <= k)
    BY <1>2, <2>1
  <2> QED
    BY <1>4, <2>2
<1>6. /\ HasKeys(nd) /\ Sorted(nd) /\ NodeKeys(nd) = {e.key} /\ Kids(nd) = {-1, 0}
      /\ Child(nd, -1) = root /\ Child(nd, 0) = y
  <2>1. \A i \in 0 .. 1 - 1 : i = 0
    OBVIOUS
  <2>2. NodeKeys(nd) = {e.key}
    BY <2>1 DEF NodeKeys
  <2>3. HasKeys(nd) /\ Sorted(nd)
    BY <1>2, <2>1 DEF HasKeys, Sorted
  <2>4. Kids(nd) = {-1, 0}
    BY DEF Kids
  <2> QED
    BY <2>2, <2>3, <2>4 DEF Child
<1>7. Piece(nd, Int, -1) = reg[root] /\ Piece(nd, Int, 0) = reg[y]
  <2>1. \A k \in Int : Between(nd, -1, k) <=> k < e.key
    BY DEF Between
  <2>2. \A k \in Int : Between(nd, 0, k) <=> e.key <= k
    BY DEF Between
  <2>3. {k \in Int : Between(nd, -1, k)} = reg[root]
    BY <1>5, <2>1
  <2>4. {k \in Int : Between(nd, 0, k)} = reg[y]
    BY <1>5, <2>2
  <2> QED
    BY <2>3, <2>4 DEF Piece
<1>8. NodeRight(nd)
  <2>1. nd.isLeaf \in BOOLEAN /\ nd.FirstLeaf \in BOOLEAN /\ nd.LastLeaf \in BOOLEAN
    BY Zenon
  <2>2. nd.numKeys >= 1
    OBVIOUS
  <2> QED
    BY <1>6, <2>1, <2>2 DEF NodeRight
<1>9. ASSUME NEW m \in DOMAIN node PROVE NodeRight(node2[m]) /\ Placed(node2, depth + 1, reg2, lev2, m)
  <2>1. NodeRight(node[m]) /\ Placed(node, depth, reg, lev, m)
    BY <1>2 DEF Tree
  <2>2. lev[m] + 1 \in 0 .. depth + 1 /\ (lev[m] = depth <=> lev[m] + 1 = depth + 1)
    BY <1>4
  <2> QED
    BY <1>1, <2>1, <2>2 DEF Placed
<1>10. Placed(node2, depth + 1, reg2, lev2, new)
  <2>1. 0 \in 0 .. depth + 1 /\ 0 # depth + 1
    BY <1>4
  <2>2. Convex(Int) /\ NodeKeys(nd) \subseteq Int
    BY <1>2, <1>6 DEF Convex
  <2>3. Int # {}
    OBVIOUS
  <2> QED
    BY <1>1, <2>1, <2>2, <2>3 DEF Placed
<1>11. RegionsApart(DOMAIN node2, reg2, lev2)
  <2>1. \A a, b \in DOMAIN node : a # b /\ lev[a] = lev[b] => reg[a] \cap reg[b] = {}
    BY <1>2 DEF Tree, RegionsApart
  <2>2. ASSUME NEW a \in DOMAIN node2, NEW b \in DOMAIN node2, a # b, lev2[a] = lev2[b] PROVE reg2[a] \cap reg2[b] = {}
    <3>1. a \in DOMAIN node /\ b \in DOMAIN node
      BY <1>1, <1>4, <2>2
    <3>2. lev[a] = lev[b]
      BY <1>1, <1>4, <2>2, <3>1
    <3> QED
      BY <1>1, <2>1, <2>2, <3>1, <3>2
  <2> QED
    BY <2>2 DEF RegionsApart
<1>12. ASSUME NEW m \in DOMAIN node PROVE Parts(node2, reg2, lev2, reg2, m)
  <2>1. ASSUME ~node[m].isLeaf, NEW j \in Kids(node[m]), NEW c, c = Child(node[m], j)
        PROVE  c \in DOMAIN node2 /\ lev2[c] = lev2[m] + 1 /\ reg2[c] = Piece(node[m], reg[m], j)
    <3>1. c \in DOMAIN node /\ lev[c] = lev[m] + 1 /\ full[c] = Piece(node[m], reg[m], j)
      BY <1>2, <2>1 DEF Tree, Parts
    <3>2. c # root
      BY <1>4, <3>1
    <3> QED
      BY <1>1, <1>3, <3>1, <3>2
  <2> QED
    BY <1>1, <2>1 DEF Parts
<1>13. Parts(node2, reg2, lev2, reg2, new)
  <2>1. root \in DOMAIN node2 /\ y \in DOMAIN node2 /\ lev2[root] = 0 + 1 /\ lev2[y] = 0 + 1
    <3>1. root \in DOMAIN node /\ y \in DOMAIN node /\ lev[root] = 0 /\ lev[y] = 0
      BY <1>2, <1>4
    <3> QED
      BY <1>1, <3>1
  <2>2. reg2[root] = Piece(nd, Int, -1) /\ reg2[y] = Piece(nd, Int, 0)
    BY <1>1, <1>2, <1>7
  <2>3. ASSUME NEW i \in {-1, 0}, NEW c, c = Child(nd, i)
        PROVE  c \in DOMAIN node2 /\ lev2[c] = 0 + 1 /\ reg2[c] = Piece(nd, Int, i)
    <3>1. CASE i = -1
      BY <1>6, <2>1, <2>2, <2>3, <3>1
    <3>2. CASE i = 0
      BY <1>6, <2>1, <2>2, <2>3, <3>2
    <3> QED
      BY <3>1, <3>2
  <2> QED
    BY <1>1, <1>6, <2>3 DEF Parts
<1>14. ASSUME NEW k \in DOMAIN node2 \ {new} PROVE \E m \in DOMAIN node2 : IsChild(node2, m, k)
  <2>1. CASE k = root \/ k = y
    <3>1. IsChild(node2, new, k)
      BY <1>1, <1>6, <2>1 DEF IsChild
    <3> QED
      BY <1>1, <3>1
  <2>2. CASE ~(k = root \/ k = y)
    <3>1. PICK m \in DOMAIN node : IsChild(node, m, k)
      BY <1>1, <1>2, <1>14, <2>2 DEF Tree
    <3> QED
      BY <1>1, <3>1 DEF IsChild
  <2> QED
    BY <2>1, <2>2
<1>15. Tree(node2, new, depth + 1, reg2, lev2, reg2, {new})
  <2>1. depth + 1 \in Nat
    BY <1>4
  <2> QED
    BY <1>1, <1>8, <1>9, <1>10, <1>11, <1>12, <1>13, <1>14, <2>1 DEF Tree
<1> QED
  BY <1>15 DEF Whole

-----------------------------------------------------------------------------
(* The walks. *)

\* A function defined from each level to the next.
IsWay(way, step, n, level) == way = [l \in Levels |-> IF l <= level THEN n ELSE step[way[l - 1]]]

LEMMA WayExists ==
    ASSUME NEW D, NEW n \in D, NEW step \in [D -> D], NEW level \in Nat
    PROVE  \E way \in [Levels -> D] : IsWay(way, step, n, level)
<1> DEFINE T == {k \in Nat : \E way \in [Levels -> D] :
                    \A l \in Levels : l <= k => way[l] = IF l <= level THEN n ELSE step[way[l - 1]]}
<1>1. MAX_TREE_DEPTH \in Nat
  BY RelationAssumption
<1>2. 0 \in T
  <2>1. [l \in Levels |-> n] \in [Levels -> D]
    OBVIOUS
  <2>2. \A l \in Levels : l <= 0 => l <= level
    BY <1>1 DEF Levels
  <2> QED
    BY <2>1, <2>2
<1>3. ASSUME NEW k \in Nat, k \in T PROVE k + 1 \in T
  <2>1. PICK way \in [Levels -> D] :
           \A l \in Levels : l <= k => way[l] = IF l <= level THEN n ELSE step[way[l - 1]]
    BY <1>3
  <2> DEFINE next == IF k + 1 <= level THEN n ELSE step[way[k]]
             way2 == [way EXCEPT ![k + 1] = next]
  <2>2. CASE k + 1 \notin Levels
    <3>1. \A l \in Levels : l <= k + 1 => l <= k
      BY <1>1, <2>2 DEF Levels
    <3> QED
      BY <2>1, <3>1
  <2>3. CASE k + 1 \in Levels
    <3>1. k \in Levels
      BY <1>1, <2>3 DEF Levels
    <3>2. way2 \in [Levels -> D]
      BY <3>1
    <3>3. ASSUME NEW l \in Levels, l <= k + 1 PROVE way2[l] = IF l <= level THEN n ELSE step[way2[l - 1]]
      <4>1. CASE l = k + 1
        <5>1. l - 1 = k /\ k # k + 1 /\ way2[k] = way[k] /\ way2[l] = next
          BY <2>3, <3>1, <4>1
        <5> QED
          BY <4>1, <5>1
      <4>2. CASE l # k + 1
        <5>1. l \in Int /\ l <= k /\ way2[l] = way[l]
          BY <3>3, <4>2 DEF Levels
        <5>2. ~(l <= level) => l - 1 \in Levels /\ l - 1 # k + 1
          BY <1>1, <5>1 DEF Levels
        <5>3. ~(l <= level) => way2[l - 1] = way[l - 1]
          BY <5>2
        <5> QED
          BY <2>1, <5>1, <5>3
      <4> QED
        BY <4>1, <4>2
    <3> HIDE DEF way2
    <3> QED
      BY <3>2, <3>3
  <2> QED
    BY <2>2, <2>3
<1> HIDE DEF T
<1>4. MAX_TREE_DEPTH \in T
  BY <1>1, <1>2, <1>3, SetInduction
<1>5. PICK way \in [Levels -> D] :
         \A l \in Levels : l <= MAX_TREE_DEPTH => way[l] = IF l <= level THEN n ELSE step[way[l - 1]]
  BY <1>4 DEF T
<1>6. \A l \in Levels : l <= MAX_TREE_DEPTH
  BY <1>1 DEF Levels
<1>7. way = [l \in Levels |-> IF l <= level THEN n ELSE step[way[l - 1]]]
  BY <1>5, <1>6
<1> QED
  BY <1>7 DEF IsWay

\* An index of a child for each intern node.
Chosen(node, idx) == \A m \in DOMAIN node : ~node[m].isLeaf => idx[m] \in Kids(node[m])

LEMMA WayIs ==
    ASSUME NEW r, NEW reg, NEW lev, Whole(r.node, r.root, r.depth, reg, lev),
           NEW n \in DOMAIN r.node, NEW level, level = lev[n], NEW idx, Chosen(r.node, idx),
           NEW way, way = wayDown(r, n, level, idx)
    PROVE  \A l \in Levels : way[l] = IF l <= level THEN n
                                      ELSE IF r.node[way[l - 1]].isLeaf THEN way[l - 1]
                                      ELSE Child(r.node[way[l - 1]], idx[way[l - 1]])
<1> DEFINE D == DOMAIN r.node
           step == [m \in D |-> IF r.node[m].isLeaf THEN m ELSE Child(r.node[m], idx[m])]
           Is(w) == w = [l \in Levels |-> IF l <= level THEN n
                                          ELSE LET m == w[l - 1]
                                               IN  IF r.node[m].isLeaf THEN m ELSE Child(r.node[m], idx[m])]
<1>1. step \in [D -> D]
  <2>1. ASSUME NEW m \in D, ~r.node[m].isLeaf PROVE Child(r.node[m], idx[m]) \in D
    BY <2>1 DEF Whole, Tree, Parts, Chosen
  <2> QED
    BY <2>1
<1>2. level \in Nat
  BY DEF Whole, Tree, Placed
<1> HIDE DEF step
<1>3. PICK w \in [Levels -> D] : w = [l \in Levels |-> IF l <= level THEN n ELSE step[w[l - 1]]]
  <2>1. \E w \in [Levels -> D] : IsWay(w, step, n, level)
    <3> HIDE DEF D
    <3> QED
      BY <1>1, <1>2, WayExists DEF D
  <2> QED
    BY <2>1 DEF IsWay
<1>4. Is(w)
  <2>1. ASSUME NEW l \in Levels, ~(l <= level) PROVE w[l - 1] \in D
    <3>1. l - 1 \in Levels
      BY <1>2, <2>1, RelationAssumption DEF Levels
    <3> QED
      BY <1>3, <3>1
  <2>2. ASSUME NEW m \in D PROVE step[m] = IF r.node[m].isLeaf THEN m ELSE Child(r.node[m], idx[m])
    BY DEF step
  <2>3. ASSUME NEW l \in Levels
        PROVE  w[l] = IF l <= level THEN n
                      ELSE LET m == w[l - 1] IN IF r.node[m].isLeaf THEN m ELSE Child(r.node[m], idx[m])
    BY <1>3, <2>1, <2>2
  <2> QED
    BY <1>3, <2>3
<1>5. way = CHOOSE v : Is(v)
  BY DEF wayDown
<1>6. Is(way)
  BY <1>4, <1>5
<1> QED
  BY <1>6

\* What a walk down from n leaves in the cursor.
Descended(r, n, c, level, idx, d) ==
    /\ d.level = r.depth /\ d.ancestors[level] = n
    /\ \A l \in 0 .. level - 1 :
          d.ancestors[l] = c.ancestors[l] /\ d.ancestorsIdx[l] = c.ancestorsIdx[l]
    /\ \A l \in level .. r.depth :
          d.ancestors[l] \in DOMAIN r.node /\ d.ancestorsIdx[l] = idx[d.ancestors[l]]
    /\ \A l \in level .. r.depth - 1 :
          /\ ~r.node[d.ancestors[l]].isLeaf
          /\ d.ancestors[l + 1] = Child(r.node[d.ancestors[l]], d.ancestorsIdx[l])
    /\ r.node[d.ancestors[r.depth]].isLeaf

CursorType(D) == [level : Levels, ancestors : [Levels -> D \cup {NULL}],
                  ancestorsIdx : [Levels -> -1 .. FANOUT]]

IsCursor(c, lv, a, x) == c = [level |-> lv, ancestors |-> a, ancestorsIdx |-> x]

SetAt(c, level, n, i) == [c EXCEPT !.level = level, !.ancestors[level] = n, !.ancestorsIdx[level] = i]

LEMMA CursorSet ==
    ASSUME NEW lv, NEW a, NEW x, NEW c, IsCursor(c, lv, a, x), NEW level, NEW n, NEW i
    PROVE  IsCursor(SetAt(c, level, n, i), level, [a EXCEPT ![level] = n], [x EXCEPT ![level] = i])
<1>1. PICK c1 : c1 = [c EXCEPT !.level = level]
  OBVIOUS
<1>2. c1 = [level |-> level, ancestors |-> a, ancestorsIdx |-> x]
  BY <1>1 DEF IsCursor
<1>3. PICK c2 : c2 = [c1 EXCEPT !.ancestors[level] = n]
  OBVIOUS
<1>4. c2 = [level |-> level, ancestors |-> [a EXCEPT ![level] = n], ancestorsIdx |-> x]
  BY <1>2, <1>3
<1>5. [c2 EXCEPT !.ancestorsIdx[level] = i]
      = [level |-> level, ancestors |-> [a EXCEPT ![level] = n], ancestorsIdx |-> [x EXCEPT ![level] = i]]
  BY <1>4
<1>6. [c EXCEPT !.level = level, !.ancestors[level] = n, !.ancestorsIdx[level] = i]
      = [c2 EXCEPT !.ancestorsIdx[level] = i]
  BY <1>1, <1>3, Zenon
<1> QED
  BY <1>5, <1>6 DEF SetAt, IsCursor

LEMMA LevelsAre == /\ MAX_TREE_DEPTH \in Nat /\ Levels \subseteq Nat /\ 0 \in Levels
                   /\ \A a \in Levels : \A b \in 0 .. a : b \in Levels
BY RelationAssumption DEF Levels

LEMMA DescendIs ==
    ASSUME NEW r, NEW reg, NEW lev, Whole(r.node, r.root, r.depth, reg, lev), r.depth \in Levels,
           NEW n \in DOMAIN r.node, NEW level, level = lev[n], NEW idx, Chosen(r.node, idx),
           NEW c, NEW d, d = descend(r, n, c, level, idx)
    PROVE  /\ Descended(r, n, c, level, idx, d)
           /\ (/\ c.ancestors \in [Levels -> DOMAIN r.node \cup {NULL}]
               /\ c.ancestorsIdx \in [Levels -> -1 .. FANOUT]
               /\ \A m \in DOMAIN r.node : idx[m] \in -1 .. FANOUT)
              => d \in CursorType(DOMAIN r.node)
<1>0. PICK way : way = wayDown(r, n, level, idx)
  OBVIOUS
<1> DEFINE Leaf(l) == /\ level <= l /\ r.node[way[l]].isLeaf
                      /\ l # level => ~r.node[way[l - 1]].isLeaf
<1>1. \A l \in Levels : way[l] = IF l <= level THEN n
                                 ELSE IF r.node[way[l - 1]].isLeaf THEN way[l - 1]
                                 ELSE Child(r.node[way[l - 1]], idx[way[l - 1]])
  BY <1>0, WayIs
<1>2. PICK depth \in Nat : depth = r.depth /\ depth \in Levels
  BY LevelsAre
<1>20. depth \in Int
  OBVIOUS
<1>3. level \in 0 .. depth /\ level \in Int /\ \A m \in DOMAIN r.node : r.node[m].isLeaf <=> lev[m] = depth
  BY <1>2 DEF Whole, Tree, Placed
<1>4. \A l \in level .. depth : l \in Levels
  BY <1>2, <1>3, LevelsAre
<1>5. way[level] = n
  BY <1>1, <1>3, <1>4
<1>6. ASSUME NEW l \in level .. depth, l # depth, way[l] \in DOMAIN r.node, lev[way[l]] = l
      PROVE  /\ way[l + 1] = Child(r.node[way[l]], idx[way[l]])
             /\ way[l + 1] \in DOMAIN r.node /\ lev[way[l + 1]] = l + 1 /\ ~r.node[way[l]].isLeaf
  <2>1. l + 1 \in Levels /\ ~(l + 1 <= level) /\ (l + 1) - 1 = l
    BY <1>3, <1>4, <1>6
  <2>2. ~r.node[way[l]].isLeaf
    BY <1>3, <1>6
  <2>3. way[l + 1] = Child(r.node[way[l]], idx[way[l]])
    BY <1>1, <2>1, <2>2
  <2>4. idx[way[l]] \in Kids(r.node[way[l]])
    BY <1>6, <2>2 DEF Chosen
  <2>5. way[l + 1] \in DOMAIN r.node /\ lev[way[l + 1]] = lev[way[l]] + 1
    <3>1. PICK m, i, x : m = way[l] /\ i = idx[m] /\ x = Child(r.node[m], i)
      OBVIOUS
    <3>2. m \in DOMAIN r.node /\ ~r.node[m].isLeaf /\ i \in Kids(r.node[m])
      BY <1>6, <2>2, <2>4, <3>1
    <3>3. Parts(r.node, reg, lev, reg, m)
      BY <3>2 DEF Whole, Tree
    <3>4. x \in DOMAIN r.node /\ lev[x] = lev[m] + 1
      BY <3>1, <3>2, <3>3 DEF Parts
    <3> QED
      BY <2>3, <3>1, <3>4
  <2> QED
    BY <1>6, <2>2, <2>3, <2>5
<1>7. \A l \in level .. depth : way[l] \in DOMAIN r.node /\ lev[way[l]] = l
  <2> DEFINE S == {l \in Int : way[l] \in DOMAIN r.node /\ lev[way[l]] = l}
  <2>1. level \in S
    BY <1>3, <1>5
  <2>2. \A l \in level .. depth : l \in S /\ l # depth => l + 1 \in S
    BY <1>6
  <2> HIDE DEF S
  <2>3. \A l \in level .. depth : l \in S
    BY <1>3, <1>20, <2>1, <2>2, UpTo
  <2> QED
    BY <2>3 DEF S
<1>8. \A l \in level .. depth - 1 : l \in level .. depth /\ l # depth
  BY <1>2, <1>3
<1>9. \A l \in level .. depth - 1 : way[l + 1] = Child(r.node[way[l]], idx[way[l]]) /\ ~r.node[way[l]].isLeaf
  BY <1>6, <1>7, <1>8
<1>10. r.node[way[depth]].isLeaf
  BY <1>2, <1>3, <1>7
<1>11. \A l \in depth .. MAX_TREE_DEPTH - 1 : way[l] = way[depth]
  <2> DEFINE S == {l \in Int : way[l] = way[depth]}
  <2>1. depth \in S
    BY <1>2
  <2>2. ASSUME NEW l \in depth .. MAX_TREE_DEPTH - 1, l \in S, l # MAX_TREE_DEPTH - 1 PROVE l + 1 \in S
    <3>1. l + 1 \in Levels /\ ~(l + 1 <= level) /\ (l + 1) - 1 = l /\ way[l] = way[depth] /\ l + 1 \in Int
      BY <1>2, <1>3, <2>2, RelationAssumption DEF Levels
    <3>2. way[l + 1] = way[l]
      BY <1>1, <1>10, <3>1
    <3> QED
      BY <3>1, <3>2
  <2>3. MAX_TREE_DEPTH - 1 \in Int
    BY LevelsAre
  <2> HIDE DEF S
  <2>4. \A l \in depth .. MAX_TREE_DEPTH - 1 : l \in S
    <3>1. PICK b \in Int : b = MAX_TREE_DEPTH - 1
      BY <2>3
    <3> QED
      BY <1>20, <2>1, <2>2, <3>1, UpTo
  <2> QED
    BY <2>4 DEF S
<1>12. Leaf(depth)
  <2>1. depth # level => depth - 1 \in level .. depth - 1
    BY <1>2, <1>3
  <2> QED
    BY <1>2, <1>3, <1>9, <1>10, <2>1
<1>13. ASSUME NEW l \in Levels, Leaf(l) PROVE l = depth
  <2>1. l \in Int /\ level <= l /\ l <= MAX_TREE_DEPTH - 1
    BY <1>13, LevelsAre DEF Levels
  <2>2. CASE l < depth
    <3>1. l \in level .. depth - 1
      BY <1>2, <1>3, <2>1, <2>2
    <3> QED
      BY <1>9, <1>13, <3>1
  <2>3. CASE l > depth
    <3>1. l - 1 \in depth .. MAX_TREE_DEPTH - 1 /\ l # level
      BY <1>2, <1>3, <2>1, <2>3, LevelsAre
    <3> QED
      BY <1>10, <1>11, <1>13, <3>1
  <2> QED
    BY <1>2, <2>1, <2>2, <2>3
<1>14. (CHOOSE l \in Levels : Leaf(l)) = depth
  <2> HIDE DEF Leaf
  <2> QED
    BY <1>2, <1>12, <1>13
<1>15. d = [level        |-> depth,
            ancestors    |-> [l \in Levels |-> IF l \in level .. depth THEN way[l] ELSE c.ancestors[l]],
            ancestorsIdx |-> [l \in Levels |-> IF l \in level .. depth THEN idx[way[l]]
                                               ELSE c.ancestorsIdx[l]]]
  BY <1>0, <1>14 DEF descend
<1>16. /\ d.level = depth
       /\ \A l \in Levels : d.ancestors[l] = IF l \in level .. depth THEN way[l] ELSE c.ancestors[l]
       /\ \A l \in Levels : d.ancestorsIdx[l] = IF l \in level .. depth THEN idx[way[l]]
                                                ELSE c.ancestorsIdx[l]
  BY <1>15
<1>17. \A l \in level .. depth : d.ancestors[l] = way[l] /\ d.ancestorsIdx[l] = idx[way[l]]
  BY <1>4, <1>16
<1>18. Descended(r, n, c, level, idx, d)
  <2>1. ASSUME NEW l \in 0 .. level - 1
        PROVE  d.ancestors[l] = c.ancestors[l] /\ d.ancestorsIdx[l] = c.ancestorsIdx[l]
    <3>1. l \in Levels /\ l \notin level .. depth
      BY <1>2, <1>3, LevelsAre
    <3> QED
      BY <1>16, <3>1
  <2>2. \A l \in level .. depth - 1 : l + 1 \in level .. depth
    BY <1>2, <1>3
  <2>3. level \in level .. depth /\ depth \in level .. depth
    BY <1>2, <1>3
  <2> QED
    BY <1>2, <1>5, <1>7, <1>8, <1>9, <1>10, <1>16, <1>17, <2>1, <2>2, <2>3 DEF Descended
<1>19. ASSUME c.ancestors \in [Levels -> DOMAIN r.node \cup {NULL}],
              c.ancestorsIdx \in [Levels -> -1 .. FANOUT],
              \A m \in DOMAIN r.node : idx[m] \in -1 .. FANOUT
       PROVE  d \in CursorType(DOMAIN r.node)
  <2>1. \A l \in Levels : /\ (IF l \in level .. depth THEN way[l] ELSE c.ancestors[l]) \in DOMAIN r.node \cup {NULL}
                          /\ (IF l \in level .. depth THEN idx[way[l]] ELSE c.ancestorsIdx[l]) \in -1 .. FANOUT
    BY <1>7, <1>19
  <2> QED
    BY <1>2, <1>15, <2>1 DEF CursorType
<1> QED
  BY <1>18, <1>19

\* Nodes and indices that lead from the root down to level "top".
Links(r, anc, ix, top) ==
    /\ anc[0] = r.root
    /\ \A l \in 0 .. top - 1 : /\ ix[l] \in Kids(r.node[anc[l]])
                               /\ anc[l + 1] = Child(r.node[anc[l]], ix[l])

\* Each of these nodes is at its level, and what may come to it the indices let through.
Along(r, reg, lev, anc, ix, top) ==
    /\ \A l \in 0 .. top : /\ anc[l] \in DOMAIN r.node /\ lev[anc[l]] = l
                           /\ r.node[anc[l]].isLeaf <=> l = r.depth
    /\ \A l \in 0 .. top - 1 : reg[anc[l + 1]] = Piece(r.node[anc[l]], reg[anc[l]], ix[l])

LEMMA Followed ==
    ASSUME NEW r, NEW reg, NEW lev, Whole(r.node, r.root, r.depth, reg, lev),
           NEW anc, NEW ix, NEW top \in 0 .. r.depth, Links(r, anc, ix, top)
    PROVE  Along(r, reg, lev, anc, ix, top)
<1>1. r.depth \in Nat /\ r.root \in DOMAIN r.node /\ lev[r.root] = 0
  BY DEF Whole, Tree
<1>2. top \in Int /\ \A l \in 0 .. top : l \in Int
  OBVIOUS
<1>3. ASSUME NEW l \in 0 .. top - 1, anc[l] \in DOMAIN r.node, lev[anc[l]] = l
      PROVE  /\ anc[l + 1] \in DOMAIN r.node /\ lev[anc[l + 1]] = l + 1
             /\ reg[anc[l + 1]] = Piece(r.node[anc[l]], reg[anc[l]], ix[l])
  <2>1. l # r.depth
    BY <1>1
  <2>2. ~r.node[anc[l]].isLeaf
    BY <1>3, <2>1 DEF Whole, Tree, Placed
  <2> QED
    BY <1>3, <2>2 DEF Whole, Tree, Parts, Links
<1>4. \A l \in 0 .. top : anc[l] \in DOMAIN r.node /\ lev[anc[l]] = l
  <2> DEFINE S == {l \in Int : anc[l] \in DOMAIN r.node /\ lev[anc[l]] = l}
  <2>1. PICK a \in Int : a = 0
    OBVIOUS
  <2>2. a \in S
    BY <1>1, <2>1 DEF Links
  <2>3. \A l \in a .. top : l \in S /\ l # top => l + 1 \in S
    <3>1. ASSUME NEW l \in a .. top, l \in S, l # top PROVE l + 1 \in S
      <4>1. l \in 0 .. top - 1 /\ l + 1 \in Int
        BY <2>1, <3>1
      <4> QED
        BY <1>3, <3>1, <4>1
    <3> HIDE DEF S
    <3> QED
      BY <3>1
  <2> HIDE DEF S
  <2>4. \A l \in a .. top : l \in S
    BY <1>2, <2>2, <2>3, UpTo
  <2> QED
    BY <2>1, <2>4 DEF S
<1>5. \A l \in 0 .. top : r.node[anc[l]].isLeaf <=> l = r.depth
  BY <1>4 DEF Whole, Tree, Placed
<1>6. \A l \in 0 .. top - 1 : l \in 0 .. top
  BY <1>1
<1> QED
  BY <1>3, <1>4, <1>5, <1>6 DEF Along

\* The key may come to the nodes of levels a to b.
Comes(reg, anc, a, b, key) == \A l \in a .. b : key \in reg[anc[l]]

LEMMA KeyStays ==
    ASSUME NEW r, NEW reg, NEW lev, Whole(r.node, r.root, r.depth, reg, lev),
           NEW anc, NEW ix, NEW top \in 0 .. r.depth, Links(r, anc, ix, top),
           NEW a \in 0 .. top, NEW key, key \in reg[anc[a]],
           \A l \in a .. top - 1 : Between(r.node[anc[l]], ix[l], key)
    PROVE  Comes(reg, anc, a, top, key)
<1>1. r.depth \in Nat /\ a \in Int /\ top \in Int
  BY DEF Whole, Tree
<1>2. \A l \in 0 .. top - 1 : reg[anc[l + 1]] = Piece(r.node[anc[l]], reg[anc[l]], ix[l])
  <2>1. Along(r, reg, lev, anc, ix, top)
    BY Followed
  <2> QED
    BY <2>1 DEF Along
<1> DEFINE S == {l \in Int : key \in reg[anc[l]]}
<1>3. a \in S
  BY <1>1
<1>4. ASSUME NEW l \in a .. top, l \in S, l # top PROVE l + 1 \in S
  <2>1. l \in 0 .. top - 1 /\ l \in a .. top - 1 /\ l + 1 \in Int
    BY <1>1, <1>4
  <2>2. key \in Piece(r.node[anc[l]], reg[anc[l]], ix[l])
    BY <1>4, <2>1 DEF Piece
  <2> QED
    BY <1>2, <2>1, <2>2
<1> HIDE DEF S
<1>5. \A l \in a .. top : l \in S
  BY <1>1, <1>3, <1>4, UpTo
<1> QED
  BY <1>5 DEF S, Comes

LEMMA LastStays ==
    ASSUME NEW r, NEW reg, NEW lev, Whole(r.node, r.root, r.depth, reg, lev),
           NEW anc, NEW ix, NEW top \in 0 .. r.depth, Links(r, anc, ix, top),
           \A l \in 0 .. top - 1 : ix[l] = r.node[anc[l]].numKeys - 1
    PROVE  UpClosed(reg[anc[top]])
<1>1. r.depth \in Nat /\ top \in Int /\ reg[r.root] = Int
  BY DEF Whole, Tree
<1>2. /\ \A l \in 0 .. top - 1 : reg[anc[l + 1]] = Piece(r.node[anc[l]], reg[anc[l]], ix[l])
      /\ \A l \in 0 .. top : anc[l] \in DOMAIN r.node
  <2>1. Along(r, reg, lev, anc, ix, top)
    BY Followed
  <2> QED
    BY <2>1 DEF Along
<1> DEFINE S == {l \in Int : UpClosed(reg[anc[l]])}
<1>3. PICK a \in Int : a = 0
  OBVIOUS
<1>4. a \in S
  BY <1>1, <1>3 DEF Links, UpClosed
<1>5. ASSUME NEW l \in a .. top, l \in S, l # top PROVE l + 1 \in S
  <2>1. l \in 0 .. top - 1 /\ l \in 0 .. top /\ l + 1 \in Int
    BY <1>1, <1>3, <1>5
  <2>2. PICK nd \in {r.node[anc[l]]}, R \in SUBSET Int : nd = r.node[anc[l]] /\ R = reg[anc[l]]
    BY <1>2, <2>1 DEF Whole, Tree, Placed
  <2>3. nd.numKeys \in Nat /\ \A j \in 0 .. nd.numKeys - 1 : nd.entries[j].key \in Nat
    BY <1>2, <2>1, <2>2 DEF Whole, Tree, NodeRight, HasKeys
  <2>4. PICK i \in Int : i = nd.numKeys - 1 /\ (i # -1 => nd.entries[i].key \in Nat)
    BY <2>3
  <2>5. Piece(nd, R, i) = {k \in R : i # -1 => nd.entries[i].key <= k}
    BY <2>4 DEF Piece, Between
  <2>6. UpClosed(R)
    BY <1>5, <2>2
  <2>7. UpClosed(Piece(nd, R, i))
    <3>1. ASSUME NEW x \in Piece(nd, R, i), NEW y \in Int, x <= y PROVE y \in Piece(nd, R, i)
      <4>1. y \in R
        BY <2>5, <2>6, <3>1 DEF UpClosed
      <4>2. x \in Int /\ (i # -1 => nd.entries[i].key <= x)
        BY <2>5, <3>1
      <4>3. i # -1 => nd.entries[i].key <= y
        BY <2>4, <3>1, <4>2
      <4> QED
        BY <2>5, <4>1, <4>3
    <3> QED
      BY <3>1 DEF UpClosed
  <2>8. reg[anc[l + 1]] = Piece(nd, R, i)
    BY <1>2, <2>1, <2>2, <2>4
  <2> QED
    BY <2>1, <2>7, <2>8
<1> HIDE DEF S
<1>6. \A l \in a .. top : l \in S
  BY <1>1, <1>4, <1>5, UpTo
<1> QED
  BY <1>1, <1>3, <1>6 DEF S

\* The node n is what the cursor's path above "level" leads to.
Leads(r, c, n, level) ==
    IF level = 0 THEN n = r.root
    ELSE /\ Links(r, c.ancestors, c.ancestorsIdx, level - 1)
         /\ c.ancestorsIdx[level - 1] \in Kids(r.node[c.ancestors[level - 1]])
         /\ n = Child(r.node[c.ancestors[level - 1]], c.ancestorsIdx[level - 1])

LEMMA LeadsTo ==
    ASSUME NEW r, NEW reg, NEW lev, Whole(r.node, r.root, r.depth, reg, lev),
           NEW c, NEW n, NEW level \in 0 .. r.depth, Leads(r, c, n, level)
    PROVE  n \in DOMAIN r.node /\ lev[n] = level
<1>1. CASE level = 0
  BY <1>1 DEF Leads, Whole, Tree
<1>2. CASE level # 0
  <2>1. PICK k \in 0 .. r.depth : k = level - 1 /\ k # r.depth /\ level = k + 1 /\ k \in 0 .. k
    BY <1>2 DEF Whole, Tree
  <2>2. Links(r, c.ancestors, c.ancestorsIdx, k)
    BY <1>2, <2>1 DEF Leads
  <2>3. c.ancestors[k] \in DOMAIN r.node /\ lev[c.ancestors[k]] = k /\ (r.node[c.ancestors[k]].isLeaf <=> k = r.depth)
    <3>1. Along(r, reg, lev, c.ancestors, c.ancestorsIdx, k)
      BY <2>1, <2>2, Followed
    <3> QED
      BY <2>1, <3>1 DEF Along
  <2>4. PICK m, i : m = c.ancestors[k] /\ i = c.ancestorsIdx[k]
    OBVIOUS
  <2>5. i \in Kids(r.node[m]) /\ n = Child(r.node[m], i)
    BY <1>2, <2>1, <2>4 DEF Leads
  <2>6. m \in DOMAIN r.node /\ lev[m] = k /\ ~r.node[m].isLeaf
    BY <2>1, <2>3, <2>4
  <2>7. Parts(r.node, reg, lev, reg, m)
    BY <2>6 DEF Whole, Tree
  <2>8. n \in DOMAIN r.node /\ lev[n] = lev[m] + 1
    BY <2>5, <2>6, <2>7 DEF Parts
  <2> QED
    BY <2>1, <2>6, <2>8
<1> QED
  BY <1>1, <1>2

LEMMA DescendLinks ==
    ASSUME NEW r, r.depth \in Nat, NEW c, NEW n, NEW level \in 0 .. r.depth, Leads(r, c, n, level),
           NEW idx, Chosen(r.node, idx), NEW d, Descended(r, n, c, level, idx, d)
    PROVE  Links(r, d.ancestors, d.ancestorsIdx, r.depth)
<1>1. level \in Int /\ level >= 0 /\ level <= r.depth
  OBVIOUS
<1>2. d.ancestors[0] = r.root
  <2>1. CASE level = 0
    BY <2>1 DEF Descended, Leads
  <2>2. CASE level # 0
    <3>1. 0 \in 0 .. level - 1
      BY <1>1, <2>2
    <3> QED
      BY <2>2, <3>1 DEF Descended, Leads, Links
  <2> QED
    BY <2>1, <2>2
<1>3. ASSUME NEW l \in 0 .. r.depth - 1
      PROVE  /\ d.ancestorsIdx[l] \in Kids(r.node[d.ancestors[l]])
             /\ d.ancestors[l + 1] = Child(r.node[d.ancestors[l]], d.ancestorsIdx[l])
  <2>1. CASE l >= level
    <3>1. l \in level .. r.depth - 1 /\ l \in level .. r.depth
      BY <1>1, <2>1
    <3> QED
      BY <3>1 DEF Descended, Chosen
  <2>2. CASE l = level - 1
    <3>1. l \in 0 .. level - 1 /\ l + 1 = level /\ level # 0
      BY <1>1, <2>2
    <3>2. d.ancestors[l] = c.ancestors[l] /\ d.ancestorsIdx[l] = c.ancestorsIdx[l] /\ d.ancestors[l + 1] = n
      BY <3>1 DEF Descended
    <3> QED
      BY <2>2, <3>1, <3>2 DEF Leads
  <2>3. CASE l < level - 1
    <3>1. l \in 0 .. level - 1 /\ l + 1 \in 0 .. level - 1 /\ level # 0 /\ l \in 0 .. (level - 1) - 1
      BY <1>1, <2>3
    <3>2. /\ d.ancestors[l] = c.ancestors[l] /\ d.ancestorsIdx[l] = c.ancestorsIdx[l]
          /\ d.ancestors[l + 1] = c.ancestors[l + 1]
      BY <3>1 DEF Descended
    <3> QED
      BY <3>1, <3>2 DEF Leads, Links
  <2> QED
    BY <1>1, <2>1, <2>2, <2>3
<1> QED
  BY <1>2, <1>3 DEF Links

\* What the walks rely on, and a cursor that is a path of the tree.
Sound(r, reg, lev) ==
    /\ Whole(r.node, r.root, r.depth, reg, lev) /\ r.depth \in Levels
    /\ \A m \in DOMAIN r.node : /\ r.node[m].numKeys \in 0 .. FANOUT
                                /\ m # r.root => r.node[m].numKeys >= 1

LEMMA SoundIs ==
    ASSUME NEW r, NEW reg, NEW lev, Sound(r, reg, lev)
    PROVE  /\ Whole(r.node, r.root, r.depth, reg, lev) /\ r.depth \in Levels
           /\ r.depth \in Nat /\ r.depth \in Int /\ r.depth \in 0 .. r.depth
           /\ r.root \in DOMAIN r.node /\ lev[r.root] = 0 /\ reg[r.root] = Int
<1>1. r.depth \in Nat
  BY LevelsAre DEF Sound
<1>2. r.depth \in Int /\ r.depth \in 0 .. r.depth
  BY <1>1
<1> QED
  BY <1>1, <1>2 DEF Sound, Whole, Tree

IsPath(r, c) ==
    /\ c \in CursorType(DOMAIN r.node) /\ c.level = r.depth
    /\ Links(r, c.ancestors, c.ancestorsIdx, r.depth)
    /\ c.ancestorsIdx[r.depth] \in 0 .. r.node[c.ancestors[r.depth]].numKeys

\* An index for every node, within it.
Within(node, idx) ==
    \A m \in DOMAIN node : idx[m] \in IF node[m].isLeaf THEN 0 .. node[m].numKeys ELSE Kids(node[m])

LEMMA WalkIs ==
    ASSUME NEW r, NEW reg, NEW lev, Sound(r, reg, lev), NEW c,
           c.ancestors \in [Levels -> DOMAIN r.node \cup {NULL}], c.ancestorsIdx \in [Levels -> -1 .. FANOUT],
           NEW level \in 0 .. r.depth, NEW n, Leads(r, c, n, level),
           NEW idx, Within(r.node, idx), NEW d, d = descend(r, n, c, level, idx)
    PROVE  Descended(r, n, c, level, idx, d) /\ IsPath(r, d)
<1>1. /\ Whole(r.node, r.root, r.depth, reg, lev) /\ r.depth \in Levels /\ r.depth \in Nat
      /\ \A m \in DOMAIN r.node : r.node[m].numKeys \in 0 .. FANOUT
  BY SoundIs DEF Sound
<1>2. n \in DOMAIN r.node /\ level = lev[n]
  BY <1>1, LeadsTo
<1>3. Chosen(r.node, idx)
  BY DEF Within, Chosen
<1>4. \A m \in DOMAIN r.node : idx[m] \in -1 .. FANOUT
  <2>1. ASSUME NEW m \in DOMAIN r.node PROVE idx[m] \in -1 .. FANOUT
    <3>1. PICK k \in 0 .. FANOUT : k = r.node[m].numKeys
      BY <1>1
    <3>2. idx[m] \in 0 .. k \/ idx[m] \in -1 .. k - 1
      BY <3>1 DEF Within, Kids
    <3> QED
      BY <3>1, <3>2, FanoutIs
  <2> QED
    BY <2>1
<1>5. Descended(r, n, c, level, idx, d) /\ d \in CursorType(DOMAIN r.node)
  BY <1>1, <1>2, <1>3, <1>4, DescendIs
<1>6. Links(r, d.ancestors, d.ancestorsIdx, r.depth)
  BY <1>1, <1>3, <1>5, DescendLinks
<1>7. d.ancestorsIdx[r.depth] \in 0 .. r.node[d.ancestors[r.depth]].numKeys
  <2>1. r.depth \in level .. r.depth
    BY <1>1
  <2> QED
    BY <1>5, <2>1 DEF Descended, Within
<1> QED
  BY <1>5, <1>6, <1>7 DEF IsPath, Descended

\* The indices a key chooses.
ForKey(node, key) == [m \in DOMAIN node |-> IF node[m].isLeaf THEN findRecordIndex(node[m], key)
                                            ELSE findChildIndex(node[m], key)]

LEMMA ForKeyIs ==
    ASSUME NEW node, \A m \in DOMAIN node : HasKeys(node[m]), NEW key \in Int, NEW idx, idx = ForKey(node, key)
    PROVE  /\ Within(node, idx)
           /\ \A m \in DOMAIN node : ~node[m].isLeaf => Between(node[m], idx[m], key)
<1>1. ASSUME NEW m \in DOMAIN node, node[m].isLeaf PROVE idx[m] \in 0 .. node[m].numKeys
  <2>1. idx[m] = findRecordIndex(node[m], key)
    BY <1>1 DEF ForKey
  <2> QED
    BY <2>1, RecordIndex
<1>2. ASSUME NEW m \in DOMAIN node, ~node[m].isLeaf
      PROVE  idx[m] \in Kids(node[m]) /\ Between(node[m], idx[m], key)
  <2>1. idx[m] = findChildIndex(node[m], key)
    BY <1>2 DEF ForKey
  <2> QED
    BY <2>1, ChildIndex DEF Kids
<1> QED
  BY <1>1, <1>2 DEF Within

\* A walk down for a key that may come to n.
LEMMA ToKey ==
    ASSUME NEW r, NEW reg, NEW lev, Sound(r, reg, lev), NEW c,
           c.ancestors \in [Levels -> DOMAIN r.node \cup {NULL}], c.ancestorsIdx \in [Levels -> -1 .. FANOUT],
           NEW level \in 0 .. r.depth, NEW n, Leads(r, c, n, level),
           NEW key \in Int, key \in reg[n], NEW d, d = moveToKey(r, n, key, c, level)
    PROVE  /\ IsPath(r, d)
           /\ Comes(reg, d.ancestors, level, r.depth, key)
           /\ \A l \in 0 .. level - 1 :
                 d.ancestors[l] = c.ancestors[l] /\ d.ancestorsIdx[l] = c.ancestorsIdx[l]
           /\ d.ancestorsIdx[r.depth] = findRecordIndex(r.node[d.ancestors[r.depth]], key)
<1>1. PICK idx : idx = ForKey(r.node, key)
  OBVIOUS
<1>2. Within(r.node, idx) /\ \A m \in DOMAIN r.node : ~r.node[m].isLeaf => Between(r.node[m], idx[m], key)
  <2>1. \A m \in DOMAIN r.node : HasKeys(r.node[m])
    BY DEF Sound, Whole, Tree, NodeRight
  <2> QED
    BY <1>1, <2>1, ForKeyIs
<1>3. d = descend(r, n, c, level, idx)
  BY <1>1 DEF moveToKey, ForKey
<1>4. Descended(r, n, c, level, idx, d) /\ IsPath(r, d)
  BY <1>2, <1>3, WalkIs
<1>5. /\ Whole(r.node, r.root, r.depth, reg, lev) /\ r.depth \in Nat /\ r.depth \in 0 .. r.depth
      /\ level \in Int /\ r.depth \in level .. r.depth
  <2>1. Whole(r.node, r.root, r.depth, reg, lev) /\ r.depth \in Nat /\ r.depth \in 0 .. r.depth
    BY SoundIs
  <2> QED
    BY <2>1
<1>6. Comes(reg, d.ancestors, level, r.depth, key)
  <2>1. Links(r, d.ancestors, d.ancestorsIdx, r.depth) /\ key \in reg[d.ancestors[level]]
    BY <1>4 DEF Descended, IsPath
  <2>2. \A l \in level .. r.depth - 1 : l \in level .. r.depth
    BY <1>5
  <2>3. \A l \in level .. r.depth - 1 : Between(r.node[d.ancestors[l]], d.ancestorsIdx[l], key)
    BY <1>2, <1>4, <2>2 DEF Descended
  <2> QED
    BY <1>5, <2>1, <2>3, KeyStays
<1>7. d.ancestorsIdx[r.depth] = findRecordIndex(r.node[d.ancestors[r.depth]], key)
  BY <1>1, <1>4, <1>5 DEF Descended, ForKey
<1> QED
  BY <1>4, <1>6, <1>7 DEF Descended

LEMMA FirstPointers ==
    ASSUME NEW r, NEW reg, NEW lev, Sound(r, reg, lev), NEW idx,
           idx = [m \in DOMAIN r.node |-> firstpointer(r.node[m])]
    PROVE  Within(r.node, idx)
<1>1. ASSUME NEW m \in DOMAIN r.node
      PROVE  idx[m] \in IF r.node[m].isLeaf THEN 0 .. r.node[m].numKeys ELSE Kids(r.node[m])
  <2>1. r.node[m].numKeys \in Nat
    BY DEF Sound, Whole, Tree, NodeRight, HasKeys
  <2>2. idx[m] = IF r.node[m].isLeaf THEN 0 ELSE -1
    BY DEF firstpointer
  <2> QED
    BY <2>1, <2>2 DEF Kids
<1> QED
  BY <1>1 DEF Within

LEMMA LastPointers ==
    ASSUME NEW r, NEW reg, NEW lev, Sound(r, reg, lev), NEW idx,
           idx = [m \in DOMAIN r.node |-> lastpointer(r.node[m])]
    PROVE  Within(r.node, idx)
<1>1. ASSUME NEW m \in DOMAIN r.node
      PROVE  idx[m] \in IF r.node[m].isLeaf THEN 0 .. r.node[m].numKeys ELSE Kids(r.node[m])
  <2>1. r.node[m].numKeys \in Nat
    BY DEF Sound, Whole, Tree, NodeRight, HasKeys
  <2>2. idx[m] = IF r.node[m].isLeaf THEN r.node[m].numKeys ELSE r.node[m].numKeys - 1
    BY DEF lastpointer
  <2> QED
    BY <2>1, <2>2 DEF Kids
<1> QED
  BY <1>1 DEF Within

\* What two cursors have in common above a level.
SameAbove(c, d, level) ==
    \A l \in 0 .. level - 1 : d.ancestors[l] = c.ancestors[l] /\ d.ancestorsIdx[l] = c.ancestorsIdx[l]

LEMMA ToFirst ==
    ASSUME NEW r, NEW reg, NEW lev, Sound(r, reg, lev), NEW c,
           c.ancestors \in [Levels -> DOMAIN r.node \cup {NULL}], c.ancestorsIdx \in [Levels -> -1 .. FANOUT],
           NEW level \in 0 .. r.depth, NEW n, Leads(r, c, n, level),
           NEW d, d = moveToFirst(r, n, c, level)
    PROVE  /\ IsPath(r, d) /\ d.ancestors[level] = n
           /\ \A l \in level .. r.depth : /\ d.ancestors[l] \in DOMAIN r.node
                                          /\ d.ancestorsIdx[l] = firstpointer(r.node[d.ancestors[l]])
           /\ SameAbove(c, d, level)
<1>1. PICK idx : idx = [m \in DOMAIN r.node |-> firstpointer(r.node[m])]
  OBVIOUS
<1>2. Within(r.node, idx)
  BY <1>1, FirstPointers
<1>3. d = descend(r, n, c, level, idx)
  BY <1>1 DEF moveToFirst
<1>4. Descended(r, n, c, level, idx, d) /\ IsPath(r, d)
  BY <1>2, <1>3, WalkIs
<1> QED
  BY <1>1, <1>4 DEF Descended, SameAbove

LEMMA LeadsOn ==
    ASSUME NEW r, NEW c, NEW level \in Nat, NEW n, Leads(r, c, n, level),
           NEW d, SameAbove(c, d, level), d.ancestors[level] = n
    PROVE  Links(r, d.ancestors, d.ancestorsIdx, level)
<1>1. d.ancestors[0] = r.root
  <2>1. CASE level = 0
    BY <2>1 DEF Leads
  <2>2. CASE level # 0
    <3>1. 0 \in 0 .. level - 1
      BY <2>2
    <3> QED
      BY <2>2, <3>1 DEF SameAbove, Leads, Links
  <2> QED
    BY <2>1, <2>2
<1>2. ASSUME NEW l \in 0 .. level - 1
      PROVE  /\ d.ancestorsIdx[l] \in Kids(r.node[d.ancestors[l]])
             /\ d.ancestors[l + 1] = Child(r.node[d.ancestors[l]], d.ancestorsIdx[l])
  <2>1. d.ancestors[l] = c.ancestors[l] /\ d.ancestorsIdx[l] = c.ancestorsIdx[l] /\ level # 0
    BY DEF SameAbove
  <2>2. CASE l = level - 1
    <3>1. l + 1 = level
      BY <2>2
    <3> QED
      BY <2>1, <2>2, <3>1 DEF Leads
  <2>3. CASE l < level - 1
    <3>1. l + 1 \in 0 .. level - 1 /\ l \in 0 .. (level - 1) - 1
      BY <2>3
    <3>2. d.ancestors[l + 1] = c.ancestors[l + 1]
      BY <3>1 DEF SameAbove
    <3> QED
      BY <2>1, <3>1, <3>2 DEF Leads, Links
  <2> QED
    BY <2>2, <2>3
<1> QED
  BY <1>1, <1>2 DEF Links

LEMMA ToLast ==
    ASSUME NEW r, NEW reg, NEW lev, Sound(r, reg, lev), NEW c, c \in CursorType(DOMAIN r.node),
           NEW level \in 0 .. r.depth, NEW n, Leads(r, c, n, level),
           NEW d, d = moveToLast(r, n, c, level)
    PROVE  /\ IsPath(r, d) /\ SameAbove(c, d, level) /\ d.ancestors[level] = n
           /\ d.ancestorsIdx[r.depth] = IF level = r.depth THEN r.node[n].numKeys ELSE 0
<1>1. /\ Whole(r.node, r.root, r.depth, reg, lev) /\ r.depth \in Levels /\ r.depth \in Nat /\ level \in Nat
      /\ level \in Levels /\ n \in DOMAIN r.node /\ lev[n] = level
  <2>1. Whole(r.node, r.root, r.depth, reg, lev) /\ r.depth \in Levels /\ r.depth \in Nat
    BY SoundIs
  <2>2. n \in DOMAIN r.node /\ lev[n] = level
    BY <2>1, LeadsTo
  <2>3. level \in Levels /\ level \in Nat
    BY <2>1, LevelsAre
  <2> QED
    BY <2>1, <2>2, <2>3
<1>2. r.node[n].numKeys \in 0 .. FANOUT /\ (r.node[n].isLeaf <=> level = r.depth)
  BY <1>1 DEF Sound, Whole, Tree, Placed
<1>3. PICK last : last = lastpointer(r.node[n])
  OBVIOUS
<1>4. last \in -1 .. FANOUT
  BY <1>2, <1>3, FanoutIs DEF lastpointer
<1> DEFINE at == SetAt(c, level, n, last)
<1>5. /\ at \in CursorType(DOMAIN r.node)
      /\ at = [level |-> level, ancestors |-> [c.ancestors EXCEPT ![level] = n],
               ancestorsIdx |-> [c.ancestorsIdx EXCEPT ![level] = last]]
  <2>1. at = [level |-> level, ancestors |-> [c.ancestors EXCEPT ![level] = n],
              ancestorsIdx |-> [c.ancestorsIdx EXCEPT ![level] = last]]
    <3>1. IsCursor(c, c.level, c.ancestors, c.ancestorsIdx)
      BY DEF CursorType, IsCursor
    <3>2. IsCursor(at, level, [c.ancestors EXCEPT ![level] = n], [c.ancestorsIdx EXCEPT ![level] = last])
      BY <3>1, CursorSet
    <3> HIDE DEF at
    <3> QED
      BY <3>2 DEF IsCursor
  <2> HIDE DEF at
  <2> QED
    BY <1>1, <1>4, <2>1 DEF CursorType
<1>6. /\ at.level = level /\ at.ancestors[level] = n /\ at.ancestorsIdx[level] = last
      /\ \A l \in Levels : l # level => at.ancestors[l] = c.ancestors[l] /\ at.ancestorsIdx[l] = c.ancestorsIdx[l]
  <2>1. at = [level |-> level, ancestors |-> [c.ancestors EXCEPT ![level] = n],
              ancestorsIdx |-> [c.ancestorsIdx EXCEPT ![level] = last]]
    BY <1>5
  <2> HIDE DEF at
  <2> QED
    BY <1>1, <2>1 DEF CursorType
<1> HIDE DEF at
<1>7. SameAbove(c, at, level)
  <2>1. \A l \in 0 .. level - 1 : l # level /\ l \in Levels
    <3>1. \A l \in 0 .. level - 1 : l # level /\ l \in 0 .. level
      BY <1>1
    <3> QED
      BY <1>1, <3>1, LevelsAre
  <2> QED
    BY <1>6, <2>1 DEF SameAbove
<1>8. Links(r, at.ancestors, at.ancestorsIdx, level)
  BY <1>1, <1>6, <1>7, LeadsOn
<1>9. CASE r.node[n].isLeaf
  <2>1. d = at /\ level = r.depth /\ last = r.node[n].numKeys
    BY <1>2, <1>3, <1>9 DEF moveToLast, at, SetAt, lastpointer
  <2>2. last \in 0 .. r.node[n].numKeys
    BY <1>2, <2>1
  <2>3. IsPath(r, d)
    BY <1>5, <1>6, <1>8, <2>1, <2>2 DEF IsPath
  <2> QED
    BY <1>6, <1>7, <2>1, <2>3
<1>10. CASE ~r.node[n].isLeaf
  <2>1. last \in Kids(r.node[n])
    BY <1>2, <1>3, <1>10 DEF lastpointer, Kids
  <2>2. PICK child : child = Child(r.node[n], last)
    OBVIOUS
  <2>3. d = moveToFirst(r, child, at, level + 1)
    BY <1>3, <1>10, <2>2 DEF moveToLast, at, SetAt
  <2>4. level + 1 \in 0 .. r.depth /\ (level + 1) - 1 = level /\ level + 1 # 0
    BY <1>1, <1>2, <1>10
  <2>5. Leads(r, at, child, level + 1)
    BY <1>6, <1>8, <2>1, <2>2, <2>4 DEF Leads
  <2>6. at.ancestors \in [Levels -> DOMAIN r.node \cup {NULL}] /\ at.ancestorsIdx \in [Levels -> -1 .. FANOUT]
    BY <1>5 DEF CursorType
  <2>7. PICK k \in 0 .. r.depth : k = level + 1 /\ r.depth \in k .. r.depth /\ level # r.depth
    BY <1>1, <2>4
  <2>8. /\ IsPath(r, d) /\ SameAbove(at, d, k) /\ d.ancestors[r.depth] \in DOMAIN r.node
        /\ d.ancestorsIdx[r.depth] = firstpointer(r.node[d.ancestors[r.depth]])
    <3>1. /\ IsPath(r, d) /\ SameAbove(at, d, k)
          /\ \A l \in k .. r.depth : /\ d.ancestors[l] \in DOMAIN r.node
                                     /\ d.ancestorsIdx[l] = firstpointer(r.node[d.ancestors[l]])
      BY <2>3, <2>5, <2>6, <2>7, ToFirst
    <3> QED
      BY <2>7, <3>1
  <2>9. SameAbove(c, d, level) /\ d.ancestors[level] = n
    <3>1. level \in 0 .. k - 1 /\ \A l \in 0 .. level - 1 : l \in 0 .. k - 1
      BY <1>1, <2>7
    <3> QED
      BY <1>6, <1>7, <2>8, <3>1 DEF SameAbove
  <2>10. r.node[d.ancestors[r.depth]].isLeaf
    <3>1. Along(r, reg, lev, d.ancestors, d.ancestorsIdx, r.depth)
      BY <1>1, <2>7, <2>8, Followed DEF IsPath
    <3> QED
      BY <2>7, <3>1 DEF Along
  <2> QED
    BY <2>7, <2>8, <2>9, <2>10 DEF firstpointer
<1> QED
  BY <1>9, <1>10

LEMMA LinksLead ==
    ASSUME NEW r, NEW c, NEW top \in Nat, Links(r, c.ancestors, c.ancestorsIdx, top),
           NEW l \in 0 .. top, NEW d, SameAbove(c, d, l)
    PROVE  Leads(r, d, c.ancestors[l], l)
<1>1. CASE l = 0
  BY <1>1 DEF Leads, Links
<1>2. CASE l # 0
  <2>1. PICK k \in 0 .. top - 1 : k = l - 1 /\ l = k + 1 /\ k \in 0 .. l - 1
    BY <1>2
  <2>2. d.ancestors[k] = c.ancestors[k] /\ d.ancestorsIdx[k] = c.ancestorsIdx[k]
    BY <2>1 DEF SameAbove
  <2>3. Links(r, d.ancestors, d.ancestorsIdx, k)
    <3>1. 0 \in 0 .. l - 1
      BY <1>2
    <3>2. \A j \in 0 .. k - 1 : j \in 0 .. top - 1 /\ j \in 0 .. l - 1 /\ j + 1 \in 0 .. l - 1
      BY <2>1
    <3>3. d.ancestors[0] = r.root
      BY <3>1 DEF SameAbove, Links
    <3>4. ASSUME NEW j \in 0 .. k - 1
          PROVE  /\ d.ancestorsIdx[j] \in Kids(r.node[d.ancestors[j]])
                 /\ d.ancestors[j + 1] = Child(r.node[d.ancestors[j]], d.ancestorsIdx[j])
      <4>1. /\ d.ancestors[j] = c.ancestors[j] /\ d.ancestorsIdx[j] = c.ancestorsIdx[j]
            /\ d.ancestors[j + 1] = c.ancestors[j + 1]
        BY <3>2 DEF SameAbove
      <4> QED
        BY <3>2, <4>1 DEF Links
    <3> QED
      BY <3>3, <3>4 DEF Links
  <2>4. /\ d.ancestorsIdx[k] \in Kids(r.node[d.ancestors[k]])
        /\ c.ancestors[l] = Child(r.node[d.ancestors[k]], d.ancestorsIdx[k])
    BY <2>1, <2>2 DEF Links
  <2> QED
    BY <1>2, <2>1, <2>3, <2>4 DEF Leads
<1> QED
  BY <1>1, <1>2

\* A node that is sure to be above a key is one that a walk may bring the key to.
LEMMA SureIs ==
    ASSUME NEW r, NEW reg, NEW lev, Sound(r, reg, lev), NEW n \in DOMAIN r.node, n # r.root,
           NEW key \in Nat, IF r.node[n].isLeaf THEN holdsKey(r.node[n], key) ELSE isNodeParent(r.node[n], key)
    PROVE  key \in reg[n]
<1>1. PICK nd \in {r.node[n]}, R \in SUBSET Int : nd = r.node[n] /\ R = reg[n]
  BY DEF Sound, Whole, Tree, Placed
<1>2. /\ HasKeys(nd) /\ Convex(R) /\ NodeKeys(nd) \subseteq R
      /\ nd.FirstLeaf => -1 \in R
      /\ nd.LastLeaf => UpClosed(R)
      /\ nd.numKeys >= 1
  BY <1>1 DEF Sound, Whole, Tree, Placed, NodeRight
<1>3. PICK k \in Nat, a \in {nd.entries} : k = nd.numKeys /\ k >= 1 /\ a = nd.entries
  BY <1>2 DEF HasKeys
<1>4. \A i \in 0 .. k - 1 : a[i].key \in Nat /\ a[i].key \in R
  BY <1>2, <1>3 DEF HasKeys, NodeKeys
<1>5. CASE nd.isLeaf
  <2>1. PICK lo \in Nat, hi \in Nat : lo = a[0].key /\ hi = a[k - 1].key /\ lo \in R /\ hi \in R
    <3>1. 0 \in 0 .. k - 1 /\ k - 1 \in 0 .. k - 1
      BY <1>3
    <3> QED
      BY <1>4, <3>1
  <2>2. \/ lo <= key /\ key <= hi
        \/ lo <= key /\ nd.LastLeaf
        \/ key <= hi /\ nd.FirstLeaf
    BY <1>1, <1>3, <1>5, <2>1 DEF holdsKey
  <2>3. CASE lo <= key /\ key <= hi
    BY <1>1, <1>2, <2>1, <2>3 DEF Convex
  <2>4. CASE lo <= key /\ nd.LastLeaf
    BY <1>1, <1>2, <2>1, <2>4 DEF UpClosed
  <2>5. CASE key <= hi /\ nd.FirstLeaf
    <3>1. -1 \in R
      BY <1>2, <2>5
    <3>2. -1 <= key
      OBVIOUS
    <3> QED
      BY <1>1, <1>2, <2>1, <2>5, <3>1, <3>2 DEF Convex
  <2> QED
    BY <2>2, <2>3, <2>4, <2>5
<1>6. CASE ~nd.isLeaf
  <2>1. PICK t : t = findChildIndex(nd, key)
    OBVIOUS
  <2>2. t \in -1 .. nd.numKeys - 1 /\ Between(nd, t, key)
    BY <1>2, <2>1, ChildIndex
  <2>3. t # -1 /\ t # nd.numKeys - 1
    BY <1>1, <1>6, <2>1 DEF isNodeParent
  <2>4. t \in 0 .. k - 1 /\ t + 1 \in 0 .. k - 1 /\ a[t].key <= key /\ key < a[t + 1].key
    BY <1>3, <2>2, <2>3 DEF Between
  <2>5. PICK lo \in Nat, hi \in Nat : lo = a[t].key /\ hi = a[t + 1].key /\ lo \in R /\ hi \in R
    BY <1>4, <2>4
  <2> QED
    BY <1>1, <1>2, <2>4, <2>5 DEF Convex
<1> QED
  BY <1>5, <1>6


LEMMA KeyAbove ==
    ASSUME NEW r, NEW reg, NEW lev, Sound(r, reg, lev), NEW c, IsPath(r, c),
           NEW key, key \in reg[c.ancestors[r.depth]]
    PROVE  Comes(reg, c.ancestors, 0, r.depth, key)
<1>1. Whole(r.node, r.root, r.depth, reg, lev) /\ r.depth \in Int /\ r.depth \in Nat /\ r.depth \in 0 .. r.depth
  BY SoundIs
<1>2. Along(r, reg, lev, c.ancestors, c.ancestorsIdx, r.depth)
  BY <1>1, Followed DEF IsPath
<1>3. PICK depth \in Nat, anc \in {c.ancestors} : depth = r.depth /\ anc = c.ancestors
  BY <1>1
<1> DEFINE S == {i \in Int : key \in reg[anc[depth - i]]}
<1>4. PICK a \in Int : a = 0
  OBVIOUS
<1>5. a \in S
  BY <1>3, <1>4
<1>6. ASSUME NEW i \in a .. depth, i \in S, i # depth PROVE i + 1 \in S
  <2>1. PICK l \in 0 .. depth - 1 : l = depth - (i + 1) /\ depth - i = l + 1
    BY <1>4, <1>6
  <2>2. key \in reg[anc[l + 1]]
    BY <1>6, <2>1
  <2>3. key \in reg[anc[l]]
    BY <1>2, <1>3, <2>1, <2>2 DEF Along, Piece
  <2> QED
    BY <1>6, <2>1, <2>3
<1>7. depth \in Int
  OBVIOUS
<1> HIDE DEF S
<1>8. \A i \in a .. depth : i \in S
  BY <1>5, <1>6, <1>7, UpTo
<1>9. ASSUME NEW l \in 0 .. depth PROVE key \in reg[anc[l]]
  <2>1. PICK i \in a .. depth : i = depth - l /\ depth - i = l
    BY <1>4
  <2>2. i \in S
    BY <1>8
  <2> QED
    BY <2>1, <2>2 DEF S
<1> QED
  BY <1>3, <1>9 DEF Comes

\* AscendToParent and moveToKey together find the leaf for a key from any other.
LEMMA GoToKey ==
    ASSUME NEW r, NEW reg, NEW lev, Sound(r, reg, lev), NEW c, IsPath(r, c), NEW key \in Nat,
           NEW d, d = goToKey(r, c, key)
    PROVE  /\ IsPath(r, d) /\ Comes(reg, d.ancestors, 0, r.depth, key)
           /\ d.ancestorsIdx[r.depth] = findRecordIndex(r.node[d.ancestors[r.depth]], key)
<1>1. /\ Whole(r.node, r.root, r.depth, reg, lev) /\ r.depth \in Levels
      /\ r.depth \in Nat /\ r.depth \in Int /\ r.depth \in 0 .. r.depth
      /\ r.root \in DOMAIN r.node /\ lev[r.root] = 0 /\ reg[r.root] = Int
  BY SoundIs
<1>2. /\ c \in CursorType(DOMAIN r.node) /\ c.level = r.depth
      /\ Links(r, c.ancestors, c.ancestorsIdx, r.depth)
  BY DEF IsPath
<1>3. Along(r, reg, lev, c.ancestors, c.ancestorsIdx, r.depth)
  BY <1>1, <1>2, Followed
<1> DEFINE sure(l) == LET n == r.node[c.ancestors[l]]
                      IN  l = 0 \/ IF n.isLeaf THEN holdsKey(n, key) ELSE isNodeParent(n, key)
           P(l) == sure(l) /\ \A j \in l + 1 .. c.level : ~sure(j)
           S == {l \in Int : sure(l)}
<1>4. PICK depth \in Int, a \in Int : depth = r.depth /\ a = 0 /\ depth >= 0
  BY <1>1
<1>5. a \in a .. depth /\ a \in S
  BY <1>4
<1>6. PICK l \in a .. depth : l \in S /\ \A j \in l + 1 .. depth : j \notin S
  <2> HIDE DEF S
  <2> QED
    BY <1>5, Highest
<1>7. \E l2 \in 0 .. c.level : P(l2)
  <2>1. l \in 0 .. c.level /\ sure(l)
    BY <1>2, <1>4, <1>6
  <2>2. \A j \in l + 1 .. c.level : j \in Int /\ j \in l + 1 .. depth
    BY <1>2, <1>4
  <2>3. \A j \in l + 1 .. c.level : ~sure(j)
    <3> HIDE DEF sure
    <3> QED
      BY <1>6, <2>2
  <2> HIDE DEF sure
  <2> QED
    BY <2>1, <2>3
<1>8. PICK top : top = CHOOSE l2 \in 0 .. c.level : P(l2)
  OBVIOUS
<1>9. top \in 0 .. c.level /\ sure(top)
  <2> HIDE DEF sure
  <2> QED
    BY <1>7, <1>8
<1>10. PICK up : up = AscendToParent(r, c, key)
  OBVIOUS
<1>11. up = [c EXCEPT !.level = top]
  BY <1>8, <1>10 DEF AscendToParent
<1>12. up.level = top /\ up.ancestors = c.ancestors /\ up.ancestorsIdx = c.ancestorsIdx
  BY <1>2, <1>11 DEF CursorType
<1>13. PICK n : n = c.ancestors[top]
  OBVIOUS
<1>14. top \in 0 .. r.depth /\ n \in DOMAIN r.node /\ lev[n] = top
  BY <1>2, <1>3, <1>9, <1>13 DEF Along
<1>15. key \in reg[n]
  <2>1. CASE top = 0
    <3>1. n = r.root
      BY <1>2, <1>13, <2>1 DEF Links
    <3> QED
      BY <1>1, <3>1
  <2>2. CASE top # 0
    <3>1. n # r.root
      BY <1>1, <1>14, <2>2
    <3>2. IF r.node[n].isLeaf THEN holdsKey(r.node[n], key) ELSE isNodeParent(r.node[n], key)
      BY <1>9, <1>13, <2>2
    <3> QED
      BY <1>14, <3>1, <3>2, SureIs
  <2> QED
    BY <2>1, <2>2
<1>16. Leads(r, up, n, top)
  <2>1. SameAbove(c, up, top)
    BY <1>12 DEF SameAbove
  <2> QED
    BY <1>1, <1>2, <1>13, <1>14, <2>1, LinksLead
<1>17. up.ancestors \in [Levels -> DOMAIN r.node \cup {NULL}] /\ up.ancestorsIdx \in [Levels -> -1 .. FANOUT]
  BY <1>2, <1>12 DEF CursorType
<1>18. d = moveToKey(r, n, key, up, top)
  BY <1>10, <1>12, <1>13 DEF goToKey
<1>19. /\ IsPath(r, d) /\ Comes(reg, d.ancestors, top, r.depth, key)
       /\ d.ancestorsIdx[r.depth] = findRecordIndex(r.node[d.ancestors[r.depth]], key)
  BY <1>14, <1>15, <1>16, <1>17, <1>18, ToKey
<1>20. key \in reg[d.ancestors[r.depth]]
  <2>1. r.depth \in top .. r.depth
    BY <1>1, <1>14
  <2> QED
    BY <1>19, <2>1 DEF Comes
<1> QED
  BY <1>19, <1>20, KeyAbove

MovedTo(up, i) == [up EXCEPT !.ancestorsIdx[up.level] = i]

\* A cursor climbs to a level and takes another index there.
LEMMA StepAside ==
    ASSUME NEW r, NEW reg, NEW lev, Sound(r, reg, lev), NEW c, IsPath(r, c), NEW top \in 0 .. r.depth,
           NEW up, up = [c EXCEPT !.level = top], NEW nd, nd = r.node[c.ancestors[top]],
           NEW i, i \in IF nd.isLeaf THEN 0 .. nd.numKeys ELSE Kids(nd), NEW at, at = MovedTo(up, i)
    PROVE  /\ at \in CursorType(DOMAIN r.node)
           /\ SameAbove(c, at, top) /\ at.ancestors = c.ancestors /\ at.ancestorsIdx[top] = i
           /\ nd.isLeaf => IsPath(r, at)
           /\ ~nd.isLeaf => top + 1 \in 0 .. r.depth /\ Leads(r, at, Child(nd, i), top + 1)
<1>1. /\ Whole(r.node, r.root, r.depth, reg, lev) /\ r.depth \in Levels
      /\ r.depth \in Nat /\ r.depth \in Int /\ r.depth \in 0 .. r.depth
  BY SoundIs
<1>2. /\ c \in CursorType(DOMAIN r.node) /\ c.level = r.depth
      /\ Links(r, c.ancestors, c.ancestorsIdx, r.depth)
  BY DEF IsPath
<1>3. Along(r, reg, lev, c.ancestors, c.ancestorsIdx, r.depth)
  BY <1>1, <1>2, Followed
<1>4. c.ancestors[top] \in DOMAIN r.node /\ (nd.isLeaf <=> top = r.depth)
  BY <1>3 DEF Along
<1>5. i \in -1 .. FANOUT
  <2>1. PICK k \in 0 .. FANOUT : k = nd.numKeys
    BY <1>4 DEF Sound
  <2>2. i \in 0 .. k \/ i \in -1 .. k - 1
    BY <2>1 DEF Kids
  <2> QED
    BY <2>1, <2>2, FanoutIs
<1>6. up = [level |-> top, ancestors |-> c.ancestors, ancestorsIdx |-> c.ancestorsIdx] /\ up.level = top
  BY <1>2 DEF CursorType
<1>7. at = [level |-> top, ancestors |-> c.ancestors, ancestorsIdx |-> [c.ancestorsIdx EXCEPT ![top] = i]]
  BY <1>6 DEF MovedTo
<1>8. top \in Levels /\ top \in Nat
  BY <1>1, LevelsAre
<1>9. at \in CursorType(DOMAIN r.node)
  BY <1>2, <1>5, <1>7, <1>8 DEF CursorType
<1>10. /\ at.level = top /\ at.ancestors = c.ancestors /\ at.ancestorsIdx[top] = i
       /\ \A l \in Levels : l # top => at.ancestorsIdx[l] = c.ancestorsIdx[l]
  BY <1>2, <1>7, <1>8 DEF CursorType
<1>11. SameAbove(c, at, top)
  <2>1. \A l \in 0 .. top - 1 : l # top /\ l \in 0 .. top
    BY <1>8
  <2>2. \A l \in 0 .. top - 1 : l # top /\ l \in Levels
    BY <1>8, <2>1, LevelsAre
  <2> QED
    BY <1>10, <2>2 DEF SameAbove
<1>12. Leads(r, at, c.ancestors[top], top)
  BY <1>1, <1>2, <1>11, LinksLead
<1>13. Links(r, at.ancestors, at.ancestorsIdx, top)
  <2>1. SameAbove(at, at, top)
    BY DEF SameAbove
  <2> QED
    BY <1>8, <1>10, <1>12, <2>1, LeadsOn
<1>14. nd.isLeaf => IsPath(r, at)
  BY <1>4, <1>9, <1>10, <1>13 DEF IsPath
<1>15. ASSUME ~nd.isLeaf PROVE top + 1 \in 0 .. r.depth /\ Leads(r, at, Child(nd, i), top + 1)
  <2>1. top + 1 \in 0 .. r.depth /\ (top + 1) - 1 = top /\ top + 1 # 0
    BY <1>1, <1>4, <1>8, <1>15
  <2> QED
    BY <1>10, <1>13, <1>15, <2>1 DEF Leads
<1> QED
  BY <1>9, <1>10, <1>11, <1>14, <1>15

\* Where AscendFrom stops: above it, the indices are at the last (the first) pointers.
AtEnd(r, c, forward, l) ==
    LET n == r.node[c.ancestors[l]]
    IN  c.ancestorsIdx[l] = IF forward THEN lastpointer(n) ELSE firstpointer(n)

LEMMA AscendIs ==
    ASSUME NEW r, NEW c, c.level \in Nat, NEW forward, NEW up, up = AscendFrom(r, c, forward)
    PROVE  \E top \in 0 .. c.level : /\ up = [c EXCEPT !.level = top]
                                     /\ top # 0 => ~AtEnd(r, c, forward, top)
                                     /\ \A j \in top + 1 .. c.level : AtEnd(r, c, forward, j)
<1> DEFINE P(l) == (l # 0 => ~AtEnd(r, c, forward, l)) /\ \A j \in l + 1 .. c.level : AtEnd(r, c, forward, j)
           S == {l \in Int : l = 0 \/ ~AtEnd(r, c, forward, l)}
<1>1. PICK depth \in Int, a \in Int : depth = c.level /\ a = 0 /\ depth >= 0
  OBVIOUS
<1>2. a \in a .. depth /\ a \in S
  BY <1>1
<1>3. PICK l \in a .. depth : l \in S /\ \A j \in l + 1 .. depth : j \notin S
  <2> HIDE DEF S
  <2> QED
    BY <1>2, Highest
<1>4. l \in 0 .. c.level /\ P(l)
  <2>1. l \in 0 .. c.level /\ l \in Int
    BY <1>1
  <2>2. \A j \in l + 1 .. c.level : j \in Int /\ j \in l + 1 .. depth /\ j # 0
    BY <1>1, <2>1
  <2>3. \A j \in l + 1 .. c.level : AtEnd(r, c, forward, j)
    BY <1>3, <2>2
  <2> QED
    BY <1>3, <2>1, <2>3
<1>5. PICK top : top = CHOOSE k \in 0 .. c.level : P(k)
  OBVIOUS
<1>6. top \in 0 .. c.level /\ P(top)
  <2> HIDE DEF P
  <2> QED
    BY <1>4, <1>5
<1>7. up = [c EXCEPT !.level = top]
  BY <1>5 DEF AscendFrom, AtEnd
<1> QED
  BY <1>6, <1>7

\* The cursor d is c with its index at level "top" moved, and other indices below it.
Aside(r, c, d, top, by) ==
    /\ top \in 0 .. r.depth /\ SameAbove(c, d, top) /\ d.ancestors[top] = c.ancestors[top]
    /\ d.ancestorsIdx[top] = c.ancestorsIdx[top] + by

\* Where moveToNext and moveToPrev go from c.
NextGoes(r, c, d) ==
    IF r.numRecords = 0 \/ ~isValid(r, c) THEN d = c
    ELSE \E top \in 0 .. r.depth :
             /\ Aside(r, c, d, top, 1) /\ ~AtEnd(r, c, TRUE, top)
             /\ \A j \in top + 1 .. r.depth : /\ AtEnd(r, c, TRUE, j)
                                             /\ AtEnd(r, d, FALSE, j)

PrevGoes(r, c, d) ==
    IF r.numRecords = 0 \/ isFirst(r, c) THEN d = c
    ELSE \E top \in 0 .. r.depth :
             /\ Aside(r, c, d, top, -1) /\ ~AtEnd(r, c, FALSE, top)
             /\ \A j \in top + 1 .. r.depth : AtEnd(r, c, FALSE, j)
             /\ top # r.depth =>
                   d.ancestorsIdx[r.depth] = IF top + 1 = r.depth
                                             THEN r.node[d.ancestors[r.depth]].numKeys ELSE 0

LEMMA AsideOf ==
    ASSUME NEW r, NEW c, NEW d, NEW at, NEW top, top \in 0 .. r.depth, NEW level, level = top + 1, NEW i, NEW by,
           SameAbove(c, at, top), at.ancestors = c.ancestors, at.ancestorsIdx[top] = i,
           i = c.ancestorsIdx[top] + by, SameAbove(at, d, level)
    PROVE  Aside(r, c, d, top, by)
<1>1. top \in 0 .. level - 1 /\ \A l \in 0 .. top - 1 : l \in 0 .. level - 1
  OBVIOUS
<1> QED
  BY <1>1 DEF SameAbove, Aside

LEMMA NextStays ==
    ASSUME NEW r, NEW reg, NEW lev, Sound(r, reg, lev), NEW c, IsPath(r, c), NEW d, d = moveToNext(r, c)
    PROVE  IsPath(r, d) /\ NextGoes(r, c, d)
<1>1. /\ Whole(r.node, r.root, r.depth, reg, lev) /\ r.depth \in Levels
      /\ r.depth \in Nat /\ r.depth \in Int /\ r.depth \in 0 .. r.depth
  BY SoundIs
<1>2. /\ c \in CursorType(DOMAIN r.node) /\ c.level = r.depth
      /\ Links(r, c.ancestors, c.ancestorsIdx, r.depth)
      /\ c.ancestorsIdx[r.depth] \in 0 .. r.node[c.ancestors[r.depth]].numKeys
  BY DEF IsPath
<1>3. Along(r, reg, lev, c.ancestors, c.ancestorsIdx, r.depth)
  BY <1>1, <1>2, Followed
<1>4. CASE r.numRecords = 0 \/ ~isValid(r, c)
  BY <1>4 DEF moveToNext, NextGoes
<1>5. CASE ~(r.numRecords = 0 \/ ~isValid(r, c))
  <2>1. PICK up : up = AscendFrom(r, c, TRUE)
    OBVIOUS
  <2>2. PICK top \in 0 .. c.level : /\ up = [c EXCEPT !.level = top]
                                    /\ top # 0 => ~AtEnd(r, c, TRUE, top)
                                    /\ \A j \in top + 1 .. c.level : AtEnd(r, c, TRUE, j)
    BY <1>1, <1>2, <2>1, AscendIs
  <2>3. top \in 0 .. r.depth /\ top \in Int
    BY <1>1, <1>2
  <2>4. PICK nd : nd = r.node[c.ancestors[top]]
    OBVIOUS
  <2>5. /\ c.ancestors[top] \in DOMAIN r.node /\ (nd.isLeaf <=> top = r.depth)
        /\ nd.numKeys \in Nat /\ nd.isLeaf \in BOOLEAN
    BY <1>3, <2>3, <2>4 DEF Along, Sound, Whole, Tree, NodeRight, HasKeys
  <2>6. ~AtEnd(r, c, TRUE, top)
    <3> SUFFICES ASSUME AtEnd(r, c, TRUE, top) PROVE FALSE
      OBVIOUS
    <3>1. top = 0
      BY <2>2
    <3>2. \A j \in 0 .. r.depth : AtEnd(r, c, TRUE, j)
      <4>1. \A j \in 0 .. r.depth : j = 0 \/ j \in 0 + 1 .. r.depth
        BY <1>1
      <4> QED
        BY <1>2, <2>2, <3>1, <4>1
    <3>3. ASSUME NEW j \in 0 .. r.depth - 1
          PROVE  c.ancestorsIdx[j] = r.node[c.ancestors[j]].numKeys - 1
      <4>1. j \in 0 .. r.depth /\ j # r.depth
        BY <1>1
      <4>2. ~r.node[c.ancestors[j]].isLeaf
        BY <1>3, <4>1 DEF Along
      <4> QED
        BY <3>2, <4>1, <4>2 DEF AtEnd, lastpointer
    <3>4. UpClosed(reg[c.ancestors[r.depth]])
      BY <1>1, <1>2, <3>3, LastStays
    <3>5. c.ancestors[r.depth] \in DOMAIN r.node /\ r.node[c.ancestors[r.depth]].isLeaf
      BY <1>1, <1>3 DEF Along
    <3>6. r.node[c.ancestors[r.depth]].LastLeaf
      BY <1>1, <3>4, <3>5 DEF Whole, Tree, Placed
    <3>7. c.ancestorsIdx[r.depth] = r.node[c.ancestors[r.depth]].numKeys
      BY <1>1, <3>2, <3>5 DEF AtEnd, lastpointer
    <3> QED
      BY <1>2, <1>5, <3>6, <3>7 DEF isValid, entryIndex, currNode
  <2>7. PICK i : i = c.ancestorsIdx[top] + 1
    OBVIOUS
  <2>8. i \in IF nd.isLeaf THEN 0 .. nd.numKeys ELSE Kids(nd)
    <3>1. CASE nd.isLeaf
      <4>1. c.ancestorsIdx[top] \in 0 .. nd.numKeys /\ c.ancestorsIdx[top] # nd.numKeys
        BY <1>2, <2>4, <2>5, <2>6, <3>1 DEF AtEnd, lastpointer
      <4> QED
        BY <2>5, <2>7, <3>1, <4>1
    <3>2. CASE ~nd.isLeaf
      <4>1. top \in 0 .. r.depth - 1
        BY <1>1, <2>3, <2>5, <3>2
      <4>2. c.ancestorsIdx[top] \in Kids(nd) /\ c.ancestorsIdx[top] # nd.numKeys - 1
        BY <1>2, <2>4, <2>6, <3>2, <4>1 DEF AtEnd, lastpointer, Links
      <4>3. i \in Kids(nd)
        BY <2>5, <2>7, <4>2 DEF Kids
      <4> QED
        BY <3>2, <4>3
    <3> QED
      BY <3>1, <3>2
  <2>9. PICK at : at = MovedTo(up, i)
    OBVIOUS
  <2>10. /\ at \in CursorType(DOMAIN r.node)
         /\ SameAbove(c, at, top) /\ at.ancestors = c.ancestors /\ at.ancestorsIdx[top] = i
         /\ nd.isLeaf => IsPath(r, at)
         /\ ~nd.isLeaf => top + 1 \in 0 .. r.depth /\ Leads(r, at, Child(nd, i), top + 1)
    BY <2>2, <2>3, <2>4, <2>8, <2>9, StepAside
  <2>11. up.level = top /\ entryIndex(up) + 1 = i /\ currNode(r, up) = nd
    BY <1>2, <2>2, <2>4, <2>7 DEF CursorType, entryIndex, currNode
  <2>12. d = IF nd.isLeaf THEN at ELSE moveToFirst(r, Child(nd, i), at, top + 1)
    <3>1. d = IF currNode(r, up).isLeaf THEN MovedTo(up, entryIndex(up) + 1)
              ELSE moveToFirst(r, Child(currNode(r, up), entryIndex(up) + 1), MovedTo(up, entryIndex(up) + 1), up.level + 1)
      BY <1>5, <2>1 DEF moveToNext, MovedTo
    <3> QED
      BY <2>9, <2>11, <3>1
  <2>13. IsPath(r, d) /\ Aside(r, c, d, top, 1) /\ \A j \in top + 1 .. r.depth : AtEnd(r, d, FALSE, j)
    <3>1. CASE nd.isLeaf
      <4>1. \A j \in top + 1 .. r.depth : FALSE
        BY <1>1, <2>3, <2>5, <3>1
      <4>2. IsPath(r, d) /\ d = at
        BY <2>10, <2>12, <3>1
      <4> QED
        BY <2>3, <2>7, <2>10, <4>1, <4>2 DEF Aside
    <3>2. CASE ~nd.isLeaf
      <4>1. PICK child \in {Child(nd, i)}, level \in 0 .. r.depth : child = Child(nd, i) /\ level = top + 1
        BY <2>10, <3>2
      <4>2. d = moveToFirst(r, child, at, level) /\ Leads(r, at, child, level)
        BY <2>10, <2>12, <3>2, <4>1
      <4>3. at.ancestors \in [Levels -> DOMAIN r.node \cup {NULL}] /\ at.ancestorsIdx \in [Levels -> -1 .. FANOUT]
        BY <2>10 DEF CursorType
      <4>4. /\ IsPath(r, d) /\ SameAbove(at, d, level)
            /\ \A l \in level .. r.depth : d.ancestorsIdx[l] = firstpointer(r.node[d.ancestors[l]])
        BY <4>2, <4>3, ToFirst
      <4>5. Aside(r, c, d, top, 1)
        BY <2>3, <2>7, <2>10, <4>1, <4>4, AsideOf
      <4>6. \A j \in top + 1 .. r.depth : AtEnd(r, d, FALSE, j)
        BY <4>1, <4>4 DEF AtEnd
      <4> QED
        BY <4>4, <4>5, <4>6
    <3> QED
      BY <3>1, <3>2
  <2>14. \A j \in top + 1 .. r.depth : AtEnd(r, c, TRUE, j)
    BY <1>2, <2>2
  <2> QED
    BY <1>5, <2>3, <2>6, <2>13, <2>14 DEF NextGoes
<1> QED
  BY <1>4, <1>5

LEMMA PrevStays ==
    ASSUME NEW r, NEW reg, NEW lev, Sound(r, reg, lev), NEW c, IsPath(r, c), NEW d, d = moveToPrev(r, c)
    PROVE  IsPath(r, d) /\ PrevGoes(r, c, d)
<1>1. /\ Whole(r.node, r.root, r.depth, reg, lev) /\ r.depth \in Levels
      /\ r.depth \in Nat /\ r.depth \in Int /\ r.depth \in 0 .. r.depth
      /\ r.root \in DOMAIN r.node /\ lev[r.root] = 0 /\ reg[r.root] = Int
  BY SoundIs
<1>2. /\ c \in CursorType(DOMAIN r.node) /\ c.level = r.depth
      /\ Links(r, c.ancestors, c.ancestorsIdx, r.depth)
      /\ c.ancestorsIdx[r.depth] \in 0 .. r.node[c.ancestors[r.depth]].numKeys
  BY DEF IsPath
<1>3. Along(r, reg, lev, c.ancestors, c.ancestorsIdx, r.depth)
  BY <1>1, <1>2, Followed
<1>4. CASE r.numRecords = 0 \/ isFirst(r, c)
  BY <1>4 DEF moveToPrev, PrevGoes
<1>5. CASE ~(r.numRecords = 0 \/ isFirst(r, c))
  <2>1. PICK up : up = AscendFrom(r, c, FALSE)
    OBVIOUS
  <2>2. PICK top \in 0 .. c.level : /\ up = [c EXCEPT !.level = top]
                                    /\ top # 0 => ~AtEnd(r, c, FALSE, top)
                                    /\ \A j \in top + 1 .. c.level : AtEnd(r, c, FALSE, j)
    BY <1>1, <1>2, <2>1, AscendIs
  <2>3. top \in 0 .. r.depth /\ top \in Int
    BY <1>1, <1>2
  <2>4. PICK nd : nd = r.node[c.ancestors[top]]
    OBVIOUS
  <2>5. /\ c.ancestors[top] \in DOMAIN r.node /\ (nd.isLeaf <=> top = r.depth)
        /\ nd.numKeys \in Nat /\ nd.isLeaf \in BOOLEAN
    BY <1>3, <2>3, <2>4 DEF Along, Sound, Whole, Tree, NodeRight, HasKeys
  <2>6. ~AtEnd(r, c, FALSE, top)
    <3> SUFFICES ASSUME AtEnd(r, c, FALSE, top) PROVE FALSE
      OBVIOUS
    <3>1. top = 0
      BY <2>2
    <3>2. \A j \in 0 .. r.depth : AtEnd(r, c, FALSE, j)
      <4>1. \A j \in 0 .. r.depth : j = 0 \/ j \in 0 + 1 .. r.depth
        BY <1>1
      <4> QED
        BY <1>2, <2>2, <3>1, <4>1
    <3>3. PICK first \in Int, zero \in Int : first = -1 /\ zero = 0
      OBVIOUS
    <3>4. ASSUME NEW j \in zero .. r.depth - 1
          PROVE  Between(r.node[c.ancestors[j]], c.ancestorsIdx[j], first)
      <4>1. j \in 0 .. r.depth /\ j # r.depth
        BY <1>1, <3>3
      <4>2. ~r.node[c.ancestors[j]].isLeaf /\ c.ancestors[j] \in DOMAIN r.node
        BY <1>3, <4>1 DEF Along
      <4>3. c.ancestorsIdx[j] = -1
        BY <3>2, <4>1, <4>2 DEF AtEnd, firstpointer
      <4>4. PICK nk \in Nat, e \in {r.node[c.ancestors[j]].entries[0]} :
               nk = r.node[c.ancestors[j]].numKeys /\ nk >= 1 /\ e = r.node[c.ancestors[j]].entries[0] /\ e.key \in Nat
        <5>1. NodeRight(r.node[c.ancestors[j]])
          BY <1>1, <4>2 DEF Whole, Tree
        <5> QED
          BY <4>2, <5>1 DEF NodeRight, HasKeys
      <4> QED
        BY <3>3, <4>3, <4>4 DEF Between
    <3>5. first \in reg[c.ancestors[zero]] /\ zero \in 0 .. r.depth
      BY <1>1, <1>2, <3>3 DEF Links
    <3>6. Comes(reg, c.ancestors, zero, r.depth, first)
      BY <1>1, <1>2, <3>4, <3>5, KeyStays
    <3>7. r.depth \in zero .. r.depth
      BY <1>1, <3>3
    <3>8. -1 \in reg[c.ancestors[r.depth]]
      BY <3>3, <3>6, <3>7 DEF Comes
    <3>9. c.ancestors[r.depth] \in DOMAIN r.node /\ r.node[c.ancestors[r.depth]].isLeaf
      BY <1>1, <1>3 DEF Along
    <3>10. r.node[c.ancestors[r.depth]].FirstLeaf
      BY <1>1, <3>8, <3>9 DEF Whole, Tree, Placed
    <3>11. c.ancestorsIdx[r.depth] = 0
      BY <1>1, <3>2, <3>9 DEF AtEnd, firstpointer
    <3> QED
      BY <1>2, <1>5, <3>10, <3>11 DEF isFirst, entryIndex, currNode
  <2>7. PICK i : i = c.ancestorsIdx[top] - 1
    OBVIOUS
  <2>8. i \in IF nd.isLeaf THEN 0 .. nd.numKeys ELSE Kids(nd)
    <3>1. CASE nd.isLeaf
      <4>1. c.ancestorsIdx[top] \in 0 .. nd.numKeys /\ c.ancestorsIdx[top] # 0
        BY <1>2, <2>4, <2>5, <2>6, <3>1 DEF AtEnd, firstpointer
      <4> QED
        BY <2>5, <2>7, <3>1, <4>1
    <3>2. CASE ~nd.isLeaf
      <4>1. top \in 0 .. r.depth - 1
        BY <1>1, <2>3, <2>5, <3>2
      <4>2. c.ancestorsIdx[top] \in Kids(nd) /\ c.ancestorsIdx[top] # -1
        BY <1>2, <2>4, <2>6, <3>2, <4>1 DEF AtEnd, firstpointer, Links
      <4>3. i \in Kids(nd)
        BY <2>5, <2>7, <4>2 DEF Kids
      <4> QED
        BY <3>2, <4>3
    <3> QED
      BY <3>1, <3>2
  <2>9. PICK at : at = MovedTo(up, i)
    OBVIOUS
  <2>10. /\ at \in CursorType(DOMAIN r.node)
         /\ SameAbove(c, at, top) /\ at.ancestors = c.ancestors /\ at.ancestorsIdx[top] = i
         /\ nd.isLeaf => IsPath(r, at)
         /\ ~nd.isLeaf => top + 1 \in 0 .. r.depth /\ Leads(r, at, Child(nd, i), top + 1)
    BY <2>2, <2>3, <2>4, <2>8, <2>9, StepAside
  <2>11. up.level = top /\ entryIndex(up) - 1 = i /\ currNode(r, up) = nd
    BY <1>2, <2>2, <2>4, <2>7 DEF CursorType, entryIndex, currNode
  <2>12. d = IF nd.isLeaf THEN at ELSE moveToLast(r, Child(nd, i), at, top + 1)
    <3>1. d = IF currNode(r, up).isLeaf THEN MovedTo(up, entryIndex(up) - 1)
              ELSE moveToLast(r, Child(currNode(r, up), entryIndex(up) - 1), MovedTo(up, entryIndex(up) - 1), up.level + 1)
      BY <1>5, <2>1 DEF moveToPrev, MovedTo
    <3> QED
      BY <2>9, <2>11, <3>1
  <2>13. /\ IsPath(r, d) /\ Aside(r, c, d, top, -1)
         /\ top # r.depth => d.ancestorsIdx[r.depth] = IF top + 1 = r.depth
                                                       THEN r.node[d.ancestors[r.depth]].numKeys ELSE 0
    <3>1. CASE nd.isLeaf
      <4>1. top = r.depth
        BY <2>5, <3>1
      <4>2. IsPath(r, d) /\ d = at
        BY <2>10, <2>12, <3>1
      <4>3. i = c.ancestorsIdx[top] + (-1)
        BY <2>7, <3>1, <2>8, <1>2, <4>1
      <4> QED
        BY <2>3, <2>10, <4>1, <4>2, <4>3 DEF Aside
    <3>2. CASE ~nd.isLeaf
      <4>1. PICK child \in {Child(nd, i)}, level \in 0 .. r.depth : child = Child(nd, i) /\ level = top + 1
        BY <2>10, <3>2
      <4>2. d = moveToLast(r, child, at, level) /\ Leads(r, at, child, level)
        BY <2>10, <2>12, <3>2, <4>1
      <4>3. /\ IsPath(r, d) /\ SameAbove(at, d, level) /\ d.ancestors[level] = child
            /\ d.ancestorsIdx[r.depth] = IF level = r.depth THEN r.node[child].numKeys ELSE 0
        BY <2>10, <4>2, ToLast
      <4>4. Aside(r, c, d, top, -1)
        <5>1. top \in 0 .. r.depth - 1
          BY <1>1, <2>3, <2>5, <3>2
        <5>2. c.ancestorsIdx[top] \in Kids(nd)
          BY <1>2, <2>4, <5>1 DEF Links
        <5>3. i = c.ancestorsIdx[top] + (-1)
          BY <2>5, <2>7, <5>2 DEF Kids
        <5> QED
          BY <2>3, <2>10, <4>1, <4>3, <5>3, AsideOf
      <4> QED
        BY <4>1, <4>3, <4>4
    <3> QED
      BY <3>1, <3>2
  <2>14. \A j \in top + 1 .. r.depth : AtEnd(r, c, FALSE, j)
    BY <1>2, <2>2
  <2> QED
    BY <1>5, <2>3, <2>6, <2>13, <2>14 DEF PrevGoes
<1> QED
  BY <1>4, <1>5

LEMMA AtEntryStays ==
    ASSUME NEW r, NEW reg, NEW lev, Sound(r, reg, lev), NEW c, IsPath(r, c)
    PROVE  IsPath(r, atEntry(r, c)) /\ IsPath(r, afterNext(r, c)) /\ IsPath(r, afterPrevious(r, c))
<1>1. ASSUME NEW d, IsPath(r, d) PROVE IsPath(r, moveToNext(r, d)) /\ IsPath(r, moveToPrev(r, d))
  BY <1>1, NextStays, PrevStays
<1>2. IsPath(r, atEntry(r, c))
  BY <1>1 DEF atEntry
<1>3. IsPath(r, afterNext(r, c))
  BY <1>1, <1>2 DEF afterNext
<1>4. IsPath(r, afterPrevious(r, c))
  BY <1>1 DEF afterPrevious
<1> QED
  BY <1>2, <1>3, <1>4

-----------------------------------------------------------------------------
(* Putting an entry. *)

\* A node whose entries in use are entries indeed, and the nodes of a relation.
Typed(nd, P) == nd \in BtNodes(Keys, P) /\ \A i \in 0 .. nd.numKeys - 1 : nd.entries[i] \in Entry(Keys, P)

PtrsOf(node) == Records \cup 1 .. Len(node)

NodesTyped(node) == node \in Seq(AnyNodes) /\ \A n \in DOMAIN node : Typed(node[n], PtrsOf(node))

LEMMA TypedUp ==
    ASSUME NEW P, NEW Q, P \subseteq Q, NEW nd, Typed(nd, P)
    PROVE  Typed(nd, Q)
<1>1. Entry(Keys, P) \subseteq Entry(Keys, Q)
  BY DEF Entry
<1>2. /\ nd.numKeys \in 0 .. FANOUT /\ nd.entries \in [Slots -> Entry(Keys, P) \cup {Unset}]
      /\ nd.isLeaf \in BOOLEAN /\ nd.FirstLeaf \in BOOLEAN /\ nd.LastLeaf \in BOOLEAN
      /\ nd.ptr0 \in P \cup {NULL}
      /\ nd = [isLeaf |-> nd.isLeaf, FirstLeaf |-> nd.FirstLeaf, LastLeaf |-> nd.LastLeaf,
               numKeys |-> nd.numKeys, ptr0 |-> nd.ptr0, entries |-> nd.entries]
  BY DEF Typed, BtNodes
<1>3. nd.entries \in [Slots -> Entry(Keys, Q) \cup {Unset}] /\ nd.ptr0 \in Q \cup {NULL}
  BY <1>1, <1>2
<1>4. nd \in BtNodes(Keys, Q)
  BY <1>2, <1>3 DEF BtNodes
<1> QED
  BY <1>1, <1>4 DEF Typed

LEMMA TypedKeys ==
    ASSUME NEW P, NEW nd, Typed(nd, P)
    PROVE  HasKeys(nd) /\ nd.numKeys \in 0 .. FANOUT
<1>1. nd.numKeys \in 0 .. FANOUT /\ \A i \in 0 .. nd.numKeys - 1 : nd.entries[i].key \in Keys
  BY DEF Typed, BtNodes, Entry
<1>2. nd.numKeys \in Nat
  BY <1>1, FanoutIs
<1>3. \A i \in 0 .. nd.numKeys - 1 : nd.entries[i].key \in Nat
  BY <1>1, RelationAssumption
<1> QED
  BY <1>1, <1>2, <1>3 DEF HasKeys

LEMMA WideTyped ==
    ASSUME NEW P, NEW nd, Typed(nd, P), NEW e \in Entry(Keys, P), NEW t \in 0 .. nd.numKeys
    PROVE  \A i \in 0 .. nd.numKeys : Wide(nd, t, e)[i] \in Entry(Keys, P)
<1>1. nd.numKeys \in 0 .. FANOUT
  BY TypedKeys
<1>2. /\ Wide(nd, t, e)[t] = e
      /\ \A i \in 0 .. t - 1 : Wide(nd, t, e)[i] = nd.entries[i]
      /\ \A i \in t + 1 .. nd.numKeys : Wide(nd, t, e)[i] = nd.entries[i - 1]
  BY <1>1, WideIs
<1>3. PICK k \in Nat, w \in {Wide(nd, t, e)} : k = nd.numKeys /\ w = Wide(nd, t, e)
  BY <1>1
<1>4. ASSUME NEW i \in 0 .. k PROVE w[i] \in Entry(Keys, P)
  <2>1. CASE i < t
    BY <1>2, <1>3, <2>1 DEF Typed
  <2>2. CASE i = t
    BY <1>2, <1>3, <2>2
  <2>3. CASE i > t
    <3>1. i \in t + 1 .. nd.numKeys /\ i - 1 \in 0 .. nd.numKeys - 1
      BY <1>3, <2>3
    <3> QED
      BY <1>2, <1>3, <3>1 DEF Typed
  <2> QED
    BY <1>3, <2>1, <2>2, <2>3
<1> QED
  BY <1>3, <1>4

LEMMA PlaceFound ==
    ASSUME NEW nd, HasKeys(nd), NEW key \in Nat, NEW t, IsPlace(nd, t, key)
    PROVE  findRecordIndex(nd, key) = t
<1>1. PICK u : u = findRecordIndex(nd, key)
  OBVIOUS
<1>2. /\ u \in 0 .. nd.numKeys
      /\ \A j \in 0 .. u - 1 : nd.entries[j].key < key
      /\ u < nd.numKeys => key <= nd.entries[u].key
  BY <1>1, RecordIndex
<1>3. PICK k \in Nat, a \in {nd.entries} : k = nd.numKeys /\ a = nd.entries /\ \A j \in 0 .. k - 1 : a[j].key \in Nat
  BY DEF HasKeys
<1>4. /\ t \in 0 .. k /\ u \in 0 .. k
      /\ \A j \in 0 .. t - 1 : a[j].key < key
      /\ t < k => key < a[t].key
      /\ \A j \in 0 .. u - 1 : a[j].key < key
      /\ u < k => key <= a[u].key
  BY <1>2, <1>3 DEF IsPlace
<1>5. ~(t < u)
  <2> SUFFICES ASSUME t < u PROVE FALSE
    OBVIOUS
  <2>1. t \in 0 .. u - 1 /\ t < k /\ t \in 0 .. k - 1
    BY <1>3, <1>4
  <2> QED
    BY <1>3, <1>4, <2>1
<1>6. ~(u < t)
  <2> SUFFICES ASSUME u < t PROVE FALSE
    OBVIOUS
  <2>1. u \in 0 .. t - 1 /\ u < k /\ u \in 0 .. k - 1
    BY <1>3, <1>4
  <2> QED
    BY <1>3, <1>4, <2>1
<1> QED
  BY <1>1, <1>4, <1>5, <1>6

\* A full node with one entry more, before it is split.
Stretched(nd, t, e) ==
    [isLeaf |-> nd.isLeaf, FirstLeaf |-> nd.FirstLeaf, LastLeaf |-> nd.LastLeaf,
     numKeys |-> nd.numKeys + 1, ptr0 |-> nd.ptr0, entries |-> Wide(nd, t, e)]

LEMMA StretchedIs ==
    ASSUME NEW nd, nd.numKeys \in Nat, NEW t, NEW e, NEW v, v = Stretched(nd, t, e)
    PROVE  /\ Holds(v, Wide(nd, t, e), 0, nd.numKeys + 1) /\ v.entries = Wide(nd, t, e)
           /\ v.numKeys = nd.numKeys + 1
           /\ v.isLeaf = nd.isLeaf /\ v.FirstLeaf = nd.FirstLeaf /\ v.LastLeaf = nd.LastLeaf
           /\ v.ptr0 = nd.ptr0
<1>1. /\ v.entries = Wide(nd, t, e) /\ v.numKeys = nd.numKeys + 1
      /\ v.isLeaf = nd.isLeaf /\ v.FirstLeaf = nd.FirstLeaf /\ v.LastLeaf = nd.LastLeaf
      /\ v.ptr0 = nd.ptr0
  BY DEF Stretched
<1>2. \A i \in 0 .. (nd.numKeys + 1) - 1 : v.entries[i] = Wide(nd, t, e)[0 + i]
  BY <1>1
<1> QED
  BY <1>1, <1>2 DEF Holds

\* splitnode (relation_mem.c:516-585) divides the full node with the new entry in its place: between
\* them, in order, the two halves have every entry once (an intern node's middle one goes up, with
\* its pointer left as ptr0 of the second half), the key that goes up separates them, and both are
\* half full.
THEOREM SplitDivides ==
    ASSUME NEW P, NEW nd, Typed(nd, P), nd.numKeys = FANOUT, NEW e \in Entry(Keys, P),
           NEW t, IsPlace(nd, t, e.key), NEW v, v = Stretched(nd, t, e),
           NEW left, left = splitLeft(nd, e), NEW right, right = splitRight(nd, e)
    PROVE  /\ Division(v, middle, left, right)
           /\ splitKey(nd, e) = v.entries[middle].key /\ splitKey(nd, e) \in Keys
           /\ Typed(left, P) /\ Typed(right, P)
           /\ left.numKeys >= FANOUT \div 2 /\ right.numKeys >= FANOUT \div 2
           /\ left.isLeaf = nd.isLeaf /\ right.isLeaf = nd.isLeaf
<1>1. HasKeys(nd) /\ nd.numKeys \in 0 .. FANOUT /\ nd.numKeys \in Nat /\ t \in 0 .. nd.numKeys
      /\ e.key \in Nat /\ nd \in BtNodes(Keys, P) /\ nd.isLeaf \in BOOLEAN
  <2>1. e.key \in Keys
    BY DEF Entry
  <2>2. nd \in BtNodes(Keys, P) /\ nd.isLeaf \in BOOLEAN
    BY DEF Typed, BtNodes
  <2> QED
    BY <2>1, <2>2, TypedKeys, RelationAssumption DEF IsPlace, HasKeys
<1>2. t = findRecordIndex(nd, e.key)
  BY <1>1, PlaceFound
<1>3. PICK w : w = Wide(nd, t, e)
  OBVIOUS
<1>4. \A i \in 0 .. FANOUT : w[i] \in Entry(Keys, P)
  BY <1>1, <1>3, WideTyped
<1>5. /\ splitKey(nd, e) = w[middle].key
      /\ left \in BtNodes(Keys, P) /\ Holds(left, w, 0, middle)
      /\ left.isLeaf = nd.isLeaf /\ left.FirstLeaf = nd.FirstLeaf /\ left.LastLeaf = FALSE
      /\ left.ptr0 = nd.ptr0
      /\ right \in BtNodes(Keys, P)
      /\ nd.isLeaf => Holds(right, w, middle, FANOUT + 1 - middle) /\ right.ptr0 = NULL
      /\ ~nd.isLeaf => Holds(right, w, middle + 1, FANOUT - middle) /\ right.ptr0 = w[middle].ptr
      /\ right.isLeaf = nd.isLeaf /\ right.FirstLeaf = FALSE /\ right.LastLeaf = nd.LastLeaf
  <2>1. nd \in BtNodes(Keys, P) /\ nd.numKeys = FANOUT /\ e \in Entry(Keys, P)
    BY <1>1
  <2>2. Entries(P, w)
    BY <1>4 DEF Entries
  <2>3. Parted(P, nd, e, w, left, right)
    BY <1>2, <1>3, <2>1, <2>2, SplitIs
  <2> QED
    BY <2>3 DEF Parted
<1>6. /\ v.entries = w /\ v.numKeys = FANOUT + 1
      /\ v.isLeaf = nd.isLeaf /\ v.FirstLeaf = nd.FirstLeaf /\ v.LastLeaf = nd.LastLeaf
      /\ v.ptr0 = nd.ptr0
  BY <1>1, <1>3, StretchedIs
<1>7. PICK m \in Nat, s \in Nat : /\ m = middle /\ s = (IF nd.isLeaf THEN m ELSE m + 1)
                                  /\ m >= 1 /\ m >= FANOUT \div 2 /\ FANOUT - m >= FANOUT \div 2 /\ FANOUT - m >= 1
  BY <1>1, MiddleIs
<1>8. /\ m \in 1 .. (FANOUT + 1) - 1 /\ s \in 1 .. (FANOUT + 1) - 1 /\ (FANOUT + 1) - s >= FANOUT \div 2
      /\ s + ((FANOUT + 1) - s) = FANOUT + 1
  BY <1>7, FanoutIs
<1>9. Holds(right, w, s, (FANOUT + 1) - s)
  <2>1. CASE nd.isLeaf
    <3>1. s = m /\ FANOUT + 1 - m = (FANOUT + 1) - s
      BY <1>7, <2>1, FanoutIs
    <3> QED
      BY <1>5, <1>7, <2>1, <3>1
  <2>2. CASE ~nd.isLeaf
    <3>1. (FANOUT + 1) - (m + 1) = FANOUT - m
      BY <1>7, FanoutIs
    <3> QED
      BY <1>5, <1>7, <2>2, <3>1
  <2> QED
    BY <2>1, <2>2
<1>10. Division(v, m, left, right)
  BY <1>5, <1>6, <1>7, <1>8, <1>9 DEF Division
<1>11. Typed(left, P)
  <2>1. left.numKeys = m /\ \A i \in 0 .. m - 1 : left.entries[i] = w[0 + i]
    BY <1>5, <1>7 DEF Holds
  <2>2. \A i \in 0 .. m - 1 : 0 + i \in 0 .. FANOUT
    BY <1>8, FanoutIs
  <2> QED
    BY <1>4, <1>5, <2>1, <2>2 DEF Typed
<1>12. Typed(right, P)
  <2>1. right.numKeys = (FANOUT + 1) - s /\ \A i \in 0 .. ((FANOUT + 1) - s) - 1 : right.entries[i] = w[s + i]
    BY <1>9 DEF Holds
  <2>2. \A i \in 0 .. ((FANOUT + 1) - s) - 1 : s + i \in 0 .. FANOUT
    BY <1>7, <1>8, FanoutIs
  <2> QED
    BY <1>4, <1>5, <2>1, <2>2 DEF Typed
<1>13. splitKey(nd, e) \in Keys
  <2>1. w[m] \in Entry(Keys, P)
    BY <1>4, <1>8, FanoutIs
  <2> QED
    BY <1>5, <1>7, <2>1 DEF Entry
<1>14. left.numKeys >= FANOUT \div 2 /\ right.numKeys >= FANOUT \div 2
  BY <1>5, <1>7, <1>8, <1>9 DEF Holds
<1> QED
  BY <1>5, <1>6, <1>7, <1>10, <1>11, <1>12, <1>13, <1>14

\* Allocating a node.
Appended(s, b, s2, y) ==
    /\ s2 \in Seq(AnyNodes) /\ Len(s2) = y /\ y \in Nat
    /\ DOMAIN s2 = DOMAIN s \cup {y} /\ y \notin DOMAIN s /\ DOMAIN s = 1 .. Len(s)
    /\ s2[y] = b /\ \A m \in DOMAIN s : s2[m] = s[m]
    /\ s2 = Grown(s, y, b)

LEMMA AppendIs ==
    ASSUME NEW s, s \in Seq(AnyNodes), NEW b \in AnyNodes, NEW s2, s2 = Append(s, b), NEW y, y = Len(s) + 1
    PROVE  Appended(s, b, s2, y)
<1>1. /\ s2 \in Seq(AnyNodes) /\ Len(s2) = Len(s) + 1 /\ s2[Len(s) + 1] = b
      /\ \A m \in 1 .. Len(s) : s2[m] = s[m]
      /\ Len(s) \in Nat /\ DOMAIN s = 1 .. Len(s) /\ DOMAIN s2 = 1 .. Len(s2)
  OBVIOUS
<1>2. DOMAIN s2 = DOMAIN s \cup {y} /\ y \notin DOMAIN s /\ y \in Nat
  BY <1>1
<1>3. s2 = [m \in DOMAIN s2 |-> s2[m]]
  <2>1. s2 \in [1 .. Len(s2) -> AnyNodes]
    BY <1>1, LenProperties
  <2> QED
    BY <2>1
<1>4. \A m \in DOMAIN s2 : s2[m] = IF m = y THEN b ELSE s[m]
  BY <1>1, <1>2
<1>5. s2 = Grown(s, y, b)
  BY <1>1, <1>2, <1>3, <1>4 DEF Grown
<1> QED
  BY <1>1, <1>2, <1>5 DEF Appended

\* A node is put in the place of another.
LEMMA SetIs ==
    ASSUME NEW s, s \in Seq(AnyNodes), NEW n \in DOMAIN s, NEW a \in AnyNodes, NEW s2, s2 = [s EXCEPT ![n] = a]
    PROVE  /\ s2 \in Seq(AnyNodes) /\ Len(s2) = Len(s) /\ DOMAIN s2 = DOMAIN s
           /\ s2[n] = a /\ \A m \in DOMAIN s : m # n => s2[m] = s[m]
<1>1. /\ DOMAIN s2 = DOMAIN s /\ s2[n] = a /\ \A m \in DOMAIN s : m # n => s2[m] = s[m]
  OBVIOUS
<1>2. s2 \in Seq(AnyNodes) /\ Len(s2) = Len(s)
  OBVIOUS
<1> QED
  BY <1>1, <1>2

SplitAt(node, n, e) == Append([node EXCEPT ![n] = splitLeft(node[n], e)], splitRight(node[n], e))

\* What a split does to the nodes.
SplitDone(node, n, e, node2, y, e2) ==
    /\ NodesTyped(node2) /\ Len(node2) = y /\ y \notin DOMAIN node /\ DOMAIN node2 = DOMAIN node \cup {y}
    /\ \A m \in DOMAIN node : m # n => node2[m] = node[m]
    /\ node2[n].isLeaf = node[n].isLeaf /\ node2[y].isLeaf = node[n].isLeaf
    /\ node2[n].numKeys >= FANOUT \div 2 /\ node2[y].numKeys >= FANOUT \div 2
    /\ e2 \in Entry(Keys, PtrsOf(node2)) /\ e2.ptr = y

\* The entry e is to be put above its node n, whose parent has not heard of it yet.
Pends(node, root, depth, n, e, anc, k, key) ==
    \E reg, lev : /\ Pending(node, root, depth, reg, lev, n, e.ptr, e.key)
                  /\ Comes(reg, anc, 0, k - 1, key)

LEMMA TypedAny ==
    ASSUME NEW node, node \in Seq(AnyNodes), NEW nd, Typed(nd, PtrsOf(node))
    PROVE  nd \in AnyNodes
<1>1. PtrsOf(node) \subseteq Records \cup Nat
  BY DEF PtrsOf
<1>2. Typed(nd, Records \cup Nat)
  BY <1>1, TypedUp
<1> QED
  BY <1>2 DEF Typed, AnyNodes

\* The node n, having become v, is divided over n and y.
HalvedAt(node, n, v, node2, y, e2) ==
    /\ Division(v, middle, node2[n], node2[y]) /\ e2.key = v.entries[middle].key
    /\ node2 = Halved([node EXCEPT ![n] = v], n, node2[n], y, node2[y])

LEMMA SplitNodes ==
    ASSUME NEW node, NodesTyped(node), NEW n \in DOMAIN node, node[n].numKeys = FANOUT,
           NEW e \in Entry(Keys, PtrsOf(node)), NEW t, IsPlace(node[n], t, e.key),
           NEW node2, node2 = SplitAt(node, n, e), NEW y, y = Len(node) + 1,
           NEW e2, e2 = [key |-> splitKey(node[n], e), ptr |-> y]
    PROVE  /\ SplitDone(node, n, e, node2, y, e2)
           /\ HalvedAt(node, n, Stretched(node[n], t, e), node2, y, e2)
<1>1. PICK P, nd, v, left, right :
         /\ P = PtrsOf(node) /\ nd = node[n] /\ v = Stretched(nd, t, e)
         /\ left = splitLeft(nd, e) /\ right = splitRight(nd, e)
  OBVIOUS
<1>2. Typed(nd, P) /\ node \in Seq(AnyNodes)
  BY <1>1 DEF NodesTyped
<1>3. /\ Division(v, middle, left, right)
      /\ splitKey(nd, e) = v.entries[middle].key /\ splitKey(nd, e) \in Keys
      /\ Typed(left, P) /\ Typed(right, P)
      /\ left.numKeys >= FANOUT \div 2 /\ right.numKeys >= FANOUT \div 2
      /\ left.isLeaf = nd.isLeaf /\ right.isLeaf = nd.isLeaf
  BY <1>1, <1>2, SplitDivides
<1>4. left \in AnyNodes /\ right \in AnyNodes
  BY <1>1, <1>2, <1>3, TypedAny
<1>5. PICK mid : mid = [node EXCEPT ![n] = left]
  OBVIOUS
<1>6. /\ mid \in Seq(AnyNodes) /\ Len(mid) = Len(node) /\ DOMAIN mid = DOMAIN node
      /\ mid[n] = left /\ \A m \in DOMAIN node : m # n => mid[m] = node[m]
  BY <1>2, <1>4, <1>5, SetIs
<1>7. node2 = Append(mid, right) /\ y = Len(mid) + 1
  BY <1>1, <1>5, <1>6 DEF SplitAt
<1>8. /\ node2 \in Seq(AnyNodes) /\ Len(node2) = y /\ y \in Nat
      /\ DOMAIN node2 = DOMAIN mid \cup {y} /\ y \notin DOMAIN mid /\ DOMAIN mid = 1 .. Len(mid)
      /\ node2[y] = right /\ \A m \in DOMAIN mid : node2[m] = mid[m]
      /\ node2 = Grown(mid, y, right)
  <2>1. Appended(mid, right, node2, y)
    BY <1>4, <1>6, <1>7, AppendIs
  <2> QED
    BY <2>1 DEF Appended
<1>9. /\ DOMAIN node2 = DOMAIN node \cup {y} /\ y \notin DOMAIN node
      /\ node2[n] = left /\ node2[y] = right /\ \A m \in DOMAIN node : m # n => node2[m] = node[m]
  BY <1>6, <1>8
<1>10. PICK Q : Q = PtrsOf(node2)
  OBVIOUS
<1>11. P \subseteq Q /\ y \in Q
  <2>1. Len(node) \in Nat /\ P = Records \cup 1 .. Len(node) /\ Q = Records \cup 1 .. y
    BY <1>1, <1>2, <1>8, <1>10 DEF PtrsOf
  <2>2. 1 .. Len(node) \subseteq 1 .. y /\ y \in 1 .. y
    BY <2>1
  <2> QED
    BY <2>1, <2>2
<1>12. NodesTyped(node2)
  <2>1. ASSUME NEW m \in DOMAIN node2 PROVE Typed(node2[m], P)
    BY <1>1, <1>3, <1>9, <2>1 DEF NodesTyped
  <2>2. \A m \in DOMAIN node2 : Typed(node2[m], Q)
    BY <1>11, <2>1, TypedUp
  <2> QED
    BY <1>8, <1>10, <2>2 DEF NodesTyped
<1>13. e2 \in Entry(Keys, Q) /\ e2.ptr = y /\ e2.key = v.entries[middle].key
  BY <1>1, <1>3, <1>11 DEF Entry
<1>14. SplitDone(node, n, e, node2, y, e2)
  BY <1>1, <1>3, <1>8, <1>9, <1>10, <1>12, <1>13 DEF SplitDone
<1>15. node2 = Halved([node EXCEPT ![n] = v], n, node2[n], y, node2[y])
  <2>1. PICK w : w = [node EXCEPT ![n] = v]
    OBVIOUS
  <2>2. DOMAIN w = DOMAIN node /\ \A m \in DOMAIN node : m # n => w[m] = node[m]
    BY <2>1
  <2>3. node2 = [m \in DOMAIN node2 |-> node2[m]]
    BY <1>8
  <2>4. \A m \in DOMAIN node2 : node2[m] = IF m = y THEN right ELSE IF m = n THEN left ELSE w[m]
    BY <1>9, <2>2
  <2>5. node2 = Halved(w, n, left, y, right)
    BY <1>9, <2>2, <2>3, <2>4 DEF Halved
  <2> QED
    BY <1>9, <2>1, <2>5
<1> QED
  BY <1>1, <1>3, <1>9, <1>13, <1>14, <1>15 DEF HalvedAt

\* The entries in the leaves, and their keys.
LeafEntries(node) == UNION {NodeEntries(node[m]) : m \in {n \in DOMAIN node : node[n].isLeaf}}
LeafKeys(node)    == {e.key : e \in LeafEntries(node)}

LEMMA InLeaves ==
    ASSUME NEW node, NEW e
    PROVE  e \in LeafEntries(node) <=> \E m \in DOMAIN node : node[m].isLeaf /\ e \in NodeEntries(node[m])
BY DEF LeafEntries

LEMMA InLeaf ==
    ASSUME NEW node, NEW k
    PROVE  k \in LeafKeys(node) <=> \E m \in DOMAIN node : node[m].isLeaf /\ k \in NodeKeys(node[m])
<1>1. ASSUME k \in LeafKeys(node) PROVE \E m \in DOMAIN node : node[m].isLeaf /\ k \in NodeKeys(node[m])
  <2>1. PICK e \in LeafEntries(node) : k = e.key
    BY <1>1 DEF LeafKeys
  <2> QED
    BY <2>1, InLeaves, EntryKeys
<1>2. ASSUME NEW m \in DOMAIN node, node[m].isLeaf, k \in NodeKeys(node[m]) PROVE k \in LeafKeys(node)
  <2>1. PICK e \in NodeEntries(node[m]) : k = e.key
    BY <1>2, EntryKeys
  <2> QED
    BY <1>2, <2>1, InLeaves DEF LeafKeys
<1> QED
  BY <1>1, <1>2

\* A set of entries once e is in it, in the place of one with the same key.
WithEntry(S, e) == {x \in S : x.key # e.key} \cup {e}

LEMMA KeysWith ==
    ASSUME NEW S, NEW e, NEW T, T = S \cup {e} \/ T = WithEntry(S, e)
    PROVE  {x.key : x \in T} = {x.key : x \in S} \cup {e.key}
BY DEF WithEntry

LEMMA WithNew ==
    ASSUME NEW S, NEW e, e.key \notin {x.key : x \in S}
    PROVE  WithEntry(S, e) = S \cup {e}
BY DEF WithEntry

\* A leaf that is split shares its entries and the new one; no other leaf changes.
EntriesShared(node, n, node2, y, e) ==
    node[n].isLeaf => NodeEntries(node2[n]) \cup NodeEntries(node2[y]) = NodeEntries(node[n]) \cup {e}
EntriesAfter(node, n, node2, e) ==
    /\ node[n].isLeaf => LeafEntries(node2) = LeafEntries(node) \cup {e}
    /\ ~node[n].isLeaf => LeafEntries(node2) = LeafEntries(node)

LEMMA SplitEntries ==
    ASSUME NEW node, NEW n \in DOMAIN node, NEW node2, NEW y, y \notin DOMAIN node,
           DOMAIN node2 = DOMAIN node \cup {y}, \A m \in DOMAIN node : m # n => node2[m] = node[m],
           node2[n].isLeaf = node[n].isLeaf, node2[y].isLeaf = node[n].isLeaf, NEW e,
           EntriesShared(node, n, node2, y, e)
    PROVE  EntriesAfter(node, n, node2, e)
<1>1. ASSUME node[n].isLeaf PROVE LeafEntries(node2) = LeafEntries(node) \cup {e}
  <2>1. ASSUME NEW k \in LeafEntries(node2) PROVE k \in LeafEntries(node) \cup {e}
    <3>1. PICK m \in DOMAIN node2 : node2[m].isLeaf /\ k \in NodeEntries(node2[m])
      BY <2>1, InLeaves
    <3> QED
      BY <1>1, <3>1, InLeaves DEF EntriesShared
  <2>2. ASSUME NEW k \in LeafEntries(node) \cup {e} PROVE k \in LeafEntries(node2)
    <3>1. CASE k = e
      BY <1>1, <3>1, InLeaves DEF EntriesShared
    <3>2. CASE k \in LeafEntries(node)
      <4>1. PICK m \in DOMAIN node : node[m].isLeaf /\ k \in NodeEntries(node[m])
        BY <3>2, InLeaves
      <4> QED
        BY <1>1, <4>1, InLeaves DEF EntriesShared
    <3> QED
      BY <2>2, <3>1, <3>2
  <2> QED
    BY <2>1, <2>2
<1>2. ASSUME ~node[n].isLeaf PROVE LeafEntries(node2) = LeafEntries(node)
  <2>1. ASSUME NEW k \in LeafEntries(node2) PROVE k \in LeafEntries(node)
    <3>1. PICK m \in DOMAIN node2 : node2[m].isLeaf /\ k \in NodeEntries(node2[m])
      BY <2>1, InLeaves
    <3> QED
      BY <1>2, <3>1, InLeaves
  <2>2. ASSUME NEW k \in LeafEntries(node) PROVE k \in LeafEntries(node2)
    <3>1. PICK m \in DOMAIN node : node[m].isLeaf /\ k \in NodeEntries(node[m])
      BY <2>2, InLeaves
    <3> QED
      BY <1>2, <3>1, InLeaves
  <2> QED
    BY <2>1, <2>2
<1> QED
  BY <1>1, <1>2 DEF EntriesAfter

\* The node that takes one entry too many is split, and its second half is to be put above it.
LEMMA SplitPends ==
    ASSUME NEW node, NodesTyped(node), NEW n \in DOMAIN node, node[n].numKeys = FANOUT,
           NEW e \in Entry(Keys, PtrsOf(node)), NEW t, IsPlace(node[n], t, e.key),
           NEW node2, node2 = SplitAt(node, n, e), NEW y, y = Len(node) + 1,
           NEW e2, e2 = [key |-> splitKey(node[n], e), ptr |-> y],
           NEW root, NEW depth, NEW reg, NEW lev, NodeRight(node[n]),
           Whole([node EXCEPT ![n] = Stretched(node[n], t, e)], root, depth, reg, lev),
           NEW anc, NEW k, NEW key, Comes(reg, anc, 0, k - 1, key),
           \A j \in 0 .. k - 1 : anc[j] \in DOMAIN node /\ anc[j] # n
    PROVE  /\ SplitDone(node, n, e, node2, y, e2)
           /\ Pends(node2, root, depth, n, e2, anc, k, key)
           /\ EntriesAfter(node, n, node2, e)
<1>1. SplitDone(node, n, e, node2, y, e2)
  BY SplitNodes
<1>2. PICK v : /\ v = Stretched(node[n], t, e)
               /\ Division(v, middle, node2[n], node2[y]) /\ e2.key = v.entries[middle].key
               /\ node2 = Halved([node EXCEPT ![n] = v], n, node2[n], y, node2[y])
  <2>1. HalvedAt(node, n, Stretched(node[n], t, e), node2, y, e2)
    BY SplitNodes
  <2> QED
    BY <2>1 DEF HalvedAt
<1>3. PICK mid : mid = [node EXCEPT ![n] = v]
  OBVIOUS
<1>4. /\ DOMAIN mid = DOMAIN node /\ mid[n] = v /\ n \in DOMAIN mid /\ y \notin DOMAIN mid
      /\ Whole(mid, root, depth, reg, lev)
  BY <1>1, <1>2, <1>3 DEF SplitDone
<1>5. PICK reg2, lev2, c, left, right :
         /\ c = e2.key /\ left = node2[n] /\ right = node2[y]
         /\ reg2 = HalvedRegion(mid, reg, n, y, c) /\ lev2 = HalvedLevel(mid, lev, n, y)
  OBVIOUS
<1>6. middle \in Int
  BY MiddleIs
<1>7. Division(mid[n], middle, left, right) /\ c = mid[n].entries[middle].key
      /\ node2 = Halved(mid, n, left, y, right)
  BY <1>2, <1>3, <1>4, <1>5
<1>8. Pending(node2, root, depth, reg2, lev2, n, y, c)
  BY <1>4, <1>5, <1>6, <1>7, Split
<1>9. Comes(reg2, anc, 0, k - 1, key)
  BY <1>4, <1>5 DEF Comes, HalvedRegion
<1>10. Pends(node2, root, depth, n, e2, anc, k, key)
  BY <1>1, <1>5, <1>8, <1>9 DEF Pends, SplitDone
<1>11. node[n].numKeys \in Nat /\ node[n].numKeys <= FANOUT /\ e.key \in Nat
  <2>1. e.key \in Nat
    BY RelationAssumption DEF Entry
  <2> QED
    BY <2>1, FanoutIs
<1>12. /\ Holds(v, Wide(node[n], t, e), 0, node[n].numKeys + 1)
       /\ v.isLeaf = node[n].isLeaf /\ v.FirstLeaf = node[n].FirstLeaf /\ v.LastLeaf = node[n].LastLeaf
  BY <1>2, <1>11, StretchedIs
<1>13. NodeRight(v) /\ NodeEntries(v) = NodeEntries(node[n]) \cup {e}
  BY <1>11, <1>12, WideNode
<1>14. v.isLeaf => NodeEntries(left) \cup NodeEntries(right) = NodeEntries(v)
  BY <1>4, <1>6, <1>7, <1>13, DividedKeys
<1>15. EntriesShared(node, n, node2, y, e)
  BY <1>5, <1>12, <1>13, <1>14 DEF EntriesShared
<1>16. EntriesAfter(node, n, node2, e)
  <2>1. /\ y \notin DOMAIN node /\ DOMAIN node2 = DOMAIN node \cup {y}
        /\ \A m \in DOMAIN node : m # n => node2[m] = node[m]
        /\ node2[n].isLeaf = node[n].isLeaf /\ node2[y].isLeaf = node[n].isLeaf
    BY <1>1 DEF SplitDone
  <2> QED
    BY <1>15, <2>1, SplitEntries
<1> QED
  BY <1>1, <1>10, <1>16

HalfFull(node, root) == \A m \in DOMAIN node \ {root} : node[m].numKeys >= FANOUT \div 2

\* The ancestors at the levels above k are the nodes of r still.
Same(r, anc, k, node) ==
    \A j \in 0 .. k - 1 : anc[j] \in DOMAIN r.node /\ node[anc[j]] = r.node[anc[j]]

\* The new entry is in a leaf, the ancestor at level k has just been split, and e is what is to be put
\* above it.
Climbing(r, anc, k, new, node, e) ==
    /\ NodesTyped(node) /\ DOMAIN r.node \subseteq DOMAIN node /\ e \in Entry(Keys, PtrsOf(node))
    /\ Pends(node, r.root, r.depth, anc[k], e, anc, k, new.key)
    /\ Same(r, anc, k, node)
    /\ HalfFull(node, r.root) /\ node[anc[k]].numKeys >= FANOUT \div 2
    /\ LeafEntries(node) = LeafEntries(r.node) \cup {new}

\* The ancestors are different nodes.
LEMMA Different ==
    ASSUME NEW r, NEW reg, NEW lev, NEW anc, NEW ix, r.depth \in Nat, Along(r, reg, lev, anc, ix, r.depth),
           NEW k \in 0 .. r.depth
    PROVE  \A j \in 0 .. k - 1 : anc[j] \in DOMAIN r.node /\ anc[j] # anc[k]
<1>1. \A j \in 0 .. r.depth : anc[j] \in DOMAIN r.node /\ lev[anc[j]] = j
  BY DEF Along
<1>2. \A j \in 0 .. k - 1 : j \in 0 .. r.depth /\ j # k
  OBVIOUS
<1> QED
  BY <1>1, <1>2

LEMMA HalvesFull ==
    ASSUME NEW node, NEW n, NEW e, NEW node2, NEW y, NEW e2, NEW root, HalfFull(node, root),
           SplitDone(node, n, e, node2, y, e2)
    PROVE  HalfFull(node2, root) /\ node2[n].numKeys >= FANOUT \div 2
BY DEF HalfFull, SplitDone

LEMMA FirstSplit ==
    ASSUME NEW r, NEW reg, NEW lev, Whole(r.node, r.root, r.depth, reg, lev), r.depth \in Nat,
           NodesTyped(r.node), HalfFull(r.node, r.root),
           NEW anc, NEW ix, Along(r, reg, lev, anc, ix, r.depth),
           NEW e \in Entry(Keys, PtrsOf(r.node)), Comes(reg, anc, 0, r.depth, e.key),
           NEW n, n = anc[r.depth], r.node[n].numKeys = FANOUT, NEW t, IsPlace(r.node[n], t, e.key),
           NEW node2, node2 = SplitAt(r.node, n, e),
           NEW e2, e2 = [key |-> splitKey(r.node[n], e), ptr |-> Len(r.node) + 1]
    PROVE  Climbing(r, anc, r.depth, e, node2, e2)
<1>1. PICK node, k, v, y : node = r.node /\ k = r.depth /\ v = Stretched(node[n], t, e) /\ y = Len(node) + 1
  OBVIOUS
<1>2. k \in Nat /\ k \in 0 .. k
  BY <1>1
<1>3. n \in DOMAIN node /\ node[n].isLeaf
  BY <1>1, <1>2 DEF Along
<1>4. NodeRight(node[n])
  BY <1>1, <1>3 DEF Whole, Tree
<1>5. \A j \in 0 .. k - 1 : anc[j] \in DOMAIN node /\ anc[j] # n
  BY <1>1, <1>2, Different
<1>6. node[n].numKeys \in Nat /\ node[n].numKeys <= FANOUT /\ e.key \in Nat
  <2>1. e.key \in Nat
    BY RelationAssumption DEF Entry
  <2> QED
    BY <1>1, <2>1, FanoutIs
<1>7. /\ Holds(v, Wide(node[n], t, e), 0, node[n].numKeys + 1)
      /\ v.isLeaf = node[n].isLeaf /\ v.FirstLeaf = node[n].FirstLeaf /\ v.LastLeaf = node[n].LastLeaf
  BY <1>1, <1>6, StretchedIs
<1>8. NodeRight(v) /\ NodeKeys(v) = NodeKeys(node[n]) \cup {e.key}
  BY <1>1, <1>4, <1>6, <1>7, WideNode
<1>9. NodeKeys(v) \subseteq reg[n]
  <2>1. NodeKeys(node[n]) \subseteq reg[n]
    BY <1>1, <1>3 DEF Whole, Tree, Placed
  <2>2. e.key \in reg[n]
    BY <1>1, <1>2 DEF Comes
  <2> QED
    BY <1>8, <2>1, <2>2
<1>10. PICK mid : mid = [node EXCEPT ![n] = v]
  OBVIOUS
<1>11. v.isLeaf
  BY <1>3, <1>7
<1>12. Whole(mid, r.root, r.depth, reg, lev)
  BY <1>1, <1>3, <1>7, <1>8, <1>9, <1>10, <1>11, LeafChange
<1>13. Comes(reg, anc, 0, k - 1, e.key)
  BY <1>1, <1>2 DEF Comes
<1>14. /\ SplitDone(node, n, e, node2, y, e2)
       /\ Pends(node2, r.root, r.depth, n, e2, anc, k, e.key)
       /\ EntriesAfter(node, n, node2, e)
  BY <1>1, <1>3, <1>4, <1>5, <1>10, <1>12, <1>13, SplitPends
<1>15. HalfFull(node2, r.root) /\ node2[n].numKeys >= FANOUT \div 2
  BY <1>1, <1>14, HalvesFull
<1>16. LeafEntries(node2) = LeafEntries(node) \cup {e}
  BY <1>3, <1>14 DEF EntriesAfter
<1>17. Same(r, anc, k, node2)
  BY <1>1, <1>5, <1>14 DEF Same, SplitDone
<1>18. /\ NodesTyped(node2) /\ DOMAIN node \subseteq DOMAIN node2 /\ e2 \in Entry(Keys, PtrsOf(node2))
  BY <1>14 DEF SplitDone
<1> QED
  BY <1>1, <1>14, <1>15, <1>16, <1>17, <1>18 DEF Climbing

LEMMA NextSplit ==
    ASSUME NEW r, NEW reg0, NEW lev0, r.depth \in Nat,
           NEW anc, NEW ix, Along(r, reg0, lev0, anc, ix, r.depth), Links(r, anc, ix, r.depth),
           NEW new, NEW k \in 1 .. r.depth, NEW node, NEW e, Climbing(r, anc, k, new, node, e),
           NEW n, n = anc[k - 1], r.node[n].numKeys = FANOUT,
           NEW node2, node2 = SplitAt(node, n, e),
           NEW e2, e2 = [key |-> splitKey(node[n], e), ptr |-> Len(node) + 1]
    PROVE  Climbing(r, anc, k - 1, new, node2, e2)
<1>1. PICK h \in Nat : h = k - 1 /\ h \in 0 .. r.depth - 1 /\ h \in 0 .. r.depth /\ h + 1 = k /\ h # r.depth
                       /\ h \in 0 .. k - 1
  OBVIOUS
<1>2. PICK i, t, x, y, key : i = ix[h] /\ t = i + 1 /\ x = anc[k] /\ y = Len(node) + 1 /\ key = new.key
  OBVIOUS
<1>3. n \in DOMAIN r.node /\ ~r.node[n].isLeaf
  BY <1>1 DEF Along
<1>4. node[n] = r.node[n] /\ n \in DOMAIN node
  BY <1>1, <1>3 DEF Climbing, Same
<1>5. i \in Kids(node[n]) /\ Child(node[n], i) = x
  BY <1>1, <1>2, <1>4 DEF Links
<1>6. PICK reg, lev : /\ Pending(node, r.root, r.depth, reg, lev, x, e.ptr, e.key)
                      /\ Comes(reg, anc, 0, k - 1, key)
  BY <1>2 DEF Climbing, Pends
<1>7. IsPlace(node[n], t, e.key)
  BY <1>2, <1>3, <1>4, <1>5, <1>6, PendingParent
<1>8. NodesTyped(node) /\ e \in Entry(Keys, PtrsOf(node))
  BY DEF Climbing
<1>9. node[n].numKeys \in Nat /\ node[n].numKeys <= FANOUT /\ node[n].numKeys = FANOUT
  BY <1>4, FanoutIs
<1>10. PICK v, mid : v = Stretched(node[n], t, e) /\ mid = [node EXCEPT ![n] = v]
  OBVIOUS
<1>11. /\ Holds(v, Wide(node[n], i + 1, e), 0, node[n].numKeys + 1)
       /\ v.isLeaf = node[n].isLeaf /\ v.FirstLeaf = node[n].FirstLeaf /\ v.LastLeaf = node[n].LastLeaf
       /\ v.ptr0 = node[n].ptr0
  BY <1>2, <1>9, <1>10, StretchedIs
<1>12. Whole(mid, r.root, r.depth, reg, lev)
  <2>1. ~node[n].isLeaf
    BY <1>3, <1>4
  <2> QED
    BY <1>4, <1>5, <1>6, <1>9, <1>10, <1>11, <2>1, InternChange
<1>13. NodeRight(node[n])
  BY <1>4, <1>6 DEF Pending, Tree
<1>14. \A j \in 0 .. h - 1 : anc[j] \in DOMAIN node /\ anc[j] # n
  <2>1. \A j \in 0 .. h - 1 : anc[j] \in DOMAIN r.node /\ anc[j] # anc[h]
    BY <1>1, Different
  <2> QED
    BY <1>1, <2>1 DEF Climbing
<1>15. Comes(reg, anc, 0, h - 1, key)
  BY <1>1, <1>6 DEF Comes
<1>16. /\ SplitDone(node, n, e, node2, y, e2)
       /\ Pends(node2, r.root, r.depth, n, e2, anc, h, key)
       /\ EntriesAfter(node, n, node2, e)
  <2>1. Whole([node EXCEPT ![n] = Stretched(node[n], t, e)], r.root, r.depth, reg, lev)
    BY <1>10, <1>12
  <2>2. PICK root, depth : root = r.root /\ depth = r.depth
    OBVIOUS
  <2>3. e2 = [key |-> splitKey(node[n], e), ptr |-> y] /\ node[n].numKeys = FANOUT /\ y = Len(node) + 1
    BY <1>2, <1>9
  <2>4. /\ SplitDone(node, n, e, node2, y, e2)
        /\ Pends(node2, root, depth, n, e2, anc, h, key)
        /\ EntriesAfter(node, n, node2, e)
    BY <1>4, <1>7, <1>8, <1>13, <1>14, <1>15, <2>1, <2>2, <2>3, SplitPends
  <2> QED
    BY <2>2, <2>4
<1>17. HalfFull(node2, r.root) /\ node2[n].numKeys >= FANOUT \div 2
  BY <1>16, HalvesFull DEF Climbing
<1>18. LeafEntries(node2) = LeafEntries(node)
  BY <1>3, <1>4, <1>16 DEF EntriesAfter
<1>19. Same(r, anc, h, node2)
  <2>1. \A j \in 0 .. h - 1 : j \in 0 .. k - 1
    BY <1>1
  <2>2. \A j \in 0 .. h - 1 : anc[j] \in DOMAIN r.node /\ node[anc[j]] = r.node[anc[j]]
    BY <2>1 DEF Climbing, Same
  <2>3. \A m \in DOMAIN node : m # n => node2[m] = node[m]
    BY <1>16 DEF SplitDone
  <2> QED
    BY <1>14, <2>2, <2>3 DEF Same
<1>20. /\ NodesTyped(node2) /\ DOMAIN node \subseteq DOMAIN node2 /\ e2 \in Entry(Keys, PtrsOf(node2))
  BY <1>16 DEF SplitDone
<1>21. Climbing(r, anc, h, new, node2, e2)
  <2>1. DOMAIN r.node \subseteq DOMAIN node2 /\ LeafEntries(node2) = LeafEntries(r.node) \cup {new} /\ n = anc[h]
    BY <1>1, <1>18, <1>20 DEF Climbing
  <2> QED
    BY <1>2, <1>16, <1>17, <1>19, <1>20, <2>1 DEF Climbing
<1> QED
  BY <1>1, <1>21

-----------------------------------------------------------------------------
(* The splits one after the other. *)

IsSplits(f, first, anc, level) ==
    f = [s \in 0 .. level + 1 |-> IF s = 0 THEN first ELSE splitFull(f[s - 1], anc[level + 1 - s])]

LEMMA SplitsExist ==
    ASSUME NEW level \in Nat, NEW first, NEW anc
    PROVE  \E f : IsSplits(f, first, anc, level)
<1> DEFINE D == 0 .. level + 1
           Done(f, k) == \A s \in D : s <= k => f[s] = IF s = 0 THEN first ELSE splitFull(f[s - 1], anc[level + 1 - s])
           T == {k \in Nat : \E f : f = [s \in D |-> f[s]] /\ Done(f, k)}
<1>1. 0 \in T
  <2>1. PICK f : f = [s \in D |-> first]
    OBVIOUS
  <2>2. f = [s \in D |-> f[s]] /\ \A s \in D : f[s] = first
    BY <2>1
  <2>3. \A s \in D : s <= 0 => s = 0
    OBVIOUS
  <2> QED
    BY <2>2, <2>3
<1>2. ASSUME NEW k \in Nat, k \in T PROVE k + 1 \in T
  <2>1. PICK f : f = [s \in D |-> f[s]] /\ Done(f, k)
    BY <1>2
  <2>2. PICK next : next = splitFull(f[k], anc[level + 1 - (k + 1)])
    OBVIOUS
  <2>3. PICK g : g = [s \in D |-> IF s = k + 1 THEN next ELSE f[s]]
    OBVIOUS
  <2>4. g = [s \in D |-> g[s]]
    BY <2>3
  <2>5. ASSUME NEW s \in D, s <= k + 1
        PROVE  g[s] = IF s = 0 THEN first ELSE splitFull(g[s - 1], anc[level + 1 - s])
    <3>1. CASE s = k + 1
      <4>1. s # 0 /\ s - 1 = k /\ k \in D /\ k # k + 1
        BY <3>1
      <4>2. g[s] = next /\ g[s - 1] = f[k]
        BY <2>3, <3>1, <4>1
      <4> QED
        BY <2>2, <3>1, <4>1, <4>2
    <3>2. CASE s # k + 1
      <4>1. s <= k /\ g[s] = f[s]
        BY <2>3, <2>5, <3>2
      <4>2. s # 0 => s - 1 \in D /\ s - 1 # k + 1
        BY <4>1
      <4>3. s # 0 => g[s - 1] = f[s - 1]
        BY <2>3, <4>2
      <4> QED
        BY <2>1, <4>1, <4>3
    <3> QED
      BY <3>1, <3>2
  <2>6. Done(g, k + 1)
    BY <2>5
  <2> HIDE DEF Done
  <2> QED
    BY <2>4, <2>6
<1>3. level + 1 \in T
  <2> HIDE DEF T
  <2> QED
    BY <1>1, <1>2, SetInduction
<1>4. PICK f : f = [s \in D |-> f[s]] /\ Done(f, level + 1)
  BY <1>3
<1>5. \A s \in D : s <= level + 1
  OBVIOUS
<1>6. f = [s \in D |-> IF s = 0 THEN first ELSE splitFull(f[s - 1], anc[level + 1 - s])]
  BY <1>4, <1>5
<1> QED
  BY <1>6 DEF IsSplits

LEMMA SplitsAre ==
    ASSUME NEW r, NEW c, NEW level \in Nat, NEW e, NEW f, f = splits(r, c, level, e)
    PROVE  /\ f[0] = [rel |-> r, e |-> e]
           /\ \A s \in 1 .. level + 1 : f[s] = splitFull(f[s - 1], c.ancestors[level + 1 - s])
<1> DEFINE Is(g) == g = [s \in 0 .. level + 1 |->
                            IF s = 0 THEN [rel |-> r, e |-> e]
                            ELSE splitFull(g[s - 1], c.ancestors[level + 1 - s])]
<1>1. PICK g : Is(g)
  <2>1. PICK first, anc : first = [rel |-> r, e |-> e] /\ anc = c.ancestors
    OBVIOUS
  <2>2. PICK g : IsSplits(g, first, anc, level)
    BY SplitsExist
  <2> QED
    BY <2>1, <2>2 DEF IsSplits
<1>2. f = CHOOSE g2 : Is(g2)
  BY DEF splits
<1>3. Is(f)
  BY <1>1, <1>2
<1>4. 0 \in 0 .. level + 1 /\ \A s \in 1 .. level + 1 : s \in 0 .. level + 1 /\ s # 0
  OBVIOUS
<1> QED
  BY <1>3, <1>4

\* The relation r with other nodes.
WithNode(r, node) == [root |-> r.root, numRecords |-> r.numRecords, depth |-> r.depth, node |-> node]

IsSplit(q, r, node, n, e) == /\ q.rel = WithNode(r, SplitAt(node, n, e))
                             /\ q.e = [key |-> splitKey(node[n], e), ptr |-> Len(node) + 1]

LEMMA SplitFullIs ==
    ASSUME NEW r, NEW node, NEW p, p.rel = WithNode(r, node), NEW n, NEW q, q = splitFull(p, n)
    PROVE  IsSplit(q, r, node, n, p.e)
<1>1. p.rel.node = node
  BY DEF WithNode
<1>2. q = [rel |-> [p.rel EXCEPT !.node = Append([@ EXCEPT ![n] = splitLeft(node[n], p.e)],
                                                 splitRight(node[n], p.e))],
           e   |-> [key |-> splitKey(node[n], p.e), ptr |-> Len(node) + 1]]
  BY <1>1 DEF splitFull
<1>3. PICK w : w = SplitAt(node, n, p.e)
  OBVIOUS
<1>4. q.rel = [p.rel EXCEPT !.node = w]
  BY <1>1, <1>2, <1>3 DEF SplitAt
<1>5. q.rel = WithNode(r, w)
  BY <1>4 DEF WithNode
<1> QED
  BY <1>2, <1>3, <1>5 DEF IsSplit

\* After s splits.
Up(r, anc, new, f, s) ==
    /\ f[s].rel = WithNode(r, f[s].rel.node)
    /\ Climbing(r, anc, r.depth + 1 - s, new, f[s].rel.node, f[s].e)

LEMMA Climbed ==
    ASSUME NEW r, NEW reg, NEW lev, Whole(r.node, r.root, r.depth, reg, lev), r.depth \in Nat,
           r = WithNode(r, r.node), NodesTyped(r.node), HalfFull(r.node, r.root),
           NEW c, NEW anc, anc = c.ancestors, NEW ix, Along(r, reg, lev, anc, ix, r.depth),
           Links(r, anc, ix, r.depth),
           NEW e \in Entry(Keys, PtrsOf(r.node)), Comes(reg, anc, 0, r.depth, e.key),
           NEW t, IsPlace(r.node[anc[r.depth]], t, e.key),
           NEW top \in -1 .. r.depth - 1, \A l \in top + 1 .. r.depth : r.node[anc[l]].numKeys = FANOUT,
           NEW f, f = splits(r, c, r.depth, e)
    PROVE  Up(r, anc, e, f, r.depth - top)
<1>1. PICK d, new : d = r.depth /\ d \in Nat /\ new = e /\ top \in Int /\ top >= -1 /\ top < d
  OBVIOUS
<1>2. /\ f[0] = [rel |-> r, e |-> e]
      /\ \A s \in 1 .. d + 1 : f[s] = splitFull(f[s - 1], anc[d + 1 - s])
  BY <1>1, SplitsAre
<1> DEFINE S == {s \in Int : Up(r, anc, new, f, s)}
<1>3. PICK a \in Int, b \in Int : a = 1 /\ b = d - top
  BY <1>1
<1>4. a \in S
  <2>1. PICK n, p, q : n = anc[d] /\ p = f[0] /\ q = f[1]
    OBVIOUS
  <2>2. 1 \in 1 .. d + 1 /\ 1 - 1 = 0 /\ d + 1 - 1 = d /\ d \in top + 1 .. d
    BY <1>1
  <2>3. q = splitFull(p, n) /\ p.rel = WithNode(r, r.node) /\ p.e = e
    BY <1>2, <2>1, <2>2
  <2>4. /\ q.rel = WithNode(r, SplitAt(r.node, n, e))
        /\ q.e = [key |-> splitKey(r.node[n], e), ptr |-> Len(r.node) + 1]
    <3>1. IsSplit(q, r, r.node, n, p.e)
      BY <2>3, SplitFullIs
    <3> QED
      BY <2>3, <3>1 DEF IsSplit
  <2>5. q.rel.node = SplitAt(r.node, n, e)
    BY <2>4 DEF WithNode
  <2>6. r.node[n].numKeys = FANOUT
    BY <1>1, <2>1, <2>2
  <2>7. Climbing(r, anc, r.depth, e, q.rel.node, q.e)
    BY <1>1, <2>1, <2>4, <2>5, <2>6, FirstSplit
  <2> QED
    BY <1>1, <1>3, <2>1, <2>2, <2>4, <2>5, <2>7 DEF Up
<1>5. ASSUME NEW s \in a .. b, s \in S, s # b PROVE s + 1 \in S
  <2>1. /\ s \in Int /\ s + 1 \in 1 .. d + 1 /\ (s + 1) - 1 = s /\ d + 1 - (s + 1) = (d + 1 - s) - 1
        /\ d + 1 - s \in 1 .. d /\ (d + 1 - s) - 1 \in top + 1 .. d
    BY <1>1, <1>3, <1>5
  <2>2. PICK k, n, p, q, node : /\ k = d + 1 - s /\ n = anc[k - 1] /\ p = f[s] /\ q = f[s + 1]
                                /\ node = p.rel.node
    OBVIOUS
  <2>3. q = splitFull(p, n)
    BY <1>2, <2>1, <2>2
  <2>4. p.rel = WithNode(r, node) /\ Climbing(r, anc, k, new, node, p.e)
    BY <1>1, <1>5, <2>2 DEF Up
  <2>5. /\ q.rel = WithNode(r, SplitAt(node, n, p.e))
        /\ q.e = [key |-> splitKey(node[n], p.e), ptr |-> Len(node) + 1]
    <3>1. IsSplit(q, r, node, n, p.e)
      BY <2>3, <2>4, SplitFullIs
    <3> QED
      BY <3>1 DEF IsSplit
  <2>6. q.rel.node = SplitAt(node, n, p.e)
    BY <2>5 DEF WithNode
  <2>7. r.node[n].numKeys = FANOUT /\ k \in 1 .. r.depth
    BY <1>1, <2>1, <2>2
  <2>8. Climbing(r, anc, k - 1, new, q.rel.node, q.e)
    <3>1. PICK e1, e2, node2 : e1 = p.e /\ e2 = q.e /\ node2 = q.rel.node
      OBVIOUS
    <3>2. n = anc[k - 1] /\ Climbing(r, anc, k, new, node, e1) /\ node2 = SplitAt(node, n, e1)
          /\ e2 = [key |-> splitKey(node[n], e1), ptr |-> Len(node) + 1]
      BY <2>2, <2>4, <2>5, <2>6, <3>1
    <3>3. Climbing(r, anc, k - 1, new, node2, e2)
      BY <2>7, <3>2, NextSplit
    <3> QED
      BY <3>1, <3>3
  <2>9. r.depth + 1 - (s + 1) = k - 1 /\ s + 1 \in Int
    BY <1>1, <2>1, <2>2
  <2>10. q.rel = WithNode(r, q.rel.node)
    BY <2>5, <2>6
  <2> QED
    BY <2>2, <2>8, <2>9, <2>10 DEF Up
<1>6. b \in S
  <2> HIDE DEF S
  <2>1. \A s \in a .. b : s \in S
    BY <1>4, <1>5, UpTo
  <2>2. b \in a .. b
    BY <1>1, <1>3
  <2> QED
    BY <2>1, <2>2
<1> QED
  BY <1>1, <1>3, <1>6

-----------------------------------------------------------------------------
(* The relation. *)

RelInv(r) ==
    /\ r = WithNode(r, r.node)
    /\ NodesTyped(r.node) /\ HalfFull(r.node, r.root)
    /\ IsFiniteSet(LeafKeys(r.node)) /\ r.numRecords = Cardinality(LeafKeys(r.node))
    /\ \E reg, lev : Whole(r.node, r.root, r.depth, reg, lev)

LEMMA RelSound ==
    ASSUME NEW r, RelInv(r), r.depth \in Levels, NEW reg, NEW lev, Whole(r.node, r.root, r.depth, reg, lev)
    PROVE  Sound(r, reg, lev)
<1>1. \A m \in DOMAIN r.node : r.node[m].numKeys \in 0 .. FANOUT
  BY TypedKeys DEF RelInv, NodesTyped
<1>2. \A m \in DOMAIN r.node : m # r.root => r.node[m].numKeys >= FANOUT \div 2
  BY DEF RelInv, HalfFull
<1>3. FANOUT \div 2 \in Int /\ FANOUT \div 2 >= 1
  BY FanoutIs
<1>4. \A m \in DOMAIN r.node : m # r.root => r.node[m].numKeys >= 1
  BY <1>1, <1>2, <1>3
<1> QED
  BY <1>1, <1>4 DEF Sound

\* Where the search for a key that is not in a leaf ends, it may be put.
LEMMA NotFound ==
    ASSUME NEW nd, HasKeys(nd), NEW key \in Nat, NEW t, t = findRecordIndex(nd, key),
           ~(t < nd.numKeys /\ nd.entries[t].key = key)
    PROVE  IsPlace(nd, t, key)
<1>1. /\ t \in 0 .. nd.numKeys
      /\ \A j \in 0 .. t - 1 : nd.entries[j].key < key
      /\ t < nd.numKeys => key <= nd.entries[t].key
  BY RecordIndex
<1>2. t < nd.numKeys => key < nd.entries[t].key
  <2> SUFFICES ASSUME t < nd.numKeys PROVE key < nd.entries[t].key
    OBVIOUS
  <2>1. nd.entries[t].key \in Nat
    BY <1>1 DEF HasKeys
  <2> QED
    BY <1>1, <2>1
<1> QED
  BY <1>1, <1>2 DEF IsPlace

LEMMA NotThere ==
    ASSUME NEW node, NEW root, NEW depth, NEW reg, NEW lev, Whole(node, root, depth, reg, lev),
           NEW n \in DOMAIN node, node[n].isLeaf, NEW key \in Nat, key \in reg[n], NEW t, IsPlace(node[n], t, key)
    PROVE  key \notin LeafKeys(node)
<1> SUFFICES ASSUME key \in LeafKeys(node) PROVE FALSE
  OBVIOUS
<1>1. PICK m \in DOMAIN node : node[m].isLeaf /\ key \in NodeKeys(node[m])
  BY InLeaf
<1>2. lev[m] = depth /\ lev[n] = depth /\ key \in reg[m]
  BY <1>1 DEF Whole, Tree, Placed
<1>3. m = n
  BY <1>2 DEF Whole, Tree, RegionsApart
<1>4. HasKeys(node[n]) /\ Sorted(node[n])
  BY DEF Whole, Tree, NodeRight
<1>5. PICK j \in 0 .. node[n].numKeys - 1 : node[n].entries[j].key = key
  BY <1>1, <1>3 DEF NodeKeys
<1>6. PICK k \in Nat, a \in {node[n].entries} : k = node[n].numKeys /\ a = node[n].entries
  BY <1>4 DEF HasKeys
<1>7. /\ j \in 0 .. k - 1 /\ a[j].key = key
      /\ t \in 0 .. k /\ \A i \in 0 .. t - 1 : a[i].key < key
      /\ t < k => key < a[t].key
      /\ \A i \in 0 .. k - 1 : a[i].key \in Nat
      /\ \A i1, i2 \in 0 .. k - 1 : i1 < i2 => a[i1].key < a[i2].key
  BY <1>4, <1>5, <1>6 DEF IsPlace, HasKeys, Sorted
<1>8. CASE j < t
  <2>1. j \in 0 .. t - 1
    BY <1>7, <1>8
  <2> QED
    BY <1>7, <2>1
<1>9. CASE ~(j < t)
  <2>1. t \in 0 .. k - 1 /\ t < k /\ (t = j \/ t < j)
    BY <1>6, <1>7, <1>9
  <2>2. key < a[t].key /\ a[t].key \in Nat /\ (t = j \/ a[t].key < a[j].key)
    BY <1>7, <2>1
  <2>3. t # j
    BY <1>7, <2>2
  <2> QED
    BY <1>7, <2>2, <2>3
<1> QED
  BY <1>8, <1>9

\* levelWithRoom finds the lowest level that has room.
LEMMA RoomIs ==
    ASSUME NEW r, NEW c, NEW level \in Nat, NEW anc, anc = c.ancestors,
           \A l \in 0 .. level : r.node[anc[l]].numKeys \in 0 .. FANOUT,
           NEW top, top = levelWithRoom(r, c, level)
    PROVE  /\ top \in -1 .. level
           /\ top # -1 => r.node[anc[top]].numKeys < FANOUT
           /\ \A l \in top + 1 .. level : r.node[anc[l]].numKeys = FANOUT
<1> DEFINE room(l) == r.node[anc[l]].numKeys < FANOUT
           S == {l \in Int : l # -1 => room(l)}
           P(l) == (l # -1 => room(l)) /\ \A j \in l + 1 .. level : ~room(j)
<1>1. PICK a \in Int : a = -1
  OBVIOUS
<1>2. a \in S /\ a \in a .. level /\ level \in Int
  BY <1>1
<1>3. PICK l \in a .. level : l \in S /\ \A j \in l + 1 .. level : j \notin S
  <2> HIDE DEF S
  <2> QED
    BY <1>2, Highest
<1>4. l \in -1 .. level /\ P(l)
  <2>1. \A j \in l + 1 .. level : j \in Int /\ j # -1
    BY <1>1
  <2> HIDE DEF room
  <2> QED
    BY <1>1, <1>3, <2>1
<1>5. top = CHOOSE i \in -1 .. level : P(i)
  BY DEF levelWithRoom
<1>6. top \in -1 .. level /\ P(top)
  <2> HIDE DEF P
  <2> QED
    BY <1>4, <1>5
<1>7. \A j \in top + 1 .. level : j \in 0 .. level
  BY <1>6
<1>8. ASSUME NEW j \in top + 1 .. level PROVE r.node[anc[j]].numKeys = FANOUT
  <2>1. r.node[anc[j]].numKeys \in 0 .. FANOUT /\ ~(r.node[anc[j]].numKeys < FANOUT)
    BY <1>6, <1>7
  <2> QED
    BY <2>1, FanoutIs
<1> QED
  BY <1>6, <1>8

\* A cursor goes on being a path while the nodes above its leaf are the same.
SameBut(node, node2, n) == DOMAIN node2 = DOMAIN node /\ \A m \in DOMAIN node : m # n => node2[m] = node[m]

LEMMA PathStays ==
    ASSUME NEW r, NEW reg, NEW lev, Sound(r, reg, lev), NEW c, IsPath(r, c),
           NEW r2, r2.root = r.root, r2.depth = r.depth, NEW n, n = c.ancestors[r.depth],
           SameBut(r.node, r2.node, n), NEW i, i = c.ancestorsIdx[r.depth], i \in 0 .. r2.node[n].numKeys
    PROVE  IsPath(r2, c)
<1>1. PICK d \in Nat, anc \in {c.ancestors}, ix \in {c.ancestorsIdx} :
         anc = c.ancestors /\ ix = c.ancestorsIdx /\ d = r.depth
  BY SoundIs
<1>2. Along(r, reg, lev, anc, ix, r.depth)
  BY <1>1, SoundIs, Followed DEF IsPath
<1>3. d \in 0 .. r.depth
  BY <1>1
<1>4. \A j \in 0 .. d - 1 : anc[j] \in DOMAIN r.node /\ anc[j] # anc[d]
  <2>1. \A j \in 0 .. d : anc[j] \in DOMAIN r.node /\ lev[anc[j]] = j
    BY <1>1, <1>2 DEF Along
  <2>2. d \in 0 .. d /\ \A j \in 0 .. d - 1 : j \in 0 .. d /\ j # d
    BY <1>1
  <2> QED
    BY <2>1, <2>2
<1>5. \A j \in 0 .. d - 1 : r2.node[anc[j]] = r.node[anc[j]]
  BY <1>1, <1>4 DEF SameBut
<1>6. Links(r2, anc, ix, d)
  BY <1>1, <1>5 DEF IsPath, Links
<1> QED
  BY <1>1, <1>6 DEF IsPath, SameBut

-----------------------------------------------------------------------------
(* What putEntry leaves. *)

\* The cursor stands where the key belongs.
Ready(r, reg, lev, c, key) ==
    /\ RelInv(r) /\ r.depth \in Levels /\ Whole(r.node, r.root, r.depth, reg, lev)
    /\ IsPath(r, c) /\ Comes(reg, c.ancestors, 0, r.depth, key) /\ key \in Keys
    /\ c.ancestorsIdx[r.depth] = findRecordIndex(r.node[c.ancestors[r.depth]], key)

\* It stands at the key.
Sought(r, c, key) ==
    LET n == c.ancestors[r.depth]
        i == c.ancestorsIdx[r.depth]
    IN  i < r.node[n].numKeys /\ r.node[n].entries[i].key = key

PutDone(r, r2, cur, e) ==
    /\ RelInv(r2) /\ DOMAIN r.node \subseteq DOMAIN r2.node
    /\ LeafEntries(r2.node) = WithEntry(LeafEntries(r.node), e)
    /\ r2.depth \in Levels => IsPath(r2, cur) /\ Sought(r2, cur, e.key)

\* The search for a key that is in the tree ends there.
LEMMA SoughtIs ==
    ASSUME NEW r, NEW reg, NEW lev, Sound(r, reg, lev), NEW c, IsPath(r, c),
           NEW n, n = c.ancestors[r.depth], NEW key \in Nat, key \in reg[n], key \in LeafKeys(r.node),
           c.ancestorsIdx[r.depth] = findRecordIndex(r.node[n], key)
    PROVE  Sought(r, c, key)
<1>1. Whole(r.node, r.root, r.depth, reg, lev) /\ r.depth \in Nat /\ r.depth \in 0 .. r.depth
  BY SoundIs
<1>2. Along(r, reg, lev, c.ancestors, c.ancestorsIdx, r.depth)
  BY <1>1, Followed DEF IsPath
<1>3. n \in DOMAIN r.node /\ r.node[n].isLeaf
  BY <1>1, <1>2 DEF Along
<1>4. HasKeys(r.node[n])
  BY <1>1, <1>3 DEF Whole, Tree, NodeRight
<1>5. PICK i, node, root, depth : /\ i = findRecordIndex(r.node[n], key)
                                  /\ node = r.node /\ root = r.root /\ depth = r.depth
  OBVIOUS
<1>6. IsPlace(node[n], i, key) => key \notin LeafKeys(node)
  <2>1. Whole(node, root, depth, reg, lev) /\ n \in DOMAIN node /\ node[n].isLeaf
    BY <1>1, <1>3, <1>5
  <2> QED
    BY <2>1, NotThere
<1>7. i < node[n].numKeys /\ node[n].entries[i].key = key
  BY <1>4, <1>5, <1>6, NotFound
<1> QED
  BY <1>5, <1>7 DEF Sought

LEMMA NodeSet ==
    ASSUME NEW node, NodesTyped(node), NEW n \in DOMAIN node, NEW nd, Typed(nd, PtrsOf(node)),
           NEW node2, node2 = [node EXCEPT ![n] = nd]
    PROVE  NodesTyped(node2) /\ DOMAIN node2 = DOMAIN node /\ PtrsOf(node2) = PtrsOf(node)
<1>1. node \in Seq(AnyNodes) /\ nd \in AnyNodes
  BY TypedAny DEF NodesTyped
<1>2. /\ node2 \in Seq(AnyNodes) /\ Len(node2) = Len(node) /\ DOMAIN node2 = DOMAIN node
      /\ node2[n] = nd /\ \A m \in DOMAIN node : m # n => node2[m] = node[m]
  BY <1>1, SetIs
<1>3. PtrsOf(node2) = PtrsOf(node)
  BY <1>2 DEF PtrsOf
<1>4. \A m \in DOMAIN node2 : Typed(node2[m], PtrsOf(node2))
  BY <1>2, <1>3 DEF NodesTyped
<1> QED
  BY <1>2, <1>3, <1>4 DEF NodesTyped

\* One leaf gets an entry, and no other leaf has its key.
LEMMA LeafSetEntries ==
    ASSUME NEW node, NEW n \in DOMAIN node, NEW nd, NEW node2, node2 = [node EXCEPT ![n] = nd], NEW e,
           node[n].isLeaf, nd.isLeaf, NodeEntries(nd) = WithEntry(NodeEntries(node[n]), e),
           \A m \in DOMAIN node : m # n /\ node[m].isLeaf => e.key \notin NodeKeys(node[m])
    PROVE  LeafEntries(node2) = WithEntry(LeafEntries(node), e)
<1>1. DOMAIN node2 = DOMAIN node /\ node2[n] = nd /\ \A m \in DOMAIN node : m # n => node2[m] = node[m]
  OBVIOUS
<1>2. \A x : x \in NodeEntries(nd) <=> x = e \/ (x \in NodeEntries(node[n]) /\ x.key # e.key)
  BY DEF WithEntry
<1>3. \A x : x \in WithEntry(LeafEntries(node), e) <=> x = e \/ (x \in LeafEntries(node) /\ x.key # e.key)
  BY DEF WithEntry
<1>4. ASSUME NEW x \in LeafEntries(node2) PROVE x \in WithEntry(LeafEntries(node), e)
  <2>1. PICK m \in DOMAIN node2 : node2[m].isLeaf /\ x \in NodeEntries(node2[m])
    BY <1>4, InLeaves
  <2>2. CASE m = n
    BY <1>1, <1>2, <1>3, <2>1, <2>2, InLeaves
  <2>3. CASE m # n
    <3>1. x \in NodeEntries(node[m]) /\ node[m].isLeaf /\ m \in DOMAIN node
      BY <1>1, <2>1, <2>3
    <3>2. x.key \in NodeKeys(node[m])
      BY <3>1, EntryKeys
    <3> QED
      BY <1>3, <2>3, <3>1, <3>2, InLeaves
  <2> QED
    BY <2>2, <2>3
<1>5. ASSUME NEW x \in WithEntry(LeafEntries(node), e) PROVE x \in LeafEntries(node2)
  <2>1. CASE x = e
    BY <1>1, <1>2, <2>1, InLeaves
  <2>2. CASE x \in LeafEntries(node) /\ x.key # e.key
    <3>1. PICK m \in DOMAIN node : node[m].isLeaf /\ x \in NodeEntries(node[m])
      BY <2>2, InLeaves
    <3> QED
      BY <1>1, <1>2, <2>2, <3>1, InLeaves
  <2> QED
    BY <1>3, <1>5, <2>1, <2>2
<1> QED
  BY <1>4, <1>5

LEMMA InternSetEntries ==
    ASSUME NEW node, NEW n \in DOMAIN node, NEW node2, SameBut(node, node2, n), ~node[n].isLeaf, ~node2[n].isLeaf
    PROVE  LeafEntries(node2) = LeafEntries(node)
<1>1. DOMAIN node2 = DOMAIN node /\ \A m \in DOMAIN node : m # n => node2[m] = node[m]
  BY DEF SameBut
<1>2. ASSUME NEW k \in LeafEntries(node2) PROVE k \in LeafEntries(node)
  <2>1. PICK m \in DOMAIN node2 : node2[m].isLeaf /\ k \in NodeEntries(node2[m])
    BY <1>2, InLeaves
  <2> QED
    BY <1>1, <2>1, InLeaves
<1>3. ASSUME NEW k \in LeafEntries(node) PROVE k \in LeafEntries(node2)
  <2>1. PICK m \in DOMAIN node : node[m].isLeaf /\ k \in NodeEntries(node[m])
    BY <1>3, InLeaves
  <2> QED
    BY <1>1, <2>1, InLeaves
<1> QED
  BY <1>2, <1>3

LEMMA Counted ==
    ASSUME NEW S, IsFiniteSet(S), NEW key, key \notin S
    PROVE  IsFiniteSet(S \cup {key}) /\ Cardinality(S \cup {key}) = Cardinality(S) + 1
BY FS_AddElement

\* The entry of a key that is there gets the new record.
WithPtr(nd, i, p) == [nd EXCEPT !.entries[i].ptr = p]

Rewritten(nd, P, nd2, i, p) ==
    /\ Typed(nd2, P) /\ nd2.numKeys = nd.numKeys /\ nd2.isLeaf = nd.isLeaf
    /\ nd2.FirstLeaf = nd.FirstLeaf /\ nd2.LastLeaf = nd.LastLeaf
    /\ \A j \in 0 .. nd.numKeys - 1 : /\ nd2.entries[j].key = nd.entries[j].key
                                      /\ j # i => nd2.entries[j] = nd.entries[j]
    /\ nd2.entries[i] = [key |-> nd.entries[i].key, ptr |-> p]

LEMMA Overwritten ==
    ASSUME NEW P, NEW nd, Typed(nd, P), NEW i \in 0 .. nd.numKeys - 1, NEW p \in P,
           NEW nd2, nd2 = WithPtr(nd, i, p)
    PROVE  Rewritten(nd, P, nd2, i, p)
<1>1. /\ nd.numKeys \in 0 .. FANOUT /\ nd.entries \in [Slots -> Entry(Keys, P) \cup {Unset}]
      /\ nd.isLeaf \in BOOLEAN /\ nd.FirstLeaf \in BOOLEAN /\ nd.LastLeaf \in BOOLEAN
      /\ nd.ptr0 \in P \cup {NULL}
      /\ nd = [isLeaf |-> nd.isLeaf, FirstLeaf |-> nd.FirstLeaf, LastLeaf |-> nd.LastLeaf,
               numKeys |-> nd.numKeys, ptr0 |-> nd.ptr0, entries |-> nd.entries]
  BY DEF Typed, BtNodes
<1>2. i \in Slots /\ \A j \in 0 .. nd.numKeys - 1 : j \in Slots
  BY <1>1, FanoutIs DEF Slots
<1>3. nd.entries[i] \in Entry(Keys, P)
  BY DEF Typed
<1>4. PICK x, a : x = [nd.entries[i] EXCEPT !.ptr = p] /\ a = [nd.entries EXCEPT ![i] = x]
  OBVIOUS
<1>5. x \in Entry(Keys, P) /\ x.key = nd.entries[i].key /\ x = [key |-> nd.entries[i].key, ptr |-> p]
  <2>1. x = [key |-> nd.entries[i].key, ptr |-> p]
    BY <1>3, <1>4 DEF Entry
  <2> QED
    BY <1>3, <2>1 DEF Entry
<1>6. /\ a \in [Slots -> Entry(Keys, P) \cup {Unset}] /\ a[i] = x
      /\ \A j \in Slots : j # i => a[j] = nd.entries[j]
  BY <1>1, <1>2, <1>4, <1>5
<1>7. nd2 = [nd EXCEPT !.entries = a]
  BY <1>4 DEF WithPtr
<1>8. nd2 = [isLeaf |-> nd.isLeaf, FirstLeaf |-> nd.FirstLeaf, LastLeaf |-> nd.LastLeaf,
             numKeys |-> nd.numKeys, ptr0 |-> nd.ptr0, entries |-> a]
  BY <1>1, <1>7
<1>9. nd2 \in BtNodes(Keys, P)
  BY <1>1, <1>6, <1>8 DEF BtNodes
<1>10. /\ nd2.numKeys = nd.numKeys /\ nd2.isLeaf = nd.isLeaf /\ nd2.entries = a
       /\ nd2.FirstLeaf = nd.FirstLeaf /\ nd2.LastLeaf = nd.LastLeaf
  BY <1>8
<1>11. \A j \in 0 .. nd.numKeys - 1 : /\ a[j] \in Entry(Keys, P) /\ a[j].key = nd.entries[j].key
                                      /\ j # i => a[j] = nd.entries[j]
  BY <1>2, <1>5, <1>6 DEF Typed
<1>12. Typed(nd2, P)
  BY <1>9, <1>10, <1>11 DEF Typed
<1>13. nd2.entries[i] = [key |-> nd.entries[i].key, ptr |-> p]
  BY <1>5, <1>6, <1>10
<1> QED
  BY <1>10, <1>11, <1>12, <1>13 DEF Rewritten

Rel(root, num, depth, node) == [root |-> root, numRecords |-> num, depth |-> depth, node |-> node]

LEMMA RelIs ==
    ASSUME NEW root, NEW num, NEW depth, NEW node, NEW r, r = Rel(root, num, depth, node)
    PROVE  /\ r.root = root /\ r.numRecords = num /\ r.depth = depth /\ r.node = node
           /\ r = WithNode(r, r.node)
BY DEF Rel, WithNode

\* Where the key belongs.
AtLeaf(r, reg, lev, c, key, n, i) ==
    /\ Sound(r, reg, lev) /\ r.depth \in Nat /\ key \in Nat
    /\ Along(r, reg, lev, c.ancestors, c.ancestorsIdx, r.depth)
    /\ n \in DOMAIN r.node /\ r.node[n].isLeaf /\ key \in reg[n]
    /\ Typed(r.node[n], PtrsOf(r.node)) /\ HasKeys(r.node[n]) /\ r.node[n].numKeys \in 0 .. FANOUT
    /\ NodeRight(r.node[n]) /\ i \in 0 .. r.node[n].numKeys /\ i = findRecordIndex(r.node[n], key)

LEMMA ReadyIs ==
    ASSUME NEW r, NEW reg, NEW lev, NEW c, NEW key, Ready(r, reg, lev, c, key),
           NEW n, n = c.ancestors[r.depth], NEW i, i = c.ancestorsIdx[r.depth]
    PROVE  AtLeaf(r, reg, lev, c, key, n, i)
<1>1. Sound(r, reg, lev)
  BY RelSound DEF Ready
<1>2. r.depth \in Nat /\ r.depth \in 0 .. r.depth /\ Whole(r.node, r.root, r.depth, reg, lev)
  BY <1>1, SoundIs
<1>3. Along(r, reg, lev, c.ancestors, c.ancestorsIdx, r.depth)
  BY <1>2, Followed DEF Ready, IsPath
<1>4. n \in DOMAIN r.node /\ r.node[n].isLeaf
  BY <1>2, <1>3 DEF Along
<1>5. key \in reg[n]
  BY <1>2 DEF Ready, Comes
<1>6. Typed(r.node[n], PtrsOf(r.node))
  BY <1>4 DEF Ready, RelInv, NodesTyped
<1>7. HasKeys(r.node[n]) /\ r.node[n].numKeys \in 0 .. FANOUT
  BY <1>6, TypedKeys
<1>8. NodeRight(r.node[n])
  BY <1>2, <1>4 DEF Whole, Tree
<1>9. i \in 0 .. r.node[n].numKeys /\ i = findRecordIndex(r.node[n], key)
  BY DEF Ready, IsPath
<1>10. key \in Nat
  BY RelationAssumption DEF Ready
<1> QED
  BY <1>1, <1>2, <1>3, <1>4, <1>5, <1>6, <1>7, <1>8, <1>9, <1>10 DEF AtLeaf

\* What may be put in the place of a leaf.
Fits(nd, old, P, i, e) ==
    /\ Typed(nd, P) /\ NodeRight(nd) /\ nd.isLeaf
    /\ nd.FirstLeaf = old.FirstLeaf /\ nd.LastLeaf = old.LastLeaf
    /\ i < nd.numKeys /\ nd.entries[i].key = e.key /\ nd.numKeys >= old.numKeys
    /\ NodeEntries(nd) = WithEntry(NodeEntries(old), e)

\* What setting a leaf needs of the counter and of the nodes: num is the number of
\* records once key is there, and node2 differs from node at n alone.
CountsTo(node, key, num) ==
    num = Cardinality(LeafKeys(node) \cup {key}) /\ IsFiniteSet(LeafKeys(node) \cup {key})
SetTo(node, n, nd, node2) == node2 = [node EXCEPT ![n] = nd]

\* A leaf is set: the relation is whole, and the cursor's path the same.
LEMMA PutAtLeaf ==
    ASSUME NEW r, NEW reg, NEW lev, NEW c, NEW key, Ready(r, reg, lev, c, key),
           NEW n, n = c.ancestors[r.depth], NEW i, i = c.ancestorsIdx[r.depth],
           NEW e, e.key = key, NEW nd, Fits(nd, r.node[n], PtrsOf(r.node), i, e),
           NEW num, CountsTo(r.node, key, num), NEW node2, SetTo(r.node, n, nd, node2),
           NEW r2, r2 = Rel(r.root, num, r.depth, node2)
    PROVE  PutDone(r, r2, c, e)
<1> USE DEF CountsTo, SetTo
<1>0. /\ Typed(nd, PtrsOf(r.node)) /\ NodeRight(nd) /\ nd.isLeaf
      /\ nd.FirstLeaf = r.node[n].FirstLeaf /\ nd.LastLeaf = r.node[n].LastLeaf
      /\ i < nd.numKeys /\ nd.entries[i].key = key /\ nd.numKeys >= r.node[n].numKeys
      /\ NodeEntries(nd) = WithEntry(NodeEntries(r.node[n]), e)
      /\ NodeKeys(nd) = NodeKeys(r.node[n]) \cup {key}
  <2>1. NodeKeys(nd) = NodeKeys(r.node[n]) \cup {key}
    <3>1. PICK S, T : S = NodeEntries(r.node[n]) /\ T = NodeEntries(nd)
      OBVIOUS
    <3>2. T = WithEntry(S, e)
      BY <3>1 DEF Fits
    <3>3. {x.key : x \in T} = {x.key : x \in S} \cup {e.key}
      BY <3>2, KeysWith
    <3> QED
      BY <3>1, <3>3, EntryKeys
  <2> QED
    BY <2>1 DEF Fits
<1>1. AtLeaf(r, reg, lev, c, key, n, i)
  BY ReadyIs
<1>2. n \in DOMAIN r.node /\ r.node[n].isLeaf /\ key \in reg[n] /\ NodesTyped(r.node)
      /\ Whole(r.node, r.root, r.depth, reg, lev)
  BY <1>1 DEF AtLeaf, Ready, RelInv
<1>3. NodesTyped(node2) /\ DOMAIN node2 = DOMAIN r.node
  BY <1>0, <1>2, NodeSet
<1>4. node2[n] = nd /\ \A m \in DOMAIN r.node : m # n => node2[m] = r.node[m]
  BY <1>2
<1>5. /\ r2.root = r.root /\ r2.numRecords = num /\ r2.depth = r.depth /\ r2.node = node2
      /\ r2 = WithNode(r2, r2.node)
  BY RelIs
<1>6. NodeKeys(nd) \subseteq reg[n]
  <2>1. NodeKeys(r.node[n]) \subseteq reg[n]
    BY <1>2 DEF Whole, Tree, Placed
  <2> QED
    BY <1>0, <1>2, <2>1
<1>7. Whole(node2, r.root, r.depth, reg, lev)
  <2>1. PICK node : node = r.node
    OBVIOUS
  <2> QED
    BY <1>0, <1>2, <1>6, <2>1, LeafChange
<1>12. LeafEntries(node2) = WithEntry(LeafEntries(r.node), e)
  <2>1. PICK node : node = r.node
    OBVIOUS
  <2>2. n \in DOMAIN node /\ node2 = [node EXCEPT ![n] = nd] /\ node[n].isLeaf
        /\ NodeEntries(nd) = WithEntry(NodeEntries(node[n]), e)
    BY <1>0, <1>2, <2>1
  <2>3. ASSUME NEW m \in DOMAIN node, m # n, node[m].isLeaf PROVE e.key \notin NodeKeys(node[m])
    <3>1. /\ Placed(node, r.depth, reg, lev, m) /\ Placed(node, r.depth, reg, lev, n)
          /\ RegionsApart(DOMAIN node, reg, lev)
      BY <1>2, <2>1, <2>3 DEF Whole, Tree
    <3>2. lev[m] = lev[n] /\ NodeKeys(node[m]) \subseteq reg[m]
      BY <2>2, <2>3, <3>1 DEF Placed
    <3>3. reg[m] \cap reg[n] = {}
      BY <2>2, <2>3, <3>1, <3>2 DEF RegionsApart
    <3> QED
      BY <1>2, <3>2, <3>3
  <2>4. LeafEntries(node2) = WithEntry(LeafEntries(node), e)
    BY <1>0, <2>2, <2>3, LeafSetEntries
  <2> QED
    BY <2>1, <2>4
<1>8. LeafKeys(node2) = LeafKeys(r.node) \cup {key}
  BY <1>12, KeysWith DEF LeafKeys
<1>9. HalfFull(node2, r.root)
  <2>1. nd.numKeys \in Int /\ r.node[n].numKeys \in Int /\ FANOUT \div 2 \in Int
    <3>1. nd.numKeys \in 0 .. FANOUT
      BY <1>0, TypedKeys
    <3>2. r.node[n].numKeys \in 0 .. FANOUT
      BY <1>1 DEF AtLeaf
    <3> QED
      BY <3>1, <3>2, MiddleIs
  <2>2. \A m \in DOMAIN r.node \ {r.root} : r.node[m].numKeys >= FANOUT \div 2
    BY DEF Ready, RelInv, HalfFull
  <2>3. n # r.root => nd.numKeys >= FANOUT \div 2
    BY <1>0, <1>2, <2>1, <2>2
  <2> QED
    BY <1>3, <1>4, <2>2, <2>3 DEF HalfFull
<1>10. RelInv(r2)
  <2>1. /\ NodesTyped(r2.node) /\ HalfFull(r2.node, r2.root) /\ Whole(r2.node, r2.root, r2.depth, reg, lev)
    BY <1>3, <1>5, <1>7, <1>9
  <2>2. IsFiniteSet(LeafKeys(r2.node)) /\ r2.numRecords = Cardinality(LeafKeys(r2.node))
    BY <1>5, <1>8
  <2> QED
    BY <1>5, <2>1, <2>2 DEF RelInv
<1>11. IsPath(r2, c)
  <2>1. Sound(r, reg, lev) /\ IsPath(r, c)
    BY <1>1 DEF AtLeaf, Ready
  <2>2. i \in 0 .. r2.node[n].numKeys
    <3>1. nd.numKeys \in 0 .. FANOUT
      BY <1>0, TypedKeys
    <3>2. i \in 0 .. r.node[n].numKeys /\ r.node[n].numKeys \in 0 .. FANOUT
      BY <1>1 DEF AtLeaf
    <3>3. i \in 0 .. nd.numKeys
      <4>1. PICK a \in Int, b \in Int : a = nd.numKeys /\ b = r.node[n].numKeys
        BY <3>1, <3>2
      <4> QED
        BY <1>0, <3>2, <4>1
    <3> QED
      BY <1>4, <1>5, <3>3
  <2>3. r2.root = r.root /\ r2.depth = r.depth /\ SameBut(r.node, r2.node, n)
    BY <1>3, <1>4, <1>5 DEF SameBut
  <2> QED
    BY <2>1, <2>2, <2>3, PathStays
<1>13. Sought(r2, c, e.key)
  <2>1. c.ancestors[r2.depth] = n /\ c.ancestorsIdx[r2.depth] = i /\ r2.node[n] = nd
    BY <1>4, <1>5
  <2>2. i < nd.numKeys /\ nd.entries[i].key = e.key
    BY <1>0
  <2> QED
    BY ONLY <2>1, <2>2 DEF Sought
<1> QED
  BY <1>3, <1>5, <1>10, <1>11, <1>12, <1>13 DEF PutDone

LEMMA SetNodeIs ==
    ASSUME NEW q, NEW n, NEW v, q = WithNode(q, q.node)
    PROVE  setNode(q, n, v) = Rel(q.root, q.numRecords, q.depth, [q.node EXCEPT ![n] = v])
<1>1. PICK a, b, d, node, w : /\ a = q.root /\ b = q.numRecords /\ d = q.depth /\ node = q.node
                              /\ w = [node EXCEPT ![n] = v]
  OBVIOUS
<1>2. q = [root |-> a, numRecords |-> b, depth |-> d, node |-> node]
  BY <1>1 DEF WithNode
<1>3. setNode(q, n, v) = [q EXCEPT !.node = w]
  BY <1>1 DEF setNode
<1>4. [q EXCEPT !.node = w] = Rel(a, b, d, w)
  BY <1>2 DEF Rel
<1> QED
  BY <1>1, <1>3, <1>4

LEMMA AtMost ==
    ASSUME NEW k \in Nat, NEW i \in 0 .. k
    PROVE  i <= k /\ i < k + 1 /\ k >= k /\ k + 1 >= k
OBVIOUS

LEMMA PutFound ==
    ASSUME NEW r, NEW reg, NEW lev, NEW c, NEW key, Ready(r, reg, lev, c, key),
           NEW n, n = c.ancestors[r.depth], NEW i, i = c.ancestorsIdx[r.depth],
           i < r.node[n].numKeys, r.node[n].entries[i].key = key, NEW p \in Records,
           NEW e, e = [key |-> key, ptr |-> p], NEW r2, r2 = setNode(r, n, WithPtr(r.node[n], i, p))
    PROVE  PutDone(r, r2, c, e)
<1>1. AtLeaf(r, reg, lev, c, key, n, i)
  BY ReadyIs
<1>2. PICK P, nd, nd2, num, node2 :
         /\ P = PtrsOf(r.node) /\ nd = r.node[n] /\ nd2 = WithPtr(nd, i, p)
         /\ num = r.numRecords /\ node2 = [r.node EXCEPT ![n] = nd2]
  OBVIOUS
<1>3. p \in P /\ Typed(nd, P) /\ nd.isLeaf /\ NodeRight(nd) /\ n \in DOMAIN r.node /\ nd.numKeys \in 0 .. FANOUT
  BY <1>1, <1>2 DEF AtLeaf, PtrsOf
<1>4. i \in 0 .. nd.numKeys - 1 /\ nd.entries[i].key = key
  <2>1. i \in 0 .. nd.numKeys /\ i < nd.numKeys /\ nd.entries[i].key = key
    BY <1>1, <1>2 DEF AtLeaf
  <2>2. PICK k \in Nat : k = nd.numKeys
    BY <1>3, FanoutIs
  <2>3. i \in 0 .. k /\ i < k
    BY <2>1, <2>2
  <2>4. i \in 0 .. k - 1
    BY <2>3
  <2>5. i \in 0 .. nd.numKeys - 1
    BY <2>2, <2>4
  <2> QED
    BY <2>1, <2>5
<1>5. /\ Typed(nd2, P) /\ nd2.numKeys = nd.numKeys /\ nd2.isLeaf = nd.isLeaf
      /\ nd2.FirstLeaf = nd.FirstLeaf /\ nd2.LastLeaf = nd.LastLeaf
      /\ \A j \in 0 .. nd.numKeys - 1 : /\ nd2.entries[j].key = nd.entries[j].key
                                        /\ j # i => nd2.entries[j] = nd.entries[j]
      /\ nd2.entries[i] = [key |-> nd.entries[i].key, ptr |-> p]
  <2>1. Rewritten(nd, P, nd2, i, p)
    BY <1>2, <1>3, <1>4, Overwritten
  <2> QED
    BY <2>1 DEF Rewritten
<1>6. NodeRight(nd2)
  <2>1. HasKeys(nd2) /\ Sorted(nd2)
    BY <1>3, <1>5 DEF NodeRight, HasKeys, Sorted
  <2> QED
    BY <1>3, <1>5, <2>1 DEF NodeRight
<1>7. NodeKeys(nd2) = NodeKeys(nd) /\ key \in NodeKeys(nd)
  BY <1>4, <1>5 DEF NodeKeys
<1>8. LeafKeys(r.node) \cup {key} = LeafKeys(r.node)
  <2>1. key \in LeafKeys(r.node)
    BY <1>2, <1>3, <1>7, InLeaf
  <2> QED
    BY <2>1
<1>9. num = Cardinality(LeafKeys(r.node) \cup {key}) /\ IsFiniteSet(LeafKeys(r.node) \cup {key})
  BY <1>2, <1>8 DEF Ready, RelInv
<1>10. r2 = Rel(r.root, num, r.depth, node2)
  <2>1. r = WithNode(r, r.node)
    BY DEF Ready, RelInv
  <2>2. setNode(r, n, nd2) = Rel(r.root, r.numRecords, r.depth, [r.node EXCEPT ![n] = nd2])
    BY <2>1, SetNodeIs
  <2> QED
    BY <1>2, <2>2
<1>11. nd2.isLeaf
  BY <1>3, <1>5
<1>12. nd2.numKeys >= nd.numKeys
  <2>1. PICK k \in Nat : k = nd.numKeys
    BY <1>3, FanoutIs
  <2> QED
    BY <1>5, <2>1
<1>15. NodeEntries(nd2) = WithEntry(NodeEntries(nd), e)
  <2>1. e.key = key /\ nd2.entries[i] = e
    BY <1>4, <1>5
  <2>2. PICK k \in Nat : k = nd.numKeys
    BY <1>3, FanoutIs
  <2>3. \A j \in 0 .. k - 1 : j # i => nd.entries[j].key # key
    <3>1. /\ \A j \in 0 .. k - 1 : nd.entries[j].key \in Nat
          /\ \A j, l \in 0 .. k - 1 : j < l => nd.entries[j].key < nd.entries[l].key
      BY <1>3, <2>2 DEF NodeRight, HasKeys, Sorted
    <3>2. i \in 0 .. k - 1 /\ nd.entries[i].key = key
      BY <1>4, <2>2
    <3>3. ASSUME NEW j \in 0 .. k - 1, j # i PROVE nd.entries[j].key # key
      <4>1. j < i \/ i < j
        BY <3>2, <3>3
      <4>2. nd.entries[j].key < nd.entries[i].key \/ nd.entries[i].key < nd.entries[j].key
        BY <3>1, <3>2, <4>1
      <4> QED
        BY <3>1, <3>2, <4>2
    <3> QED
      BY <3>3
  <2>4. \A x : x \in NodeEntries(nd2) <=> x = e \/ \E j \in 0 .. k - 1 : j # i /\ x = nd.entries[j]
    <3>1. NodeEntries(nd2) = {nd2.entries[j] : j \in 0 .. k - 1}
      BY <1>5, <2>2 DEF NodeEntries
    <3>2. i \in 0 .. k - 1 /\ \A j \in 0 .. k - 1 : j # i => nd2.entries[j] = nd.entries[j]
      BY <1>4, <1>5, <2>2
    <3> QED
      BY <2>1, <3>1, <3>2
  <2>5. \A x : x \in WithEntry(NodeEntries(nd), e) <=>
                  x = e \/ \E j \in 0 .. k - 1 : x.key # key /\ x = nd.entries[j]
    <3>1. NodeEntries(nd) = {nd.entries[j] : j \in 0 .. k - 1}
      BY <2>2 DEF NodeEntries
    <3> QED
      BY <2>1, <3>1 DEF WithEntry
  <2>6. ASSUME NEW x PROVE x \in NodeEntries(nd2) <=> x \in WithEntry(NodeEntries(nd), e)
    <3>1. \A j \in 0 .. k - 1 : j # i <=> nd.entries[j].key # key
      BY <1>4, <2>3
    <3> QED
      BY <2>4, <2>5, <3>1
  <2> QED
    BY <2>6
<1>16. i < nd2.numKeys /\ nd2.entries[i].key = e.key
  BY <1>2, <1>4, <1>5
<1>13. Fits(nd2, r.node[n], PtrsOf(r.node), i, e)
  BY <1>2, <1>5, <1>6, <1>11, <1>12, <1>15, <1>16 DEF Fits
<1>14. node2 = [r.node EXCEPT ![n] = nd2]
  BY <1>2
<1> QED
  <2>3. e.key = key
    OBVIOUS
  <2>1. CountsTo(r.node, key, num)
    BY <1>9 DEF CountsTo
  <2>2. SetTo(r.node, n, nd2, node2)
    BY <1>14 DEF SetTo
  <2> QED
    BY <1>10, <1>13, <2>1, <2>2, <2>3, PutAtLeaf

\* Putting in a node that has room.
Inserted(nd, t, e, P, nd2) ==
    /\ Typed(nd2, P) /\ nd2.numKeys = nd.numKeys + 1
    /\ Holds(nd2, Wide(nd, t, e), 0, nd.numKeys + 1)
    /\ nd2.isLeaf = nd.isLeaf /\ nd2.FirstLeaf = nd.FirstLeaf /\ nd2.LastLeaf = nd.LastLeaf
    /\ nd2.ptr0 = nd.ptr0

LEMMA InsertTyped ==
    ASSUME NEW P, NEW nd, Typed(nd, P), nd.numKeys < FANOUT, NEW t \in 0 .. nd.numKeys, NEW e \in Entry(Keys, P),
           NEW nd2, nd2 = insertAt(nd, t, e)
    PROVE  Inserted(nd, t, e, P, nd2)
<1>1. /\ nd2 \in BtNodes(Keys, P)
      /\ Holds(nd2, Wide(nd, t, e), 0, nd.numKeys + 1)
      /\ nd2.isLeaf = nd.isLeaf /\ nd2.FirstLeaf = nd.FirstLeaf /\ nd2.LastLeaf = nd.LastLeaf
      /\ nd2.ptr0 = nd.ptr0
  BY InsertIs DEF Typed
<1>2. PICK k \in Nat, w \in {Wide(nd, t, e)} : k = nd.numKeys /\ w = Wide(nd, t, e)
  BY TypedKeys, FanoutIs
<1>3. \A i \in 0 .. nd.numKeys : Wide(nd, t, e)[i] \in Entry(Keys, P)
  BY WideTyped
<1>4. nd2.numKeys = k + 1 /\ \A i \in 0 .. (k + 1) - 1 : nd2.entries[i] = w[0 + i]
  BY <1>1, <1>2 DEF Holds
<1>5. \A i \in 0 .. (k + 1) - 1 : w[0 + i] \in Entry(Keys, P)
  BY <1>2, <1>3
<1>6. Typed(nd2, P)
  BY <1>1, <1>4, <1>5 DEF Typed
<1> QED
  BY <1>1, <1>2, <1>4, <1>6 DEF Inserted

\* A leaf that has room takes the entry, and the relation has one record more.
LEMMA PutLeaf ==
    ASSUME NEW r, NEW reg, NEW lev, NEW c, NEW key, Ready(r, reg, lev, c, key),
           NEW n, n = c.ancestors[r.depth], NEW i, i = c.ancestorsIdx[r.depth],
           IsPlace(r.node[n], i, key), r.node[n].numKeys < FANOUT,
           NEW e \in Entry(Keys, PtrsOf(r.node)), e.key = key,
           NEW r2, r2 = Rel(r.root, r.numRecords + 1, r.depth, [r.node EXCEPT ![n] = insertAt(r.node[n], i, e)])
    PROVE  PutDone(r, r2, c, e)
<1>1. AtLeaf(r, reg, lev, c, key, n, i)
  BY ReadyIs
<1>2. PICK P, nd, nd2, num, node2 :
         /\ P = PtrsOf(r.node) /\ nd = r.node[n] /\ nd2 = insertAt(nd, i, e)
         /\ num = r.numRecords + 1 /\ node2 = [r.node EXCEPT ![n] = nd2]
  OBVIOUS
<1>3. /\ Typed(nd, P) /\ nd.isLeaf /\ NodeRight(nd) /\ n \in DOMAIN r.node /\ nd.numKeys \in 0 .. FANOUT
      /\ i \in 0 .. nd.numKeys /\ key \in Nat
  BY <1>1, <1>2 DEF AtLeaf
<1>4. /\ Typed(nd2, P) /\ nd2.numKeys = nd.numKeys + 1
      /\ Holds(nd2, Wide(nd, i, e), 0, nd.numKeys + 1)
      /\ nd2.isLeaf = nd.isLeaf /\ nd2.FirstLeaf = nd.FirstLeaf /\ nd2.LastLeaf = nd.LastLeaf
  <2>1. nd.numKeys < FANOUT
    BY <1>2
  <2>2. PICK t : t = i
    OBVIOUS
  <2>3. e \in Entry(Keys, P) /\ t \in 0 .. nd.numKeys /\ nd2 = insertAt(nd, t, e)
    BY <1>2, <1>3, <2>2
  <2>4. Inserted(nd, t, e, P, nd2)
    BY <1>3, <2>1, <2>3, InsertTyped
  <2> QED
    BY <2>2, <2>4 DEF Inserted
<1>5. nd.numKeys <= FANOUT
  BY <1>3, FanoutIs
<1>6. NodeRight(nd2) /\ NodeEntries(nd2) = NodeEntries(nd) \cup {e}
  <2>1. IsPlace(nd, i, e.key) /\ e.key \in Nat
    BY <1>2, <1>3
  <2>3. PICK t : t = i
    OBVIOUS
  <2>4. NodeRight(nd) /\ IsPlace(nd, t, e.key) /\ Holds(nd2, Wide(nd, t, e), 0, nd.numKeys + 1)
    BY <1>3, <1>4, <2>1, <2>3
  <2>2. /\ NodeRight(nd2) /\ NodeEntries(nd2) = NodeEntries(nd) \cup {e}
        /\ NodeKeys(nd2) = NodeKeys(nd) \cup {e.key}
    BY ONLY <1>4, <1>5, <2>1, <2>4, WideNode
  <2> QED
    BY <2>2
<1>7. key \notin LeafKeys(r.node)
  <2>1. PICK node, root, depth : node = r.node /\ root = r.root /\ depth = r.depth
    OBVIOUS
  <2>2. Whole(node, root, depth, reg, lev) /\ key \in reg[n] /\ node[n].isLeaf /\ IsPlace(node[n], i, key)
    BY <1>1, <2>1 DEF AtLeaf, Ready
  <2> QED
    BY <1>3, <2>1, <2>2, NotThere
<1>8. IsFiniteSet(LeafKeys(r.node)) /\ r.numRecords = Cardinality(LeafKeys(r.node))
  BY DEF Ready, RelInv
<1>9. num = Cardinality(LeafKeys(r.node) \cup {key}) /\ IsFiniteSet(LeafKeys(r.node) \cup {key})
  BY <1>2, <1>7, <1>8, Counted
<1>10. r2 = Rel(r.root, num, r.depth, node2)
  BY <1>2
<1>11. nd2.isLeaf
  BY <1>3, <1>4
<1>12. i < nd2.numKeys /\ nd2.numKeys >= nd.numKeys
  <2>1. PICK k \in 0 .. FANOUT : k = nd.numKeys /\ k + 1 = nd2.numKeys /\ i \in 0 .. k
    BY <1>3, <1>4
  <2>2. k \in Nat
    BY FanoutIs
  <2>3. i < k + 1 /\ k + 1 >= k
    BY <2>1, <2>2, AtMost
  <2> QED
    BY <2>1, <2>3
<1>14. NodeEntries(nd2) = WithEntry(NodeEntries(nd), e)
  <2>1. e.key \notin NodeKeys(nd)
    BY <1>2, <1>3, <1>7, InLeaf
  <2>2. e.key \notin {x.key : x \in NodeEntries(nd)}
    BY <2>1, EntryKeys
  <2> QED
    BY <1>6, <2>2, WithNew
<1>15. nd2.entries[i] = e
  <2>1. Wide(nd, i, e)[i] = e
    BY <1>3, WideIs
  <2>2. PICK k \in Nat, w \in {Wide(nd, i, e)} : k = nd.numKeys /\ w = Wide(nd, i, e)
    BY <1>3, FanoutIs
  <2>3. \A j \in 0 .. (k + 1) - 1 : nd2.entries[j] = w[0 + j]
    BY <1>4, <2>2 DEF Holds
  <2>4. i \in 0 .. (k + 1) - 1 /\ 0 + i = i
    BY <1>3, <2>2
  <2> QED
    BY <2>1, <2>2, <2>3, <2>4
<1>13. Fits(nd2, r.node[n], PtrsOf(r.node), i, e)
  BY <1>2, <1>4, <1>6, <1>11, <1>12, <1>14, <1>15 DEF Fits
<1> QED
  <2>1. CountsTo(r.node, key, num)
    BY <1>9 DEF CountsTo
  <2>2. SetTo(r.node, n, nd2, node2)
    BY <1>2 DEF SetTo
  <2> QED
    BY <1>10, <1>13, <2>1, <2>2, PutAtLeaf

\* The relation that the splits leave once the last entry has found room.
LEMMA Grew ==
    ASSUME NEW r, RelInv(r), NEW key, key \notin LeafKeys(r.node),
           NEW node, LeafKeys(node) = LeafKeys(r.node) \cup {key}, NodesTyped(node),
           NEW root, HalfFull(node, root), NEW depth, NEW reg, NEW lev, Whole(node, root, depth, reg, lev),
           NEW r2, r2 = Rel(root, r.numRecords + 1, depth, node)
    PROVE  RelInv(r2)
<1>1. /\ r2.root = root /\ r2.numRecords = r.numRecords + 1 /\ r2.depth = depth /\ r2.node = node
      /\ r2 = WithNode(r2, r2.node)
  <2>1. PICK num : num = r.numRecords + 1
    OBVIOUS
  <2>2. /\ r2.root = root /\ r2.numRecords = num /\ r2.depth = depth /\ r2.node = node
        /\ r2 = WithNode(r2, r2.node)
    BY <2>1, RelIs
  <2> QED
    BY <2>1, <2>2
<1>2. IsFiniteSet(LeafKeys(node)) /\ Cardinality(LeafKeys(node)) = r.numRecords + 1
  <2>1. IsFiniteSet(LeafKeys(r.node)) /\ Cardinality(LeafKeys(r.node)) = r.numRecords
    BY DEF RelInv
  <2> QED
    BY <2>1, Counted
<1>3. NodesTyped(r2.node) /\ HalfFull(r2.node, r2.root) /\ Whole(r2.node, r2.root, r2.depth, reg, lev)
  BY <1>1
<1>4. IsFiniteSet(LeafKeys(r2.node)) /\ r2.numRecords = Cardinality(LeafKeys(r2.node))
  BY <1>1, <1>2
<1> QED
  BY <1>1, <1>3, <1>4 DEF RelInv

\* An intern node has room: the cursor walks down from there again.
LEMMA PutIntern ==
    ASSUME NEW r, NEW reg0, NEW lev0, NEW c, NEW key, Ready(r, reg0, lev0, c, key), key \notin LeafKeys(r.node),
           NEW new, new.key = key,
           NEW top \in 0 .. r.depth - 1, NEW node, NEW e, Climbing(r, c.ancestors, top + 1, new, node, e),
           NEW n, n = c.ancestors[top], r.node[n].numKeys < FANOUT,
           NEW nd, nd = insertAt(node[n], c.ancestorsIdx[top] + 1, e), NEW node2, node2 = [node EXCEPT ![n] = nd],
           NEW r2, r2 = Rel(r.root, r.numRecords + 1, r.depth, node2),
           NEW cur, cur = moveToKey(r2, n, key, c, top)
    PROVE  PutDone(r, r2, cur, new)
<1>1. PICK d \in Nat, anc \in {c.ancestors}, ix \in {c.ancestorsIdx}, k \in Nat, i \in {c.ancestorsIdx[top]} :
         /\ d = r.depth /\ anc = c.ancestors /\ ix = c.ancestorsIdx /\ k = top + 1 /\ i = ix[top]
         /\ k \in 1 .. d /\ k - 1 = top /\ top \in 0 .. d - 1 /\ top \in 0 .. d /\ top # d
         /\ Along(r, reg0, lev0, anc, ix, d) /\ Sound(r, reg0, lev0) /\ key \in Nat
  <2>1. PICK m, j : m = c.ancestors[r.depth] /\ j = c.ancestorsIdx[r.depth]
    OBVIOUS
  <2>2. AtLeaf(r, reg0, lev0, c, key, m, j)
    BY <2>1, ReadyIs
  <2>3. r.depth \in Nat /\ Along(r, reg0, lev0, c.ancestors, c.ancestorsIdx, r.depth) /\ Sound(r, reg0, lev0)
        /\ key \in Nat
    BY <2>2 DEF AtLeaf
  <2> QED
    BY <2>3
<1>2. n = anc[top] /\ n \in DOMAIN r.node /\ ~r.node[n].isLeaf /\ top \in 0 .. k - 1
  BY <1>1 DEF Along
<1>3. Climbing(r, anc, k, new, node, e)
  BY <1>1
<1>4. node[n] = r.node[n] /\ n \in DOMAIN node /\ ~node[n].isLeaf
  BY <1>2, <1>3 DEF Climbing, Same
<1>5. Links(r, anc, ix, d)
  BY <1>1 DEF Ready, IsPath
<1>6. i \in Kids(node[n]) /\ Child(node[n], i) = anc[k]
  <2>1. top \in 0 .. d - 1 /\ top + 1 = k
    BY <1>1
  <2> QED
    BY <1>1, <1>2, <1>4, <1>5, <2>1 DEF Links
<1>7. PICK reg, lev, x : /\ x = anc[k] /\ Pending(node, r.root, r.depth, reg, lev, x, e.ptr, e.key)
                         /\ Comes(reg, anc, 0, k - 1, key)
  BY <1>3 DEF Climbing, Pends
<1>8. NodesTyped(node) /\ e \in Entry(Keys, PtrsOf(node)) /\ DOMAIN r.node \subseteq DOMAIN node
      /\ LeafEntries(node) = LeafEntries(r.node) \cup {new} /\ HalfFull(node, r.root)
  BY <1>3 DEF Climbing
<1>9. PICK P, od, t : P = PtrsOf(node) /\ od = node[n] /\ t = i + 1
  OBVIOUS
<1>10. Typed(od, P) /\ od.numKeys < FANOUT /\ od.numKeys \in 0 .. FANOUT
  <2>1. Typed(od, P)
    BY <1>4, <1>8, <1>9 DEF NodesTyped
  <2>2. od.numKeys \in 0 .. FANOUT
    BY <2>1, TypedKeys
  <2> QED
    BY <1>4, <1>9, <2>1, <2>2
<1>11. t \in 0 .. od.numKeys
  <2>1. i \in -1 .. od.numKeys - 1
    BY <1>6, <1>9 DEF Kids
  <2>2. PICK q \in Int : q = od.numKeys
    BY <1>10
  <2> QED
    BY <1>9, <2>1, <2>2
<1>12. Inserted(od, t, e, P, nd)
  <2>1. nd = insertAt(od, t, e) /\ e \in Entry(Keys, P)
    BY <1>1, <1>8, <1>9
  <2> QED
    BY <1>10, <1>11, <2>1, InsertTyped
<1>13. Whole(node2, r.root, r.depth, reg, lev)
  <2>1. /\ Holds(nd, Wide(node[n], i + 1, e), 0, node[n].numKeys + 1)
        /\ nd.isLeaf = node[n].isLeaf /\ nd.FirstLeaf = node[n].FirstLeaf /\ nd.LastLeaf = node[n].LastLeaf
        /\ nd.ptr0 = node[n].ptr0
    BY <1>9, <1>12 DEF Inserted
  <2>2. node[n].numKeys <= FANOUT
    BY <1>9, <1>10, FanoutIs
  <2>3. PICK root, depth, y : root = r.root /\ depth = r.depth /\ y = e.ptr
    OBVIOUS
  <2>4. Child(node[n], i) = x /\ Pending(node, root, depth, reg, lev, x, y, e.key)
    BY <1>6, <1>7, <2>3
  <2>5. Whole(node2, root, depth, reg, lev)
    BY <1>4, <1>6, <2>1, <2>2, <2>3, <2>4, InternChange
  <2> QED
    BY <2>3, <2>5
<1>14. NodesTyped(node2) /\ DOMAIN node2 = DOMAIN node
  <2>1. Typed(nd, PtrsOf(node))
    BY <1>9, <1>12 DEF Inserted
  <2> QED
    BY <1>4, <1>8, <2>1, NodeSet
<1>26. LeafEntries(node2) = LeafEntries(r.node) \cup {new}
  <2>1. ~nd.isLeaf
    BY <1>4, <1>9, <1>12 DEF Inserted
  <2>2. LeafEntries(node2) = LeafEntries(node)
    <3>1. n \in DOMAIN node /\ ~node[n].isLeaf /\ ~node2[n].isLeaf /\ SameBut(node, node2, n)
      BY <1>4, <2>1 DEF SameBut
    <3> QED
      BY <3>1, InternSetEntries
  <2> QED
    BY <1>8, <2>2
<1>15. LeafKeys(node2) = LeafKeys(r.node) \cup {key}
  BY <1>26, KeysWith DEF LeafKeys
<1>16. node2[n] = nd /\ \A m \in DOMAIN node : m # n => node2[m] = node[m]
  BY <1>4
<1>17. HalfFull(node2, r.root)
  <2>1. \A m \in DOMAIN node \ {r.root} : node[m].numKeys >= FANOUT \div 2
    BY <1>8 DEF HalfFull
  <2>2. n # r.root => nd.numKeys >= FANOUT \div 2
    <3>1. nd.numKeys = od.numKeys + 1 /\ FANOUT \div 2 \in Int
      BY <1>12, MiddleIs DEF Inserted
    <3>2. n # r.root => od.numKeys >= FANOUT \div 2
      BY <1>4, <1>9, <2>1
    <3>3. PICK a \in Int, b \in Int : a = od.numKeys /\ b = FANOUT \div 2
      BY <1>10, <3>1
    <3> QED
      BY <3>1, <3>2, <3>3
  <2> QED
    BY <1>14, <1>16, <2>1, <2>2 DEF HalfFull
<1>18. RelInv(r2)
  <2>1. RelInv(r)
    BY DEF Ready
  <2>2. PICK root, depth : root = r.root /\ depth = r.depth
    OBVIOUS
  <2> QED
    BY <1>13, <1>14, <1>15, <1>17, <2>1, <2>2, Grew
<1>19. r2.root = r.root /\ r2.depth = r.depth /\ r2.node = node2
  BY DEF Rel
<1>20. Sound(r2, reg, lev)
  <2>1. r2.depth \in Levels /\ Whole(r2.node, r2.root, r2.depth, reg, lev)
    BY <1>13, <1>19 DEF Ready
  <2> QED
    BY <1>18, <2>1, RelSound
<1>21. Links(r2, anc, ix, top)
  <2>1. \A j \in 0 .. top - 1 : j \in 0 .. k - 1 /\ j \in 0 .. d - 1
    BY <1>1
  <2>2. \A j \in 0 .. top - 1 : anc[j] # n
    <3>1. r.depth \in Nat /\ top \in 0 .. r.depth /\ Along(r, reg0, lev0, anc, ix, r.depth)
      BY <1>1
    <3>2. \A j \in 0 .. d : lev0[anc[j]] = j
      BY <1>1 DEF Along
    <3>3. \A j \in 0 .. top - 1 : j \in 0 .. d /\ j # top
      BY <1>1
    <3> QED
      BY <1>1, <1>2, <3>2, <3>3
  <2>3. ASSUME NEW j \in 0 .. top - 1 PROVE r2.node[anc[j]] = r.node[anc[j]]
    <3>1. \A l \in 0 .. k - 1 : anc[l] \in DOMAIN r.node /\ node[anc[l]] = r.node[anc[l]]
      BY <1>3 DEF Climbing, Same
    <3>2. PICK m : m = anc[j]
      OBVIOUS
    <3>3. m \in DOMAIN node /\ m # n /\ node[m] = r.node[m]
      BY <1>8, <2>1, <2>2, <3>1, <3>2
    <3>4. node2[m] = node[m]
      BY <1>16, <3>3
    <3> QED
      BY <1>19, <3>2, <3>3, <3>4
  <2>4. \A j \in 0 .. d - 1 : ix[j] \in Kids(r.node[anc[j]]) /\ anc[j + 1] = Child(r.node[anc[j]], ix[j])
    BY <1>5 DEF Links
  <2>5. ASSUME NEW j \in 0 .. top - 1
        PROVE  ix[j] \in Kids(r2.node[anc[j]]) /\ anc[j + 1] = Child(r2.node[anc[j]], ix[j])
    <3>1. j \in 0 .. d - 1
      BY <2>1
    <3>2. ix[j] \in Kids(r.node[anc[j]]) /\ anc[j + 1] = Child(r.node[anc[j]], ix[j])
      BY <2>4, <3>1
    <3> QED
      BY <2>3, <3>2
  <2>6. anc[0] = r2.root
    BY <1>5, <1>19 DEF Links
  <2> QED
    BY <2>5, <2>6 DEF Links
<1>22. Leads(r2, c, n, top)
  <2>1. SameAbove(c, c, top)
    BY DEF SameAbove
  <2>2. top \in Nat /\ top \in 0 .. top
    BY <1>1
  <2>3. Links(r2, c.ancestors, c.ancestorsIdx, top)
    BY <1>1, <1>21
  <2>4. PICK l : l = top
    OBVIOUS
  <2>5. Leads(r2, c, c.ancestors[l], l)
    BY <2>1, <2>2, <2>3, <2>4, LinksLead
  <2> QED
    BY <2>4, <2>5
<1>23. /\ c.ancestors \in [Levels -> DOMAIN r2.node \cup {NULL}]
       /\ c.ancestorsIdx \in [Levels -> -1 .. FANOUT]
  <2>1. c.ancestors \in [Levels -> DOMAIN r.node \cup {NULL}] /\ c.ancestorsIdx \in [Levels -> -1 .. FANOUT]
    BY DEF Ready, IsPath, CursorType
  <2>2. DOMAIN r.node \cup {NULL} \subseteq DOMAIN r2.node \cup {NULL}
    BY <1>8, <1>14, <1>19
  <2> QED
    BY <2>1, <2>2
<1>24. key \in reg[n] /\ key \in Int /\ top \in 0 .. r2.depth
  BY <1>1, <1>2, <1>7, <1>19 DEF Comes
<1>25. /\ IsPath(r2, cur) /\ Comes(reg, cur.ancestors, top, r2.depth, key)
       /\ cur.ancestorsIdx[r2.depth] = findRecordIndex(r2.node[cur.ancestors[r2.depth]], key)
  <2>1. PICK level : level = top /\ level \in 0 .. r2.depth /\ Leads(r2, c, n, level)
                     /\ cur = moveToKey(r2, n, key, c, level)
    BY <1>22, <1>24
  <2>2. /\ IsPath(r2, cur) /\ Comes(reg, cur.ancestors, level, r2.depth, key)
        /\ cur.ancestorsIdx[r2.depth] = findRecordIndex(r2.node[cur.ancestors[r2.depth]], key)
    BY ONLY <1>20, <1>23, <1>24, <2>1, ToKey
  <2> QED
    BY <2>1, <2>2
<1>27. Sought(r2, cur, key)
  <2>1. r2.depth \in top .. r2.depth
    BY <1>1, <1>19
  <2>2. key \in reg[cur.ancestors[r2.depth]] /\ key \in Nat /\ key \in LeafKeys(r2.node)
    BY <1>1, <1>15, <1>19, <1>25, <2>1 DEF Comes
  <2> QED
    BY <1>20, <1>25, <2>2, SoughtIs
<1>28. LeafEntries(r2.node) = WithEntry(LeafEntries(r.node), new)
  BY <1>19, <1>26, WithNew DEF LeafKeys
<1> QED
  BY <1>8, <1>14, <1>18, <1>19, <1>25, <1>27, <1>28 DEF PutDone

RootNode(p, e) == [createNewNode(FALSE, FALSE, FALSE) EXCEPT !.ptr0 = p, !.numKeys = 1, !.entries[0] = e]

IsRootNode(nd, p, e) ==
    /\ nd.isLeaf = FALSE /\ nd.FirstLeaf = FALSE /\ nd.LastLeaf = FALSE
    /\ nd.ptr0 = p /\ nd.numKeys = 1 /\ nd.entries[0] = e

LEMMA RootNodeIs ==
    ASSUME NEW P, NEW p \in P, NEW e \in Entry(Keys, P), NEW nd, nd = RootNode(p, e)
    PROVE  Typed(nd, P) /\ IsRootNode(nd, p, e)
<1>1. 0 \in Slots /\ 1 \in 0 .. FANOUT
  BY FanoutIs DEF Slots
<1>2. PICK a, b : a = [i \in Slots |-> Unset] /\ b = [a EXCEPT ![0] = e]
  OBVIOUS
<1>3. b \in [Slots -> Entry(Keys, P) \cup {Unset}] /\ b[0] = e
  BY <1>1, <1>2
<1>4. nd = [isLeaf |-> FALSE, FirstLeaf |-> FALSE, LastLeaf |-> FALSE, numKeys |-> 1, ptr0 |-> p, entries |-> b]
  BY <1>2 DEF RootNode, createNewNode
<1>5. nd \in BtNodes(Keys, P)
  <2>1. p \in P \cup {NULL} /\ FALSE \in BOOLEAN
    OBVIOUS
  <2> QED
    BY <1>1, <1>3, <1>4, <2>1 DEF BtNodes
<1>6. /\ nd.isLeaf = FALSE /\ nd.FirstLeaf = FALSE /\ nd.LastLeaf = FALSE
      /\ nd.ptr0 = p /\ nd.numKeys = 1 /\ nd.entries[0] = e
  BY <1>3, <1>4
<1>7. \A i \in 0 .. nd.numKeys - 1 : nd.entries[i] \in Entry(Keys, P)
  <2>1. \A i \in 0 .. nd.numKeys - 1 : i = 0
    BY <1>6
  <2> QED
    BY <1>6, <2>1
<1> QED
  BY <1>5, <1>6, <1>7 DEF Typed, IsRootNode

IsTree(node, root, depth) == \E reg, lev : Whole(node, root, depth, reg, lev)

LEMMA NewRootTree ==
    ASSUME NEW node, NEW root, NEW depth, NEW reg, NEW lev, NEW y, NEW e,
           Pending(node, root, depth, reg, lev, root, y, e.key), e.ptr = y,
           NEW new, new \notin DOMAIN node, NEW nd, IsRootNode(nd, root, e),
           NEW node2, node2 = Grown(node, new, nd)
    PROVE  IsTree(node2, new, depth + 1)
<1>1. /\ nd.isLeaf = FALSE /\ nd.FirstLeaf = FALSE /\ nd.LastLeaf = FALSE
      /\ nd.ptr0 = root /\ nd.numKeys = 1 /\ nd.entries[0] = e
  BY DEF IsRootNode
<1>2. \E reg2, lev2 : Whole(node2, new, depth + 1, reg2, lev2)
  BY <1>1, NewRoot
<1> QED
  BY <1>2 DEF IsTree

\* No node has room: the two halves of the root get a new root above them.
LEMMA PutRoot ==
    ASSUME NEW r, NEW reg0, NEW lev0, NEW c, NEW key, Ready(r, reg0, lev0, c, key), key \notin LeafKeys(r.node),
           NEW e0, e0.key = key,
           NEW node, NEW e, Climbing(r, c.ancestors, 0, e0, node, e),
           NEW new, new = Len(node) + 1, NEW nd, nd = RootNode(r.root, e), NEW node2, node2 = Append(node, nd),
           NEW r2, r2 = Rel(new, r.numRecords + 1, r.depth + 1, node2),
           NEW cur, cur = moveToKey(r2, new, key, c, 0)
    PROVE  PutDone(r, r2, cur, e0)
<1>1. PICK root, depth, x : root = r.root /\ depth = r.depth /\ x = c.ancestors[0]
  OBVIOUS
<1>2. x = root /\ root \in DOMAIN r.node /\ r.depth \in Nat /\ key \in Nat
  <2>1. PICK m, j : m = c.ancestors[r.depth] /\ j = c.ancestorsIdx[r.depth]
    OBVIOUS
  <2>2. AtLeaf(r, reg0, lev0, c, key, m, j)
    BY <2>1, ReadyIs
  <2>3. r.depth \in Nat /\ key \in Nat /\ Sound(r, reg0, lev0)
    BY <2>2 DEF AtLeaf
  <2>4. r.root \in DOMAIN r.node
    BY <2>3, SoundIs
  <2>5. c.ancestors[0] = r.root
    BY DEF Ready, IsPath, Links
  <2> QED
    BY <1>1, <2>3, <2>4, <2>5
<1>3. /\ NodesTyped(node) /\ e \in Entry(Keys, PtrsOf(node)) /\ DOMAIN r.node \subseteq DOMAIN node
      /\ LeafEntries(node) = LeafEntries(r.node) \cup {e0}
      /\ HalfFull(node, root) /\ node[root].numKeys >= FANOUT \div 2
      /\ node \in Seq(AnyNodes) /\ root \in DOMAIN node
  BY <1>1, <1>2 DEF Climbing, NodesTyped
<1>4. PICK reg, lev, y : /\ y = e.ptr /\ Pending(node, root, depth, reg, lev, root, y, e.key)
  BY <1>1, <1>2 DEF Climbing, Pends
<1>5. PICK P, Q : P = PtrsOf(node) /\ Q = Records \cup 1 .. new
  OBVIOUS
<1>6. P \subseteq Q /\ root \in Q /\ e \in Entry(Keys, Q)
  <2>1. Len(node) \in Nat /\ DOMAIN node = 1 .. Len(node) /\ P = Records \cup 1 .. Len(node)
    BY <1>3, <1>5 DEF PtrsOf
  <2>2. 1 .. Len(node) \subseteq 1 .. new
    BY <2>1
  <2>3. P \subseteq Q /\ root \in Q
    BY <1>3, <1>5, <2>1, <2>2
  <2> QED
    BY <1>3, <1>5, <2>3 DEF Entry
<1>7. Typed(nd, Q) /\ IsRootNode(nd, root, e) /\ nd.isLeaf = FALSE
  <2>1. nd = RootNode(root, e)
    BY <1>1
  <2>2. Typed(nd, Q) /\ IsRootNode(nd, root, e)
    BY <1>6, <2>1, RootNodeIs
  <2> QED
    BY <2>2 DEF IsRootNode
<1>8. nd \in AnyNodes
  <2>1. Q \subseteq Records \cup Nat
    <3>1. 1 .. new \subseteq Nat
      OBVIOUS
    <3> QED
      BY <1>5, <3>1
  <2>2. PICK R : R = Records \cup Nat
    OBVIOUS
  <2>3. Typed(nd, R)
    BY <1>7, <2>1, <2>2, TypedUp
  <2> QED
    BY <2>2, <2>3 DEF Typed, AnyNodes
<1>9. Appended(node, nd, node2, new)
  BY <1>3, <1>8, AppendIs
<1>10. /\ node2 \in Seq(AnyNodes) /\ Len(node2) = new
       /\ DOMAIN node2 = DOMAIN node \cup {new} /\ new \notin DOMAIN node
       /\ node2[new] = nd /\ \A m \in DOMAIN node : node2[m] = node[m]
       /\ node2 = Grown(node, new, nd)
  BY <1>9 DEF Appended
<1>11. PICK reg2, lev2 : Whole(node2, new, depth + 1, reg2, lev2)
  <2>1. e.ptr = y
    BY <1>4
  <2>2. IsTree(node2, new, depth + 1)
    <3>1. Pending(node, root, depth, reg, lev, root, y, e.key) /\ IsRootNode(nd, root, e)
      BY <1>4, <1>7
    <3>2. new \notin DOMAIN node /\ node2 = Grown(node, new, nd)
      BY <1>10
    <3> QED
      BY <2>1, <3>1, <3>2, NewRootTree
  <2> QED
    BY <2>2 DEF IsTree
<1>12. NodesTyped(node2)
  <2>1. PtrsOf(node2) = Q
    BY <1>5, <1>10 DEF PtrsOf
  <2>2. ASSUME NEW m \in DOMAIN node PROVE Typed(node2[m], Q)
    <3>1. Typed(node[m], P)
      BY <1>3, <1>5 DEF NodesTyped
    <3>2. PICK v : v = node[m]
      OBVIOUS
    <3>3. Typed(v, Q)
      BY <1>6, <3>1, <3>2, TypedUp
    <3> QED
      BY <1>10, <3>2, <3>3
  <2>3. \A m \in DOMAIN node2 : Typed(node2[m], Q)
    BY <1>7, <1>10, <2>2
  <2> QED
    BY <1>10, <2>1, <2>3 DEF NodesTyped
<1>13. HalfFull(node2, new)
  BY <1>3, <1>10 DEF HalfFull
<1>14. LeafEntries(node2) = LeafEntries(node)
  <2>1. ASSUME NEW k PROVE k \in LeafEntries(node2) <=> k \in LeafEntries(node)
    <3>1. k \in LeafEntries(node2) <=> \E m \in DOMAIN node2 : node2[m].isLeaf /\ k \in NodeEntries(node2[m])
      BY InLeaves
    <3>2. k \in LeafEntries(node) <=> \E m \in DOMAIN node : node[m].isLeaf /\ k \in NodeEntries(node[m])
      BY InLeaves
    <3> QED
      BY <1>7, <1>10, <3>1, <3>2
  <2> QED
    BY <2>1
<1>15. RelInv(r2)
  <2>1. RelInv(r) /\ LeafKeys(node2) = LeafKeys(r.node) \cup {key}
    BY <1>3, <1>14, KeysWith DEF Ready, LeafKeys
  <2>2. PICK d : d = depth + 1
    OBVIOUS
  <2>3. r2 = Rel(new, r.numRecords + 1, d, node2) /\ Whole(node2, new, d, reg2, lev2)
    BY <1>1, <1>11, <2>2
  <2> QED
    BY <1>12, <1>13, <2>1, <2>3, Grew
<1>16. r2.root = new /\ r2.depth = depth + 1 /\ r2.node = node2
  BY <1>1 DEF Rel
<1>17. ASSUME r2.depth \in Levels PROVE IsPath(r2, cur) /\ Sought(r2, cur, key)
  <2>1. Sound(r2, reg2, lev2)
    <3>1. Whole(r2.node, r2.root, r2.depth, reg2, lev2)
      BY <1>11, <1>16
    <3> QED
      BY <1>15, <1>17, <3>1, RelSound
  <2>2. reg2[new] = Int /\ r2.depth \in Nat
    BY <1>16, <2>1, SoundIs
  <2>3. /\ c.ancestors \in [Levels -> DOMAIN r2.node \cup {NULL}]
        /\ c.ancestorsIdx \in [Levels -> -1 .. FANOUT]
    <3>1. c.ancestors \in [Levels -> DOMAIN r.node \cup {NULL}] /\ c.ancestorsIdx \in [Levels -> -1 .. FANOUT]
      BY DEF Ready, IsPath, CursorType
    <3>2. DOMAIN r.node \cup {NULL} \subseteq DOMAIN r2.node \cup {NULL}
      BY <1>3, <1>10, <1>16
    <3> QED
      BY <3>1, <3>2
  <2>4. PICK level \in Int : level = 0
    OBVIOUS
  <2>5. level \in 0 .. r2.depth /\ Leads(r2, c, new, level)
    BY <1>16, <2>2, <2>4 DEF Leads
  <2>6. key \in Int /\ key \in reg2[new] /\ cur = moveToKey(r2, new, key, c, level)
    BY <1>2, <2>2, <2>4
  <2>7. /\ IsPath(r2, cur) /\ Comes(reg2, cur.ancestors, level, r2.depth, key)
        /\ cur.ancestorsIdx[r2.depth] = findRecordIndex(r2.node[cur.ancestors[r2.depth]], key)
    BY <2>1, <2>3, <2>5, <2>6, ToKey
  <2>8. key \in LeafKeys(r2.node)
    BY <1>3, <1>14, <1>16 DEF LeafKeys
  <2>9. key \in reg2[cur.ancestors[r2.depth]] /\ key \in Nat
    <3>1. r2.depth \in level .. r2.depth
      BY <2>2, <2>4
    <3> QED
      BY <1>2, <2>7, <3>1 DEF Comes
  <2> QED
    BY <2>1, <2>7, <2>8, <2>9, SoughtIs
<1>18. LeafEntries(r2.node) = WithEntry(LeafEntries(r.node), e0)
  BY <1>3, <1>14, <1>16, WithNew DEF LeafKeys
<1> QED
  BY <1>3, <1>10, <1>15, <1>16, <1>17, <1>18 DEF PutDone

\* The three results of putEntry.
PutFinds(r, c, level, e) ==
    LET n == c.ancestors[level]
        i == c.ancestorsIdx[level]
    IN  i < r.node[n].numKeys /\ r.node[n].entries[i].key = e.key

PutMore(up, n, at) ==
    [setNode(up.rel, n, insertAt(up.rel.node[n], IF up.rel.node[n].isLeaf THEN at ELSE at + 1, up.e))
        EXCEPT !.numRecords = @ + 1]

LEMMA PutEntryFound ==
    ASSUME NEW r, NEW c, NEW level, NEW e, NEW key, PutFinds(r, c, level, e), NEW n, n = c.ancestors[level],
           NEW i, i = c.ancestorsIdx[level]
    PROVE  putEntry(r, c, level, e, key) = [rel |-> setNode(r, n, WithPtr(r.node[n], i, e.ptr)), cur |-> c]
BY DEF putEntry, PutFinds, WithPtr

NoRoom(r, c, level) == levelWithRoom(r, c, level) = -1
IsUp(r, c, level, e, up) == up = splits(r, c, level, e)[level - levelWithRoom(r, c, level)]
GrownResult(grown, key, c) == [rel |-> grown, cur |-> moveToKey(grown, grown.root, key, c, 0)]

LEMMA PutEntryRoot ==
    ASSUME NEW r, NEW c, NEW level, NEW e, NEW key, ~PutFinds(r, c, level, e), NoRoom(r, c, level),
           NEW up, IsUp(r, c, level, e, up), NEW grown, grown = newRoot(up.rel, up.e)
    PROVE  putEntry(r, c, level, e, key) = GrownResult(grown, key, c)
BY DEF putEntry, PutFinds, NoRoom, IsUp, GrownResult

LEMMA PutEntryMore ==
    ASSUME NEW r, NEW c, NEW level, NEW e, NEW key, ~PutFinds(r, c, level, e),
           NEW top, top = levelWithRoom(r, c, level), top # -1,
           NEW up, up = splits(r, c, level, e)[level - top], NEW n, n = c.ancestors[top],
           NEW more, more = PutMore(up, n, c.ancestorsIdx[top])
    PROVE  putEntry(r, c, level, e, key) =
               [rel |-> more, cur |-> IF up.rel.node[n].isLeaf THEN c ELSE moveToKey(more, n, key, c, top)]
BY DEF putEntry, PutFinds, PutMore

TargetOf(nd, at) == IF nd.isLeaf THEN at ELSE at + 1

GoesInto(r, node, up, n, at, nd) ==
    up.rel = WithNode(r, node) /\ nd = insertAt(node[n], TargetOf(node[n], at), up.e)

MoreWith(r, node, up, n, at, nd) ==
    PutMore(up, n, at) = Rel(r.root, r.numRecords + 1, r.depth, [node EXCEPT ![n] = nd])

LEMMA MoreIs ==
    ASSUME NEW r, NEW node, NEW up, NEW n, NEW at, NEW nd, GoesInto(r, node, up, n, at, nd)
    PROVE  MoreWith(r, node, up, n, at, nd)
<1> USE DEF GoesInto
<1>0. PICK node2 : node2 = [node EXCEPT ![n] = nd]
  OBVIOUS
<1>1. PICK q, a, b, d : q = up.rel /\ a = r.root /\ b = r.numRecords /\ d = r.depth
  OBVIOUS
<1>2. q = [root |-> a, numRecords |-> b, depth |-> d, node |-> node]
  BY <1>1 DEF WithNode
<1>3. q.node = node /\ q.root = a /\ q.numRecords = b /\ q.depth = d /\ q = WithNode(q, q.node)
  BY <1>2 DEF WithNode
<1>4. setNode(q, n, nd) = Rel(a, b, d, node2)
  <2>1. q = WithNode(q, q.node)
    BY <1>3
  <2>2. setNode(q, n, nd) = Rel(q.root, q.numRecords, q.depth, [q.node EXCEPT ![n] = nd])
    BY <2>1, SetNodeIs
  <2> QED
    BY <1>0, <1>3, <2>2
<1>5. PutMore(up, n, at) = [setNode(q, n, nd) EXCEPT !.numRecords = @ + 1]
  BY <1>1, <1>3 DEF PutMore, TargetOf
<1>6. [Rel(a, b, d, node2) EXCEPT !.numRecords = @ + 1] = Rel(a, b + 1, d, node2)
  BY DEF Rel
<1> QED
  BY <1>0, <1>1, <1>4, <1>5, <1>6 DEF MoreWith

LEMMA GrownIs ==
    ASSUME NEW r, NEW node, NEW up, up.rel = WithNode(r, node)
    PROVE  newRoot(up.rel, up.e) =
               Rel(Len(node) + 1, r.numRecords + 1, r.depth + 1, Append(node, RootNode(r.root, up.e)))
<1>1. up.rel.node = node /\ up.rel.root = r.root /\ up.rel.numRecords = r.numRecords /\ up.rel.depth = r.depth
  BY DEF WithNode
<1> QED
  BY <1>1 DEF newRoot, Rel, RootNode

LEMMA Put ==
    ASSUME NEW r, NEW reg, NEW lev, NEW c, NEW key, Ready(r, reg, lev, c, key), NEW record \in Records,
           NEW e, e = [key |-> key, ptr |-> record], NEW put, put = putEntry(r, c, r.depth, e, key)
    PROVE  PutDone(r, put.rel, put.cur, e)
<1>1. PICK n, i, d : n = c.ancestors[r.depth] /\ i = c.ancestorsIdx[r.depth] /\ d = r.depth
  OBVIOUS
<1>2. AtLeaf(r, reg, lev, c, key, n, i)
  BY <1>1, ReadyIs
<1>3. e.key = key /\ e.ptr = record /\ e \in Entry(Keys, PtrsOf(r.node))
  BY DEF Entry, PtrsOf, Ready
<1>4. CASE PutFinds(r, c, d, e)
  <2>1. putEntry(r, c, d, e, key) = [rel |-> setNode(r, n, WithPtr(r.node[n], i, e.ptr)), cur |-> c]
    BY <1>1, <1>4, PutEntryFound
  <2>2. put.rel = setNode(r, n, WithPtr(r.node[n], i, record)) /\ put.cur = c
    BY <1>1, <1>3, <2>1
  <2>3. i < r.node[n].numKeys /\ r.node[n].entries[i].key = key
    BY <1>1, <1>3, <1>4 DEF PutFinds
  <2>4. PICK r2, p : r2 = put.rel /\ p = record /\ p \in Records /\ r2 = setNode(r, n, WithPtr(r.node[n], i, p))
                      /\ e = [key |-> key, ptr |-> p]
    BY <2>2
  <2>5. PutDone(r, r2, c, e)
    BY <1>1, <2>3, <2>4, PutFound
  <2> QED
    BY <2>2, <2>4, <2>5
<1>5. CASE ~PutFinds(r, c, d, e)
  <2>1. IsPlace(r.node[n], i, key)
    <3>1. HasKeys(r.node[n]) /\ key \in Nat /\ i = findRecordIndex(r.node[n], key)
      BY <1>2 DEF AtLeaf
    <3>2. ~(i < r.node[n].numKeys /\ r.node[n].entries[i].key = key)
      BY <1>1, <1>3, <1>5 DEF PutFinds
    <3> QED
      BY <3>1, <3>2, NotFound
  <2>2. key \notin LeafKeys(r.node)
    <3>1. PICK node, root : node = r.node /\ root = r.root
      OBVIOUS
    <3>2. Whole(node, root, d, reg, lev) /\ n \in DOMAIN node /\ node[n].isLeaf /\ key \in reg[n] /\ key \in Nat
          /\ IsPlace(node[n], i, key)
      BY <1>1, <1>2, <2>1, <3>1 DEF AtLeaf, Ready
    <3> QED
      BY <3>1, <3>2, NotThere
  <2>3. PICK anc, ix, top, f, up : /\ anc = c.ancestors /\ ix = c.ancestorsIdx /\ top = levelWithRoom(r, c, d)
                                   /\ f = splits(r, c, d, e) /\ up = f[d - top]
    OBVIOUS
  <2>4. d \in Nat /\ d = r.depth /\ Along(r, reg, lev, anc, ix, d) /\ Links(r, anc, ix, d)
        /\ NodesTyped(r.node) /\ HalfFull(r.node, r.root) /\ r = WithNode(r, r.node)
        /\ Whole(r.node, r.root, r.depth, reg, lev) /\ Comes(reg, anc, 0, r.depth, key)
    BY <1>1, <1>2, <2>3 DEF AtLeaf, Ready, RelInv, IsPath
  <2>5. /\ top \in -1 .. d
        /\ top # -1 => r.node[anc[top]].numKeys < FANOUT
        /\ \A l \in top + 1 .. d : r.node[anc[l]].numKeys = FANOUT
    <3>1. \A l \in 0 .. d : r.node[anc[l]].numKeys \in 0 .. FANOUT
      <4>1. \A l \in 0 .. d : anc[l] \in DOMAIN r.node
        BY <2>4 DEF Along
      <4>2. \A m \in DOMAIN r.node : r.node[m].numKeys \in 0 .. FANOUT
        BY <1>2 DEF AtLeaf, Sound
      <4> QED
        BY <4>1, <4>2
    <3> QED
      BY <2>3, <2>4, <3>1, RoomIs
  <2>6. CASE top = d
    <3>1. top # -1 /\ d - top = 0 /\ n = c.ancestors[top] /\ r.node[n].numKeys < FANOUT
      BY <1>1, <2>3, <2>4, <2>5, <2>6
    <3>2. up = [rel |-> r, e |-> e]
      <4>1. f[0] = [rel |-> r, e |-> e]
        BY <2>3, <2>4, SplitsAre
      <4> QED
        BY <2>3, <3>1, <4>1
    <3>3. up.rel = WithNode(r, r.node) /\ up.e = e /\ up.rel.node = r.node
      BY <2>4, <3>2
    <3>4. PICK more, nd, node, node2 : /\ more = PutMore(up, n, i) /\ node = r.node
                                       /\ nd = insertAt(node[n], i, up.e) /\ node2 = [node EXCEPT ![n] = nd]
      OBVIOUS
    <3>5. r.node[n].isLeaf
      BY <1>2 DEF AtLeaf
    <3>6. more = Rel(r.root, r.numRecords + 1, r.depth, node2)
      <4>1. i = TargetOf(node[n], i) /\ up.rel = WithNode(r, node)
        BY <3>3, <3>4, <3>5 DEF TargetOf
      <4>2. nd = insertAt(node[n], i, up.e)
        BY <3>4
      <4>3. PutMore(up, n, i) = Rel(r.root, r.numRecords + 1, r.depth, [node EXCEPT ![n] = nd])
        <5>1. GoesInto(r, node, up, n, i, nd)
          BY <4>1, <4>2 DEF GoesInto
        <5>2. MoreWith(r, node, up, n, i, nd)
          BY <5>1, MoreIs
        <5> QED
          BY <5>2 DEF MoreWith
      <4> QED
        BY <3>4, <4>3
    <3>7. i = c.ancestorsIdx[top] /\ up = splits(r, c, d, e)[d - top]
      BY <1>1, <2>3, <2>4, <2>6
    <3>8. putEntry(r, c, d, e, key) =
             [rel |-> more, cur |-> IF up.rel.node[n].isLeaf THEN c ELSE moveToKey(more, n, key, c, top)]
      BY <1>5, <2>3, <3>1, <3>4, <3>7, PutEntryMore
    <3>9. put.rel = more /\ put.cur = c
      BY <1>1, <3>3, <3>5, <3>8
    <3>10. more = Rel(r.root, r.numRecords + 1, r.depth, [r.node EXCEPT ![n] = insertAt(r.node[n], i, e)])
      BY <3>3, <3>4, <3>6
    <3>11. PutDone(r, more, c, e)
      BY <1>1, <1>3, <2>1, <3>1, <3>10, PutLeaf
    <3> QED
      BY <3>9, <3>11
  <2>7. CASE top # d
    <3>1. top \in -1 .. r.depth - 1 /\ \A l \in top + 1 .. r.depth : r.node[anc[l]].numKeys = FANOUT
      BY <2>4, <2>5, <2>7
    <3>2. Up(r, anc, e, f, r.depth - top)
      <4>1. IsPlace(r.node[anc[r.depth]], i, e.key) /\ Comes(reg, anc, 0, r.depth, e.key)
            /\ Along(r, reg, lev, anc, ix, r.depth) /\ Links(r, anc, ix, r.depth) /\ r.depth \in Nat
            /\ f = splits(r, c, r.depth, e)
        BY <1>1, <1>3, <2>1, <2>3, <2>4
      <4> QED
        BY <1>3, <2>3, <2>4, <3>1, <4>1, Climbed
    <3>3. PICK node : node = up.rel.node
      OBVIOUS
    <3>4. up.rel = WithNode(r, node) /\ Climbing(r, anc, top + 1, e, node, up.e)
      <4>1. r.depth + 1 - (r.depth - top) = top + 1
        BY <2>4, <3>1
      <4>2. up = f[r.depth - top]
        BY <2>3, <2>4
      <4> QED
        BY <1>3, <3>2, <3>3, <4>1, <4>2 DEF Up
    <3>5. CASE top = -1
      <4>1. PICK grown, nd, new, node2, e2 : /\ grown = newRoot(up.rel, up.e) /\ nd = RootNode(r.root, e2) /\ e2 = up.e
                                             /\ new = Len(node) + 1 /\ node2 = Append(node, nd)
        OBVIOUS
      <4>2. grown = Rel(new, r.numRecords + 1, r.depth + 1, node2)
        BY <3>4, <4>1, GrownIs
      <4>3. putEntry(r, c, d, e, key) = [rel |-> grown, cur |-> moveToKey(grown, grown.root, key, c, 0)]
        <5>1. NoRoom(r, c, d)
          BY <2>3, <3>5 DEF NoRoom
        <5>2. IsUp(r, c, d, e, up)
          BY <2>3 DEF IsUp
        <5>3. grown = newRoot(up.rel, up.e)
          BY <4>1
        <5>4. putEntry(r, c, d, e, key) = GrownResult(grown, key, c)
          BY <1>5, <5>1, <5>2, <5>3, PutEntryRoot
        <5> QED
          BY <5>4 DEF GrownResult
      <4>4. grown.root = new
        BY <4>2 DEF Rel
      <4>5. put.rel = grown /\ put.cur = moveToKey(grown, new, key, c, 0)
        BY <1>1, <4>3, <4>4
      <4>6. Climbing(r, c.ancestors, 0, e, node, e2)
        <5>1. top + 1 = 0
          BY <3>5
        <5> QED
          BY <2>3, <3>4, <4>1, <5>1
      <4>7. PICK cur : cur = put.cur
        OBVIOUS
      <4>8. PutDone(r, grown, cur, e)
        BY <1>3, <2>2, <4>1, <4>2, <4>5, <4>6, <4>7, PutRoot
      <4> QED
        BY <4>5, <4>7, <4>8
    <3>6. CASE top # -1
      <4>1. top \in 0 .. r.depth - 1 /\ r.node[anc[top]].numKeys < FANOUT
        BY <2>4, <2>5, <3>1, <3>6
      <4>2. PICK m, at, more, nd, node2, e2 : /\ m = c.ancestors[top] /\ at = c.ancestorsIdx[top] /\ e2 = up.e
                                              /\ more = PutMore(up, m, at)
                                              /\ nd = insertAt(node[m], at + 1, e2)
                                              /\ node2 = [node EXCEPT ![m] = nd]
        OBVIOUS
      <4>3. ~node[m].isLeaf
        <5>1. m \in DOMAIN r.node /\ ~r.node[m].isLeaf
          <6>1. top \in 0 .. d /\ top # r.depth
            BY <2>4, <4>1
          <6> QED
            BY <2>3, <2>4, <4>2, <6>1 DEF Along
        <5>2. top \in 0 .. (top + 1) - 1
          BY <4>1
        <5>3. node[m] = r.node[m]
          BY <2>3, <3>4, <4>2, <5>2 DEF Climbing, Same
        <5> QED
          BY <5>1, <5>3
      <4>4. more = Rel(r.root, r.numRecords + 1, r.depth, node2)
        <5>1. PICK t : t = at + 1 /\ t = TargetOf(node[m], at)
          BY <4>3 DEF TargetOf
        <5>2. nd = insertAt(node[m], t, up.e)
          BY <4>2, <5>1
        <5>3. t = TargetOf(node[m], at) /\ up.rel = WithNode(r, node)
          BY <3>4, <5>1
        <5>4. PutMore(up, m, at) = Rel(r.root, r.numRecords + 1, r.depth, [node EXCEPT ![m] = nd])
          <6>1. GoesInto(r, node, up, m, at, nd)
            BY <5>2, <5>3 DEF GoesInto
          <6>2. MoreWith(r, node, up, m, at, nd)
            BY <6>1, MoreIs
          <6> QED
            BY <6>2 DEF MoreWith
        <5> QED
          BY <4>2, <5>4
      <4>5. putEntry(r, c, d, e, key) =
               [rel |-> more, cur |-> IF up.rel.node[m].isLeaf THEN c ELSE moveToKey(more, m, key, c, top)]
        <5>1. up = splits(r, c, d, e)[d - top] /\ more = PutMore(up, m, c.ancestorsIdx[top])
          BY <2>3, <4>2
        <5> QED
          BY <1>5, <2>3, <3>6, <4>2, <5>1, PutEntryMore
      <4>6. put.rel = more /\ put.cur = moveToKey(more, m, key, c, top)
        BY <1>1, <3>3, <4>3, <4>5
      <4>7. Climbing(r, c.ancestors, top + 1, e, node, e2) /\ r.node[m].numKeys < FANOUT
            /\ nd = insertAt(node[m], c.ancestorsIdx[top] + 1, e2)
        BY <2>3, <3>4, <4>1, <4>2
      <4>8. PICK cur : cur = put.cur
        OBVIOUS
      <4>9. PutDone(r, more, cur, e)
        <5>1. PICK at2 : at2 = e /\ at2.key = key
          BY <1>3
        <5>2. Climbing(r, c.ancestors, top + 1, at2, node, e2) /\ cur = moveToKey(more, m, key, c, top)
          BY <4>6, <4>7, <4>8, <5>1
        <5>3. PutDone(r, more, cur, at2)
          BY <2>2, <4>1, <4>2, <4>4, <4>7, <5>1, <5>2, PutIntern
        <5> QED
          BY <5>1, <5>3
      <4> QED
        BY <4>6, <4>8, <4>9
    <3> QED
      BY <3>5, <3>6
  <2> QED
    BY <2>6, <2>7
<1> QED
  BY <1>4, <1>5

-----------------------------------------------------------------------------
(* The calls. *)

StateInv(r, cu, sy) ==
    /\ RelInv(r) /\ r.depth \in Levels
    /\ cu \in [Cursors -> CursorType(DOMAIN r.node) \cup {NULL}]
    /\ sy \subseteq {c \in Cursors : cu[c] # NULL}
    /\ \A c \in sy : IsPath(r, cu[c])

\* The inductive invariant.
Inv == StateInv(rel, cursor, synced)

LEMMA NodeIds == ASSUME NEW r, RelInv(r) PROVE DOMAIN r.node = 1 .. Len(r.node) /\ Len(r.node) \in Nat
BY DEF RelInv, NodesTyped

LEMMA NotNull ==
    ASSUME NEW r, RelInv(r), NEW at, at \in CursorType(DOMAIN r.node)
    PROVE  at # NULL
<1>1. PICK D : D = DOMAIN r.node /\ D \subseteq Nat
  BY NodeIds
<1>2. -1 .. FANOUT \subseteq Int /\ Levels \subseteq Int
  <2>1. FANOUT \in Int /\ Levels \subseteq Nat
    BY FanoutIs, LevelsAre
  <2> QED
    BY <2>1
<1>3. PICK ix : ix = -1 .. FANOUT
  OBVIOUS
<1>4. CursorType(D) = [level : Levels, ancestors : [Levels -> D \cup {NULL}], ancestorsIdx : [Levels -> ix]]
  BY <1>3 DEF CursorType
<1>5. /\ at.level \in Int /\ at.ancestors \in [Levels -> Nat \cup {NULL}] /\ at.ancestorsIdx \in [Levels -> Int]
      /\ at = [level |-> at.level, ancestors |-> at.ancestors, ancestorsIdx |-> at.ancestorsIdx]
  <2>1. at \in [level : Levels, ancestors : [Levels -> D \cup {NULL}], ancestorsIdx : [Levels -> ix]]
    BY <1>1, <1>4
  <2>2. at.level \in Levels /\ at.ancestors \in [Levels -> D \cup {NULL}] /\ at.ancestorsIdx \in [Levels -> ix]
    BY <2>1
  <2>3. at = [level |-> at.level, ancestors |-> at.ancestors, ancestorsIdx |-> at.ancestorsIdx]
    BY <2>1
  <2>4. at.level \in Int /\ at.ancestorsIdx \in [Levels -> Int]
    BY <1>2, <1>3, <2>2
  <2>5. at.ancestors \in [Levels -> Nat \cup {NULL}]
    BY <1>1, <2>2
  <2> QED
    BY <2>3, <2>4, <2>5
<1>6. at \in [level : Int, ancestors : [Levels -> Nat \cup {NULL}], ancestorsIdx : [Levels -> Int]]
  BY <1>5
<1> QED
  BY <1>6, RelationAssumption

LEMMA Moved ==
    ASSUME NEW r, NEW cu, NEW sy, StateInv(r, cu, sy), NEW r2, RelInv(r2), r2.depth \in Levels,
           DOMAIN r.node \subseteq DOMAIN r2.node, NEW c \in Cursors, NEW at, IsPath(r2, at),
           NEW cu2, cu2 = [cu EXCEPT ![c] = at], NEW sy2, sy2 \subseteq Cursors,
           \A x \in sy2 : x # c => x \in sy /\ IsPath(r2, cu[x])
    PROVE  StateInv(r2, cu2, sy2)
<1>1. PICK D, D2 : D = DOMAIN r.node /\ D2 = DOMAIN r2.node
  OBVIOUS
<1>2. at \in CursorType(D2) /\ at # NULL
  <2>1. at \in CursorType(DOMAIN r2.node)
    BY DEF IsPath
  <2> QED
    BY <1>1, <2>1, NotNull
<1>3. CursorType(D) \subseteq CursorType(D2)
  <2>1. PICK ix : ix = -1 .. FANOUT
    OBVIOUS
  <2>2. D \cup {NULL} \subseteq D2 \cup {NULL}
    BY <1>1
  <2> QED
    BY <2>1, <2>2 DEF CursorType
<1>4. cu \in [Cursors -> CursorType(D) \cup {NULL}] /\ sy \subseteq {x \in Cursors : cu[x] # NULL}
  BY <1>1 DEF StateInv
<1>5. cu2 \in [Cursors -> CursorType(D2) \cup {NULL}]
  BY <1>2, <1>3, <1>4
<1>6. cu2[c] = at /\ \A x \in Cursors : x # c => cu2[x] = cu[x]
  BY <1>4
<1>7. sy2 \subseteq {x \in Cursors : cu2[x] # NULL} /\ \A x \in sy2 : IsPath(r2, cu2[x])
  BY <1>2, <1>4, <1>6
<1> QED
  BY <1>1, <1>5, <1>7 DEF StateInv

LEMMA AfterPut ==
    ASSUME NEW r, RelInv(r), r.depth \in Levels, NEW c, IsPath(r, c), NEW key \in Keys, NEW record \in Records,
           NEW out, out = afterPut(r, c, key, record)
    PROVE  /\ RelInv(out.rel) /\ DOMAIN r.node \subseteq DOMAIN out.rel.node
           /\ LeafEntries(out.rel.node) = WithEntry(LeafEntries(r.node), [key |-> key, ptr |-> record])
           /\ out.rel.depth \in Levels =>
                 /\ IsPath(out.rel, out.cur)
                 /\ \E cur : IsPath(out.rel, cur) /\ Sought(out.rel, cur, key) /\ out.cur = afterNext(out.rel, cur)
<1>1. PICK reg, lev : Whole(r.node, r.root, r.depth, reg, lev)
  BY DEF RelInv
<1>2. Sound(r, reg, lev)
  BY <1>1, RelSound
<1>3. PICK at, e : at = goToKey(r, c, key) /\ e = [key |-> key, ptr |-> record]
  OBVIOUS
<1>4. key \in Nat
  BY RelationAssumption
<1>5. IsPath(r, at) /\ Comes(reg, at.ancestors, 0, r.depth, key)
      /\ at.ancestorsIdx[r.depth] = findRecordIndex(r.node[at.ancestors[r.depth]], key)
  BY <1>2, <1>3, <1>4, GoToKey
<1>6. Ready(r, reg, lev, at, key) /\ at.level = r.depth
  BY <1>1, <1>5 DEF Ready, IsPath
<1>7. PICK put : put = putEntry(r, at, r.depth, e, key)
  OBVIOUS
<1>8. PutDone(r, put.rel, put.cur, e)
  BY <1>3, <1>6, <1>7, Put
<1>9. out = [put EXCEPT !.cur = afterNext(put.rel, put.cur)]
  BY <1>3, <1>6, <1>7 DEF afterPut
<1>10. out.rel = put.rel /\ out.cur = afterNext(put.rel, put.cur)
  <2>1. PICK a, b : put = [rel |-> a, cur |-> b]
    BY <1>7, Zenon DEF putEntry
  <2>2. PICK x : x = afterNext(put.rel, put.cur)
    OBVIOUS
  <2>3. out = [rel |-> a, cur |-> x]
    BY <1>9, <2>1, <2>2
  <2> QED
    BY <2>1, <2>2, <2>3
<1>11. PICK r2, cur : r2 = put.rel /\ cur = put.cur
  OBVIOUS
<1>12. /\ RelInv(r2) /\ DOMAIN r.node \subseteq DOMAIN r2.node
       /\ LeafEntries(r2.node) = WithEntry(LeafEntries(r.node), e)
       /\ r2.depth \in Levels => IsPath(r2, cur) /\ Sought(r2, cur, key)
  BY <1>3, <1>8, <1>11 DEF PutDone
<1>13. ASSUME r2.depth \in Levels PROVE IsPath(r2, afterNext(r2, cur))
  <2>1. PICK reg2, lev2 : Whole(r2.node, r2.root, r2.depth, reg2, lev2)
    BY <1>12 DEF RelInv
  <2>2. Sound(r2, reg2, lev2)
    BY <1>12, <1>13, <2>1, RelSound
  <2> QED
    BY <1>12, <1>13, <2>2, AtEntryStays
<1> QED
  BY <1>3, <1>10, <1>11, <1>12, <1>13


\* moveToFirst from the root needs nothing of the cursor but its arrays.
LEMMA FromRoot ==
    ASSUME NEW r, RelInv(r), r.depth \in Levels, NEW c, c.ancestors \in [Levels -> DOMAIN r.node \cup {NULL}],
           c.ancestorsIdx \in [Levels -> -1 .. FANOUT], NEW d, d = moveToFirst(r, r.root, c, 0)
    PROVE  IsPath(r, d)
<1>1. PICK reg, lev : Whole(r.node, r.root, r.depth, reg, lev)
  BY DEF RelInv
<1>2. Sound(r, reg, lev)
  BY <1>1, RelSound
<1>3. PICK level, n : level = 0 /\ level \in Int /\ n = r.root
  OBVIOUS
<1>4. level \in 0 .. r.depth /\ Leads(r, c, n, level) /\ d = moveToFirst(r, n, c, level)
  <2>1. r.depth \in Nat
    BY <1>2, SoundIs
  <2> QED
    BY <1>3, <2>1 DEF Leads
<1> QED
  BY <1>2, <1>4, ToFirst

LEMMA Initially == ASSUME Init PROVE Inv
<1>1. PICK nd, reg, lev : /\ nd = createNewNode(TRUE, TRUE, TRUE)
                          /\ reg = [n \in {1} |-> Int] /\ lev = [n \in {1} |-> 0]
  OBVIOUS
<1>2. nd.isLeaf = TRUE /\ nd.FirstLeaf = TRUE /\ nd.LastLeaf = TRUE /\ nd.numKeys = 0 /\ nd.ptr0 = NULL
      /\ nd.entries = [i \in Slots |-> Unset]
      /\ nd = [isLeaf |-> nd.isLeaf, FirstLeaf |-> nd.FirstLeaf, LastLeaf |-> nd.LastLeaf,
               numKeys |-> nd.numKeys, ptr0 |-> nd.ptr0, entries |-> nd.entries]
  BY <1>1 DEF createNewNode
<1>3. PICK node : node = <<nd>>
  OBVIOUS
<1>4. Len(node) = 1 /\ DOMAIN node = {1} /\ node[1] = nd
  BY <1>3
<1>5. /\ rel.root = 1 /\ rel.numRecords = 0 /\ rel.depth = 0 /\ rel.node = node /\ rel = WithNode(rel, rel.node)
      /\ cursor = [c \in Cursors |-> NULL] /\ synced = {}
  BY <1>1, <1>3 DEF Init, WithNode
<1>6. \A P : nd \in BtNodes(Keys, P)
  <2>1. nd.numKeys \in 0 .. FANOUT
    <3>1. FANOUT \in Nat
      BY FanoutIs
    <3> QED
      BY <1>2, <3>1
  <2>2. \A P : nd.entries \in [Slots -> Entry(Keys, P) \cup {Unset}]
    BY <1>2
  <2> QED
    BY <1>2, <2>1, <2>2 DEF BtNodes
<1>7. 0 .. nd.numKeys - 1 = {}
  BY <1>2
<1>8. NodesTyped(node)
  <2>1. node \in Seq(AnyNodes)
    <3>1. nd \in AnyNodes
      BY <1>6 DEF AnyNodes
    <3> QED
      BY <1>3, <3>1
  <2>2. \A n \in DOMAIN node : Typed(node[n], PtrsOf(node))
    BY <1>4, <1>6, <1>7 DEF Typed
  <2> QED
    BY <2>1, <2>2 DEF NodesTyped
<1>9. NodeKeys(nd) = {}
  BY <1>7 DEF NodeKeys
<1>10. LeafKeys(node) = {}
  BY <1>4, <1>9, InLeaf
<1>11. NodeRight(nd)
  <2>1. HasKeys(nd) /\ Sorted(nd)
    BY <1>2, <1>7 DEF HasKeys, Sorted
  <2>2. nd.isLeaf = TRUE /\ nd.FirstLeaf = TRUE /\ nd.LastLeaf = TRUE
    BY <1>2
  <2> QED
    BY <2>1, <2>2, Zenon DEF NodeRight
<1>12. Whole(node, 1, 0, reg, lev)
  <2>1. reg[1] = Int /\ lev[1] = 0
    BY <1>1
  <2>2. Convex(Int) /\ UpClosed(Int) /\ -1 \in Int /\ Int # {}
    BY DEF Convex, UpClosed
  <2>3. Placed(node, 0, reg, lev, 1)
    BY <1>2, <1>4, <1>9, <2>1, <2>2 DEF Placed
  <2>4. Parts(node, reg, lev, reg, 1)
    BY <1>2, <1>4 DEF Parts
  <2>5. RegionsApart(DOMAIN node, reg, lev)
    BY <1>4 DEF RegionsApart
  <2> QED
    BY <1>4, <1>11, <2>1, <2>3, <2>4, <2>5 DEF Whole, Tree
<1>13. RelInv(rel)
  <2>1. IsFiniteSet(LeafKeys(node)) /\ 0 = Cardinality(LeafKeys(node))
    BY <1>10, FS_EmptySet
  <2>2. HalfFull(node, 1)
    BY <1>4 DEF HalfFull
  <2>3. \E g, h : Whole(rel.node, rel.root, rel.depth, g, h)
    BY <1>5, <1>12
  <2> QED
    BY <1>5, <1>8, <2>1, <2>2, <2>3 DEF RelInv
<1>14. rel.depth \in Levels
  BY <1>5, LevelsAre
<1>15. cursor \in [Cursors -> CursorType(DOMAIN rel.node) \cup {NULL}]
  BY <1>5
<1> QED
  BY <1>5, <1>13, <1>14, <1>15 DEF Inv, StateInv

\* What the calls that move one cursor have in common.
LEMMA OneMoves ==
    ASSUME Inv, NEW c \in Cursors, NEW at, IsPath(rel, at), rel' = rel,
           cursor' = [cursor EXCEPT ![c] = at], synced' \subseteq synced \cup {c}
    PROVE  Inv'
<1>1. PICK r, cu, sy, cu2, sy2 : r = rel /\ cu = cursor /\ sy = synced /\ cu2 = cursor' /\ sy2 = synced'
  OBVIOUS
<1>2. StateInv(r, cu, sy)
  BY <1>1 DEF Inv
<1>3. RelInv(r) /\ r.depth \in Levels /\ sy \subseteq Cursors /\ \A x \in sy : IsPath(r, cu[x])
  BY <1>2 DEF StateInv
<1>4. IsPath(r, at) /\ cu2 = [cu EXCEPT ![c] = at] /\ sy2 \subseteq Cursors
      /\ \A x \in sy2 : x # c => x \in sy /\ IsPath(r, cu[x])
  BY <1>1, <1>3
<1>5. StateInv(r, cu2, sy2)
  BY <1>2, <1>3, <1>4, Moved
<1> QED
  BY <1>1, <1>5 DEF Inv

LEMMA Step == ASSUME Inv, [Next]_vars PROVE Inv'
<1>1. PICK r : r = rel
  OBVIOUS
<1>2. RelInv(r) /\ r.depth \in Levels
  BY <1>1 DEF Inv, StateInv
<1>3. PICK reg, lev : Whole(r.node, r.root, r.depth, reg, lev)
  BY <1>2 DEF RelInv
<1>4. Sound(r, reg, lev)
  BY <1>2, <1>3, RelSound
<1>5. \A c \in Cursors : cursor[c] # NULL => /\ cursor[c].ancestors \in [Levels -> DOMAIN r.node \cup {NULL}]
                                             /\ cursor[c].ancestorsIdx \in [Levels -> -1 .. FANOUT]
  BY <1>1 DEF Inv, StateInv, CursorType
<1>6. synced \subseteq Cursors /\ \A c \in synced : IsPath(r, cursor[c])
  BY <1>1 DEF Inv, StateInv
<1>7. ASSUME NEW c \in Cursors, NEW at, IsPath(r, at), MoveCursor(c, at) PROVE Inv'
  <2>1. cursor' = [cursor EXCEPT ![c] = at] /\ rel' = rel /\ synced' \subseteq synced \cup {c}
    BY <1>7 DEF MoveCursor
  <2>2. IsPath(rel, at)
    BY <1>1, <1>7
  <2> QED
    BY <2>1, <2>2, OneMoves
<1>8. ASSUME NEW c \in Cursors, RL_NewCursor(c) PROVE Inv'
  <2>1. PICK blank : blank = [level |-> -1, ancestorsIdx |-> [l \in Levels |-> 0],
                              ancestors |-> [l \in Levels |-> NULL]]
    OBVIOUS
  <2>2. PICK at : at = moveToFirst(r, r.root, blank, 0)
    OBVIOUS
  <2>3. cursor' = [cursor EXCEPT ![c] = at] /\ rel' = rel /\ synced' \subseteq synced \cup {c}
    BY <1>1, <1>8, <2>1, <2>2 DEF RL_NewCursor
  <2>4. blank.ancestors \in [Levels -> DOMAIN r.node \cup {NULL}] /\ blank.ancestorsIdx \in [Levels -> -1 .. FANOUT]
    <3>1. FANOUT \in Nat
      BY FanoutIs
    <3>2. 0 \in -1 .. FANOUT
      BY <3>1
    <3>3. blank.ancestors = [l \in Levels |-> NULL] /\ blank.ancestorsIdx = [l \in Levels |-> 0]
      BY <2>1
    <3> QED
      BY <3>2, <3>3
  <2>5. IsPath(r, at)
    BY <1>2, <2>2, <2>4, FromRoot
  <2>6. IsPath(rel, at)
    BY <1>1, <2>5
  <2> QED
    BY <2>3, <2>6, OneMoves
<1>9. ASSUME NEW c \in Cursors, RL_FreeCursor(c) PROVE Inv'
  <2>1. cursor' = [cursor EXCEPT ![c] = NULL] /\ synced' = synced \ {c} /\ rel' = rel
    BY <1>9 DEF RL_FreeCursor
  <2>2. PICK T : T = CursorType(DOMAIN rel.node)
    OBVIOUS
  <2>3. cursor \in [Cursors -> T \cup {NULL}] /\ synced \subseteq {x \in Cursors : cursor[x] # NULL}
    BY <2>2 DEF Inv, StateInv
  <2>4. cursor' \in [Cursors -> T \cup {NULL}] /\ synced' \subseteq {x \in Cursors : cursor'[x] # NULL}
        /\ \A x \in synced' : x \in synced /\ cursor'[x] = cursor[x]
    BY <2>1, <2>3
  <2> QED
    BY <1>1, <1>2, <1>6, <2>1, <2>2, <2>4 DEF Inv, StateInv
<1>10. ASSUME NEW c \in Cursors, NEW key \in Keys, NEW record \in Records, RL_PutRecord(c, key, record) PROVE Inv'
  <2>1. PICK cur, put : cur = cursor[c] /\ put = afterPut(r, cur, key, record)
    OBVIOUS
  <2>2. /\ c \in synced /\ put.rel.depth \in Levels /\ rel' = put.rel
        /\ cursor' = [cursor EXCEPT ![c] = put.cur] /\ synced' \subseteq {c}
    BY <1>1, <1>10, <2>1 DEF RL_PutRecord, Usable
  <2>3. IsPath(r, cur)
    BY <1>6, <2>1, <2>2
  <2>4. RelInv(put.rel) /\ DOMAIN r.node \subseteq DOMAIN put.rel.node /\ IsPath(put.rel, put.cur)
    BY <1>2, <2>1, <2>2, <2>3, AfterPut
  <2>5. PICK r2, at, cu, sy, cu2, sy2 : /\ r2 = put.rel /\ at = put.cur /\ cu = cursor /\ sy = synced
                                        /\ cu2 = cursor' /\ sy2 = synced'
    OBVIOUS
  <2>6. StateInv(r, cu, sy)
    BY <1>1, <2>5 DEF Inv
  <2>7. RelInv(r2) /\ r2.depth \in Levels /\ DOMAIN r.node \subseteq DOMAIN r2.node /\ IsPath(r2, at)
        /\ cu2 = [cu EXCEPT ![c] = at] /\ sy2 \subseteq Cursors
        /\ \A x \in sy2 : x # c => x \in sy /\ IsPath(r2, cu[x])
    BY <2>2, <2>4, <2>5
  <2>8. StateInv(r2, cu2, sy2)
    BY <2>6, <2>7, Moved
  <2> QED
    BY <2>2, <2>5, <2>8 DEF Inv
<1>11. ASSUME NEW c \in Cursors, NEW key \in Keys, RL_MoveToKey(c, key) PROVE Inv'
  <2>1. PICK cur, at, there : /\ cur = cursor[c] /\ at = goToKey(r, cur, key)
                              /\ there = afterMoveToKey(r, cur, key)
    OBVIOUS
  <2>2. c \in synced /\ MoveCursor(c, there)
    BY <1>1, <1>11, <2>1 DEF RL_MoveToKey, Usable
  <2>3. IsPath(r, at)
    <3>1. IsPath(r, cur) /\ key \in Nat
      BY <1>6, <2>1, <2>2, RelationAssumption
    <3> QED
      BY <1>4, <2>1, <3>1, GoToKey
  <2>4. IsPath(r, atEntry(r, at))
    BY <1>4, <2>3, AtEntryStays
  <2>5. there = atEntry(r, at) \/ there = at
    BY <2>1 DEF afterMoveToKey
  <2> QED
    BY <1>7, <2>2, <2>3, <2>4, <2>5
<1>12. ASSUME NEW c \in Cursors, RL_MoveToFirst(c) PROVE Inv'
  <2>1. PICK cur, at : cur = cursor[c] /\ at = moveToFirst(r, r.root, cur, 0)
    OBVIOUS
  <2>2. cursor' = [cursor EXCEPT ![c] = at] /\ rel' = rel /\ synced' \subseteq synced \cup {c} /\ cur # NULL
    <3>1. cursor \in [Cursors -> CursorType(DOMAIN rel.node) \cup {NULL}]
      BY DEF Inv, StateInv
    <3>2. PICK T : cursor \in [Cursors -> T]
      BY <3>1
    <3> QED
      BY <1>1, <1>12, <2>1, <3>2 DEF RL_MoveToFirst, Open
  <2>3. IsPath(r, at)
    BY <1>2, <1>5, <2>1, <2>2, FromRoot
  <2>4. IsPath(rel, at)
    BY <1>1, <2>3
  <2> QED
    BY <2>2, <2>4, OneMoves
<1>13. ASSUME NEW c \in Cursors, RL_MoveToNext(c) \/ RL_MoveToPrevious(c) \/ RL_GetRecord(c) PROVE Inv'
  <2>1. PICK cur : cur = cursor[c]
    OBVIOUS
  <2>2. c \in synced /\ \/ MoveCursor(c, afterNext(r, cur))
                        \/ MoveCursor(c, afterPrevious(r, cur))
                        \/ MoveCursor(c, atEntry(r, cur))
    BY <1>1, <1>13, <2>1 DEF RL_MoveToNext, RL_MoveToPrevious, RL_GetRecord, Usable
  <2>3. IsPath(r, cur)
    BY <1>6, <2>1, <2>2
  <2>4. IsPath(r, atEntry(r, cur)) /\ IsPath(r, afterNext(r, cur)) /\ IsPath(r, afterPrevious(r, cur))
    BY <1>4, <2>3, AtEntryStays
  <2> QED
    BY <1>7, <2>2, <2>4
<1>14. CASE RL_DeleteRelation \/ UNCHANGED vars
  <2>1. rel' = rel /\ cursor' = cursor /\ synced' = synced
    BY <1>14 DEF RL_DeleteRelation, vars
  <2> QED
    BY <2>1 DEF Inv
<1> QED
  BY <1>8, <1>9, <1>10, <1>11, <1>12, <1>13, <1>14 DEF Next


-----------------------------------------------------------------------------
(* What a state that satisfies the invariant shows. *)

LEMMA HasTypes == ASSUME Inv PROVE TypeOK
<1>1. RelInv(rel) /\ rel.depth \in Levels
  BY DEF Inv, StateInv
<1>2. rel.root \in DOMAIN rel.node
  BY <1>1 DEF RelInv, Whole, Tree
<1>3. rel.numRecords \in Nat
  BY <1>1, FS_CardinalityType DEF RelInv
<1>4. \A n \in DOMAIN rel.node : rel.node[n] \in BtNodes(Keys, Ptrs)
  BY <1>1 DEF RelInv, NodesTyped, Typed, PtrsOf, Ptrs
<1>5. synced \subseteq {c \in Cursors : cursor[c] # NULL}
  BY DEF Inv, StateInv
<1>6. ASSUME NEW c \in Cursors, cursor[c] # NULL
      PROVE  /\ cursor[c].level \in Levels /\ cursor[c].ancestors \in [Levels -> DOMAIN rel.node \cup {NULL}]
             /\ cursor[c].ancestorsIdx \in [Levels -> -1 .. FANOUT]
  BY <1>6 DEF Inv, StateInv, CursorType
<1> QED
  BY <1>1, <1>2, <1>3, <1>4, <1>5, <1>6 DEF TypeOK

LEMMA IsHalfFull == ASSUME Inv PROVE NodeOccupancy
BY DEF Inv, StateInv, RelInv, HalfFull, NodeOccupancy

LEMMA HasPaths == ASSUME Inv PROVE CursorPath
<1> SUFFICES ASSUME NEW c \in synced, NEW cur, cur = cursor[c]
             PROVE  /\ cur.level = rel.depth
                    /\ cur.ancestors[0] = rel.root
                    /\ \A l \in 1 .. cur.level :
                          /\ cur.ancestorsIdx[l - 1] < rel.node[cur.ancestors[l - 1]].numKeys
                          /\ cur.ancestors[l] =
                                Child(rel.node[cur.ancestors[l - 1]], cur.ancestorsIdx[l - 1])
                    /\ entryIndex(cur) \in 0 .. currNode(rel, cur).numKeys
  BY DEF CursorPath
<1>1. IsPath(rel, cur) /\ rel.depth \in Levels /\ RelInv(rel)
  BY DEF Inv, StateInv
<1>2. PICK anc, ix, d : anc = cur.ancestors /\ ix = cur.ancestorsIdx /\ d = rel.depth
  OBVIOUS
<1>3. /\ cur.level = d /\ anc[0] = rel.root /\ ix[d] \in 0 .. rel.node[anc[d]].numKeys
      /\ \A l \in 0 .. d - 1 : /\ ix[l] \in Kids(rel.node[anc[l]])
                               /\ anc[l + 1] = Child(rel.node[anc[l]], ix[l])
  BY <1>1, <1>2 DEF IsPath, Links
<1>4. d \in Nat
  BY <1>1, <1>2, LevelsAre
<1>5. PICK reg, lev : Whole(rel.node, rel.root, rel.depth, reg, lev)
  BY <1>1 DEF RelInv
<1>6. \A l \in 0 .. d : anc[l] \in DOMAIN rel.node
  <2>1. Sound(rel, reg, lev) /\ Links(rel, anc, ix, d)
    BY <1>1, <1>2, <1>5, RelSound DEF IsPath
  <2>2. d \in 0 .. rel.depth
    BY <1>2, <1>4
  <2>3. Along(rel, reg, lev, anc, ix, d)
    BY <1>5, <2>1, <2>2, Followed
  <2> QED
    BY <2>3 DEF Along
<1>7. ASSUME NEW l \in 1 .. d
      PROVE  ix[l - 1] < rel.node[anc[l - 1]].numKeys /\ anc[l] = Child(rel.node[anc[l - 1]], ix[l - 1])
  <2>1. l - 1 \in 0 .. d - 1 /\ l - 1 \in 0 .. d /\ (l - 1) + 1 = l
    BY <1>4
  <2>2. PICK nd, i : nd = rel.node[anc[l - 1]] /\ i = ix[l - 1]
    OBVIOUS
  <2>3. i \in Kids(nd) /\ anc[l] = Child(nd, i)
    <3>1. PICK j : j = l - 1
      OBVIOUS
    <3>2. ix[j] \in Kids(rel.node[anc[j]]) /\ anc[j + 1] = Child(rel.node[anc[j]], ix[j]) /\ j + 1 = l
      BY <1>3, <2>1, <3>1
    <3> QED
      BY <2>2, <3>1, <3>2
  <2>4. nd.numKeys \in Int
    <3>1. \A m \in DOMAIN rel.node : rel.node[m].numKeys \in Nat
      BY <1>5 DEF Whole, Tree, NodeRight, HasKeys
    <3>2. PICK j \in 0 .. d : j = l - 1
      BY <2>1
    <3>3. anc[j] \in DOMAIN rel.node
      BY <1>6, <3>2
    <3>4. nd.numKeys \in Nat
      BY <2>2, <3>1, <3>2, <3>3
    <3> QED
      BY <3>4
  <2>5. i < nd.numKeys
    <3>1. i \in -1 .. nd.numKeys - 1
      BY <2>3 DEF Kids
    <3> QED
      BY <2>4, <3>1
  <2> QED
    BY <2>2, <2>3, <2>5
<1>8. entryIndex(cur) = ix[d] /\ currNode(rel, cur) = rel.node[anc[d]]
  BY <1>2, <1>3 DEF entryIndex, currNode
<1> QED
  BY <1>2, <1>3, <1>7, <1>8


LEMMA OneParent ==
    ASSUME NEW node, NEW root, NEW depth, NEW reg, NEW lev, Whole(node, root, depth, reg, lev),
           NEW m \in DOMAIN node, NEW n \in DOMAIN node, ~node[m].isLeaf, ~node[n].isLeaf,
           NEW i \in Kids(node[m]), NEW j \in Kids(node[n]), Child(node[m], i) = Child(node[n], j)
    PROVE  m = n /\ i = j
<1>1. PICK c : c = Child(node[m], i) /\ c = Child(node[n], j)
  OBVIOUS
<1>2. /\ c \in DOMAIN node
      /\ lev[c] = lev[m] + 1 /\ reg[c] = Piece(node[m], reg[m], i)
      /\ lev[c] = lev[n] + 1 /\ reg[c] = Piece(node[n], reg[n], j)
  BY <1>1 DEF Whole, Tree, Parts
<1>3. lev[m] \in 0 .. depth /\ lev[n] \in 0 .. depth /\ reg[c] \subseteq Int /\ reg[c] # {} /\ depth \in Nat
  BY <1>2 DEF Whole, Tree, Placed
<1>4. lev[m] = lev[n]
  BY <1>2, <1>3
<1>5. PICK k \in Int : k \in reg[c]
  BY <1>3
<1>6. Tree(node, root, depth, reg, lev, reg, {root})
  BY DEF Whole
<1>7. k \in Piece(node[m], reg[m], i) /\ k \in Piece(node[n], reg[n], j)
  BY <1>2, <1>5
<1> QED
  BY <1>4, <1>6, <1>7, OneSlot

LEMMA ChildrenAre ==
    ASSUME NEW nd, nd.numKeys \in Nat
    PROVE  /\ nd.isLeaf => Range(Children(nd)) = {}
           /\ ~nd.isLeaf => /\ DOMAIN Children(nd) = 1 .. nd.numKeys + 1
                            /\ \A i \in 1 .. nd.numKeys + 1 : i - 2 \in Kids(nd) /\ Children(nd)[i] = Child(nd, i - 2)
<1>1. ASSUME nd.isLeaf PROVE Range(Children(nd)) = {}
  <2>1. Children(nd) = << >>
    BY <1>1 DEF Children
  <2>2. DOMAIN Children(nd) = {}
    BY <2>1
  <2> QED
    BY <2>2 DEF Range
<1>2. ASSUME ~nd.isLeaf
      PROVE  /\ DOMAIN Children(nd) = 1 .. nd.numKeys + 1
             /\ \A i \in 1 .. nd.numKeys + 1 : i - 2 \in Kids(nd) /\ Children(nd)[i] = Child(nd, i - 2)
  <2>1. Children(nd) = [i \in 1 .. nd.numKeys + 1 |-> Child(nd, i - 2)]
    BY <1>2 DEF Children
  <2>2. \A i \in 1 .. nd.numKeys + 1 : i - 2 \in Kids(nd)
    BY DEF Kids
  <2> QED
    BY <2>1, <2>2
<1> QED
  BY <1>1, <1>2

IsChildOf(nd, i, x) == i \in Kids(nd) /\ Child(nd, i) = x /\ ~nd.isLeaf

LEMMA ChildrenHave ==
    ASSUME NEW nd, nd.numKeys \in Nat, NEW x
    PROVE  x \in Range(Children(nd)) <=> \E i \in Int : IsChildOf(nd, i, x)
<1>1. ASSUME x \in Range(Children(nd)) PROVE \E i \in Int : IsChildOf(nd, i, x)
  <2>1. ~nd.isLeaf
    BY <1>1, ChildrenAre
  <2>2. PICK i \in DOMAIN Children(nd) : x = Children(nd)[i]
    BY <1>1 DEF Range
  <2>3. i \in 1 .. nd.numKeys + 1 /\ i - 2 \in Kids(nd) /\ x = Child(nd, i - 2)
    BY <2>1, <2>2, ChildrenAre
  <2>4. i - 2 \in Int
    BY <2>3
  <2> QED
    BY <2>1, <2>3, <2>4 DEF IsChildOf
<1>2. ASSUME NEW i \in Int, IsChildOf(nd, i, x) PROVE x \in Range(Children(nd))
  <2>1. i \in -1 .. nd.numKeys - 1 /\ Child(nd, i) = x /\ ~nd.isLeaf
    BY <1>2 DEF IsChildOf, Kids
  <2>2. PICK j : j = i + 2
    OBVIOUS
  <2>3. j \in 1 .. nd.numKeys + 1 /\ j - 2 = i
    BY <2>1, <2>2
  <2>4. j \in DOMAIN Children(nd) /\ Children(nd)[j] = Child(nd, j - 2)
    BY <2>1, <2>3, ChildrenAre
  <2> QED
    BY <2>1, <2>3, <2>4 DEF Range
<1> QED
  BY <1>1, <1>2

ChildrenApart(node, n) ==
    /\ IsInjective(Children(node[n]))
    /\ \A m \in DOMAIN node : m # n => Range(Children(node[m])) \cap Range(Children(node[n])) = {}

LEMMA Apart ==
    ASSUME NEW node, NEW root, NEW depth, NEW reg, NEW lev, Whole(node, root, depth, reg, lev),
           NEW n \in DOMAIN node
    PROVE  /\ ChildrenApart(node, n)
           /\ n # root => \E m \in DOMAIN node : n \in Range(Children(node[m]))
<1>1. \A m \in DOMAIN node : node[m].numKeys \in Nat
  BY DEF Whole, Tree, NodeRight, HasKeys
<1>2. IsInjective(Children(node[n]))
  <2>1. CASE node[n].isLeaf
    <3>1. Children(node[n]) = << >>
      BY <2>1 DEF Children
    <3>2. PICK f : f = Children(node[n])
      OBVIOUS
    <3>3. DOMAIN f = {}
      BY <3>1, <3>2
    <3>4. \A a, b \in DOMAIN f : f[a] = f[b] => a = b
      BY <3>3
    <3> QED
      BY <3>2, <3>4 DEF IsInjective
  <2>2. CASE ~node[n].isLeaf
    <3>1. PICK f, K : f = Children(node[n]) /\ K = node[n].numKeys /\ K \in Nat
      BY <1>1
    <3>2. DOMAIN f = 1 .. K + 1 /\ \A i \in 1 .. K + 1 : i - 2 \in Kids(node[n]) /\ f[i] = Child(node[n], i - 2)
      BY <1>1, <2>2, <3>1, ChildrenAre
    <3>3. ASSUME NEW a \in 1 .. K + 1, NEW b \in 1 .. K + 1, f[a] = f[b] PROVE a = b
      <4>1. PICK i, j : i = a - 2 /\ j = b - 2
        OBVIOUS
      <4>2. i \in Kids(node[n]) /\ j \in Kids(node[n]) /\ Child(node[n], i) = Child(node[n], j)
        BY <3>2, <3>3, <4>1
      <4>3. i = j
        BY <2>2, <4>2, OneParent
      <4> QED
        BY <4>1, <4>3
    <3> QED
      BY <3>1, <3>2, <3>3 DEF IsInjective
  <2> QED
    BY <2>1, <2>2
<1>3. ASSUME NEW m \in DOMAIN node, m # n, NEW x, x \in Range(Children(node[m])), x \in Range(Children(node[n]))
      PROVE  FALSE
  <2>1. PICK i \in Int : IsChildOf(node[m], i, x)
    BY <1>1, <1>3, ChildrenHave
  <2>2. PICK j \in Int : IsChildOf(node[n], j, x)
    BY <1>1, <1>3, ChildrenHave
  <2>3. /\ ~node[m].isLeaf /\ ~node[n].isLeaf /\ i \in Kids(node[m]) /\ j \in Kids(node[n])
        /\ Child(node[m], i) = Child(node[n], j)
    BY <2>1, <2>2 DEF IsChildOf
  <2>4. m = n
    BY <2>3, OneParent
  <2> QED
    BY <1>3, <2>4
<1>4. ASSUME n # root PROVE \E m \in DOMAIN node : n \in Range(Children(node[m]))
  <2>1. PICK m \in DOMAIN node : IsChild(node, m, n)
    BY <1>4 DEF Whole, Tree
  <2>2. PICK i \in Kids(node[m]) : Child(node[m], i) = n /\ ~node[m].isLeaf
    BY <2>1 DEF IsChild
  <2>3. i \in Int
    <3>1. node[m].numKeys \in Nat
      BY <1>1
    <3> QED
      BY <2>2, <3>1 DEF Kids
  <2>4. IsChildOf(node[m], i, n)
    BY <2>2 DEF IsChildOf
  <2> QED
    BY <1>1, <2>3, <2>4, ChildrenHave
<1> QED
  BY <1>2, <1>3, <1>4 DEF ChildrenApart


LEMMA NewCursorIs ==
    ASSUME NEW D
    PROVE  NewCursor.ancestors \in [Levels -> D \cup {NULL}] /\ NewCursor.ancestorsIdx \in [Levels -> -1 .. FANOUT]
<1>1. FANOUT \in Nat
  BY FanoutIs
<1>2. 0 \in -1 .. FANOUT
  BY <1>1
<1>3. NewCursor.ancestors = [l \in Levels |-> NULL] /\ NewCursor.ancestorsIdx = [l \in Levels |-> 0]
  BY DEF NewCursor
<1> QED
  BY <1>2, <1>3

OnTheWay(r, way, n) ==
    /\ way.level = r.depth
    /\ \E l \in 0 .. r.depth : way.ancestors[l] = n /\ (r.node[n].isLeaf <=> l = r.depth)

\* The way down to a key of any node leads through that node.
LEMMA KeysLead ==
    ASSUME NEW r, NEW reg, NEW lev, Sound(r, reg, lev), NEW n \in DOMAIN r.node, NEW k, k \in NodeKeys(r.node[n]),
           NEW c, c = NewCursor, NEW way, way = moveToKey(r, r.root, k, c, 0)
    PROVE  OnTheWay(r, way, n)
<1>1. /\ Whole(r.node, r.root, r.depth, reg, lev) /\ r.depth \in Nat /\ r.depth \in 0 .. r.depth
      /\ r.root \in DOMAIN r.node /\ reg[r.root] = Int
  BY SoundIs
<1>2. /\ lev[n] \in 0 .. r.depth /\ (r.node[n].isLeaf <=> lev[n] = r.depth)
      /\ reg[n] \subseteq Int /\ NodeKeys(r.node[n]) \subseteq reg[n]
  BY <1>1 DEF Whole, Tree, Placed
<1>3. k \in Int /\ k \in reg[n]
  BY <1>2
<1>4. PICK level, root : level = 0 /\ level \in Int /\ root = r.root
  OBVIOUS
<1>5. /\ level \in 0 .. r.depth /\ Leads(r, c, root, level) /\ k \in reg[root]
      /\ way = moveToKey(r, root, k, c, level)
  BY <1>1, <1>3, <1>4 DEF Leads
<1>6. c.ancestors \in [Levels -> DOMAIN r.node \cup {NULL}] /\ c.ancestorsIdx \in [Levels -> -1 .. FANOUT]
  BY NewCursorIs
<1>7. IsPath(r, way) /\ Comes(reg, way.ancestors, level, r.depth, k)
  BY <1>3, <1>5, <1>6, ToKey
<1>8. PICK anc, ix, l : anc = way.ancestors /\ ix = way.ancestorsIdx /\ l = lev[n] /\ l \in 0 .. r.depth
  BY <1>2
<1>9. Along(r, reg, lev, anc, ix, r.depth)
  <2>1. Links(r, anc, ix, r.depth)
    BY <1>7, <1>8 DEF IsPath
  <2> QED
    BY <1>1, <2>1, Followed
<1>10. anc[l] \in DOMAIN r.node /\ lev[anc[l]] = lev[n]
  BY <1>8, <1>9 DEF Along
<1>11. k \in reg[anc[l]]
  BY <1>4, <1>7, <1>8 DEF Comes
<1>12. anc[l] = n
  BY <1>1, <1>3, <1>10, <1>11 DEF Whole, Tree, RegionsApart
<1>13. way.level = r.depth
  BY <1>7 DEF IsPath
<1> QED
  BY <1>2, <1>8, <1>12, <1>13 DEF OnTheWay

LEMMA PathLeaf ==
    ASSUME NEW r, NEW reg, NEW lev, Sound(r, reg, lev), NEW way, IsPath(r, way),
           NEW anc, anc = way.ancestors, NEW ix, ix = way.ancestorsIdx, NEW leaf, leaf = anc[way.level]
    PROVE  /\ leaf = anc[r.depth] /\ leaf \in DOMAIN r.node /\ r.node[leaf].isLeaf /\ lev[leaf] = r.depth
           /\ Links(r, anc, ix, r.depth) /\ Along(r, reg, lev, anc, ix, r.depth) /\ anc[0] = r.root
<1>1. Whole(r.node, r.root, r.depth, reg, lev) /\ r.depth \in Nat /\ r.depth \in 0 .. r.depth
  BY SoundIs
<1>2. way.level = r.depth /\ Links(r, anc, ix, r.depth)
  BY DEF IsPath
<1>3. Along(r, reg, lev, anc, ix, r.depth)
  BY <1>1, <1>2, Followed
<1>4. leaf = anc[r.depth]
  BY <1>2
<1>5. leaf \in DOMAIN r.node /\ lev[leaf] = r.depth /\ (r.node[leaf].isLeaf <=> r.depth = r.depth)
  BY <1>1, <1>3, <1>4 DEF Along
<1> QED
  BY <1>2, <1>3, <1>4, <1>5 DEF Links

LEMMA FirstIs ==
    ASSUME NEW r, NEW reg, NEW lev, Sound(r, reg, lev), NEW n \in DOMAIN r.node,
           NEW c, c = NewCursor, NEW way, way = moveToFirst(r, r.root, c, 0),
           NEW leaf, leaf = way.ancestors[way.level]
    PROVE  r.node[n].FirstLeaf <=> n = leaf
<1>1. /\ Whole(r.node, r.root, r.depth, reg, lev) /\ r.depth \in Nat /\ r.depth \in 0 .. r.depth
      /\ r.root \in DOMAIN r.node /\ reg[r.root] = Int
  BY SoundIs
<1>2. PICK level, root : level = 0 /\ level \in Int /\ root = r.root
  OBVIOUS
<1>3. level \in 0 .. r.depth /\ Leads(r, c, root, level) /\ way = moveToFirst(r, root, c, level)
  BY <1>1, <1>2 DEF Leads
<1>4. c.ancestors \in [Levels -> DOMAIN r.node \cup {NULL}] /\ c.ancestorsIdx \in [Levels -> -1 .. FANOUT]
  BY NewCursorIs
<1>5. /\ IsPath(r, way)
      /\ \A l \in level .. r.depth : /\ way.ancestors[l] \in DOMAIN r.node
                                     /\ way.ancestorsIdx[l] = firstpointer(r.node[way.ancestors[l]])
  BY <1>3, <1>4, ToFirst
<1>6. PICK anc, ix : anc = way.ancestors /\ ix = way.ancestorsIdx
  OBVIOUS
<1>7. /\ leaf = anc[r.depth] /\ leaf \in DOMAIN r.node /\ r.node[leaf].isLeaf /\ lev[leaf] = r.depth
      /\ Links(r, anc, ix, r.depth) /\ Along(r, reg, lev, anc, ix, r.depth) /\ anc[0] = r.root
  BY <1>5, <1>6, PathLeaf
<1>8. PICK key \in Int, a \in 0 .. r.depth : key = -1 /\ a = 0
  BY <1>1
<1>9. ASSUME NEW l \in a .. r.depth - 1 PROVE Between(r.node[anc[l]], ix[l], key)
  <2>1. l \in 0 .. r.depth /\ l # r.depth /\ l \in level .. r.depth
    BY <1>1, <1>2, <1>8
  <2>2. PICK nd, i : nd = r.node[anc[l]] /\ i = ix[l]
    OBVIOUS
  <2>3. anc[l] \in DOMAIN r.node /\ ~nd.isLeaf
    BY <1>7, <2>1, <2>2 DEF Along
  <2>4. i = firstpointer(nd)
    BY <1>5, <1>6, <2>1, <2>2
  <2>5. i = -1
    BY <2>3, <2>4 DEF firstpointer
  <2>6. HasKeys(nd)
    BY <1>1, <2>2, <2>3 DEF Whole, Tree, NodeRight
  <2>7. Between(nd, i, key)
    <3>1. ASSUME i < nd.numKeys - 1 PROVE key < nd.entries[i + 1].key
      <4>1. nd.numKeys \in Nat /\ i + 1 \in 0 .. nd.numKeys - 1
        BY <2>5, <2>6, <3>1 DEF HasKeys
      <4>2. nd.entries[i + 1].key \in Nat
        BY <2>6, <4>1 DEF HasKeys
      <4> QED
        BY <1>8, <4>2
    <3> QED
      BY <2>5, <3>1 DEF Between
  <2> QED
    BY <2>2, <2>7
<1>10. Comes(reg, anc, a, r.depth, key)
  <2>1. key \in reg[anc[a]]
    BY <1>1, <1>7, <1>8
  <2> QED
    BY <1>1, <1>7, <1>9, <2>1, KeyStays
<1>11. -1 \in reg[leaf]
  <2>1. r.depth \in a .. r.depth
    BY <1>1, <1>8
  <2>2. key \in reg[anc[r.depth]]
    BY <1>10, <2>1 DEF Comes
  <2> QED
    BY <1>7, <1>8, <2>2
<1>12. \A m \in DOMAIN r.node : r.node[m].FirstLeaf <=> r.node[m].isLeaf /\ -1 \in reg[m]
  BY <1>1 DEF Whole, Tree, Placed
<1>13. ASSUME r.node[n].FirstLeaf PROVE n = leaf
  <2>1. r.node[n].isLeaf /\ -1 \in reg[n]
    BY <1>12, <1>13
  <2>2. lev[n] = r.depth
    BY <1>1, <2>1 DEF Whole, Tree, Placed
  <2>3. reg[n] \cap reg[leaf] # {}
    BY <1>11, <2>1
  <2>4. RegionsApart(DOMAIN r.node, reg, lev)
    BY <1>1 DEF Whole, Tree
  <2> QED
    BY <1>7, <2>2, <2>3, <2>4 DEF RegionsApart
<1>14. r.node[leaf].FirstLeaf
  BY <1>7, <1>11, <1>12
<1> QED
  BY <1>13, <1>14


LEMMA LastIs ==
    ASSUME NEW r, NEW reg, NEW lev, Sound(r, reg, lev), NEW n \in DOMAIN r.node,
           NEW c, c = NewCursor, NEW idx, idx = [m \in DOMAIN r.node |-> lastpointer(r.node[m])],
           NEW way, way = descend(r, r.root, c, 0, idx), NEW leaf, leaf = way.ancestors[way.level]
    PROVE  r.node[n].LastLeaf <=> n = leaf
<1>1. /\ Whole(r.node, r.root, r.depth, reg, lev) /\ r.depth \in Nat /\ r.depth \in 0 .. r.depth
      /\ r.root \in DOMAIN r.node /\ reg[r.root] = Int
  BY SoundIs
<1>2. PICK level, root : level = 0 /\ level \in Int /\ root = r.root
  OBVIOUS
<1>3. level \in 0 .. r.depth /\ Leads(r, c, root, level) /\ way = descend(r, root, c, level, idx)
  BY <1>1, <1>2 DEF Leads
<1>4. c.ancestors \in [Levels -> DOMAIN r.node \cup {NULL}] /\ c.ancestorsIdx \in [Levels -> -1 .. FANOUT]
  BY NewCursorIs
<1>5. Within(r.node, idx)
  BY LastPointers
<1>6. Descended(r, root, c, level, idx, way) /\ IsPath(r, way)
  BY <1>3, <1>4, <1>5, WalkIs
<1>7. PICK anc, ix : anc = way.ancestors /\ ix = way.ancestorsIdx
  OBVIOUS
<1>8. /\ leaf = anc[r.depth] /\ leaf \in DOMAIN r.node /\ r.node[leaf].isLeaf /\ lev[leaf] = r.depth
      /\ Links(r, anc, ix, r.depth) /\ Along(r, reg, lev, anc, ix, r.depth) /\ anc[0] = r.root
  BY <1>6, <1>7, PathLeaf
<1>9. ASSUME NEW l \in 0 .. r.depth - 1 PROVE ix[l] = r.node[anc[l]].numKeys - 1
  <2>1. l \in 0 .. r.depth /\ l # r.depth /\ l \in level .. r.depth
    BY <1>1, <1>2
  <2>2. anc[l] \in DOMAIN r.node /\ ~r.node[anc[l]].isLeaf
    BY <1>8, <2>1 DEF Along
  <2>3. ix[l] = idx[anc[l]]
    BY <1>6, <1>7, <2>1 DEF Descended
  <2>4. ix[l] = lastpointer(r.node[anc[l]])
    BY <2>2, <2>3
  <2> QED
    BY <2>2, <2>4 DEF lastpointer
<1>10. UpClosed(reg[leaf])
  <2>1. UpClosed(reg[anc[r.depth]])
    BY <1>1, <1>8, <1>9, LastStays
  <2> QED
    BY <1>8, <2>1
<1>11. \A m \in DOMAIN r.node : r.node[m].LastLeaf <=> r.node[m].isLeaf /\ UpClosed(reg[m])
  BY <1>1 DEF Whole, Tree, Placed
<1>12. ASSUME r.node[n].LastLeaf PROVE n = leaf
  <2>1. r.node[n].isLeaf /\ UpClosed(reg[n])
    BY <1>11, <1>12
  <2>2. lev[n] = r.depth
    BY <1>1, <2>1 DEF Whole, Tree, Placed
  <2>3. reg[n] \cap reg[leaf] # {}
    <3>1. reg[n] \subseteq Int /\ reg[n] # {} /\ reg[leaf] \subseteq Int /\ reg[leaf] # {}
      BY <1>1, <1>8 DEF Whole, Tree, Placed
    <3>2. PICK a \in Int, b \in Int : a \in reg[n] /\ b \in reg[leaf]
      BY <3>1
    <3>3. a <= b => b \in reg[n]
      BY <2>1, <3>2 DEF UpClosed
    <3>4. b <= a => a \in reg[leaf]
      BY <1>10, <3>2 DEF UpClosed
    <3>5. a <= b \/ b <= a
      BY <3>2
    <3> QED
      BY <3>2, <3>3, <3>4, <3>5
  <2>4. RegionsApart(DOMAIN r.node, reg, lev)
    BY <1>1 DEF Whole, Tree
  <2> QED
    BY <1>8, <2>2, <2>3, <2>4 DEF RegionsApart
<1>13. r.node[leaf].LastLeaf
  BY <1>8, <1>10, <1>11
<1> QED
  BY <1>12, <1>13

LEMMA MapKeys == ASSUME NEW r PROVE DOMAIN MapOf(r) = LeafKeys(r.node)
<1>1. DOMAIN MapOf(r) = {e.key : e \in Held(r)}
  BY DEF MapOf
<1>2. {e.key : e \in Held(r)} \subseteq LeafKeys(r.node)
  BY DEF Held, LeafKeys, LeafEntries, NodeEntries
<1>3. LeafKeys(r.node) \subseteq {e.key : e \in Held(r)}
  BY DEF Held, LeafKeys, LeafEntries, NodeEntries
<1> QED
  BY <1>1, <1>2, <1>3

LEMMA IsSearchTree == ASSUME Inv PROVE SearchTree
<1>1. RelInv(rel) /\ rel.depth \in Levels
  BY DEF Inv, StateInv
<1>2. PICK reg, lev : Whole(rel.node, rel.root, rel.depth, reg, lev)
  BY <1>1 DEF RelInv
<1>3. Sound(rel, reg, lev)
  BY <1>1, <1>2, RelSound
<1>4. rel.numRecords = Cardinality(DOMAIN MapOf(rel))
  BY <1>1, MapKeys DEF RelInv
<1>5. PICK r, c, idx : /\ r = rel /\ c = NewCursor
                       /\ idx = [n \in DOMAIN r.node |-> lastpointer(r.node[n])]
  OBVIOUS
<1>6. Sound(r, reg, lev) /\ Whole(r.node, r.root, r.depth, reg, lev)
  BY <1>2, <1>3, <1>5
<1>7. ASSUME NEW n \in DOMAIN r.node
      PROVE  /\ Sorted(rel.node[n])
             /\ n # rel.root => /\ rel.node[n].numKeys > 0
                                /\ \E m \in DOMAIN rel.node : n \in Range(Children(rel.node[m]))
             /\ IsInjective(Children(rel.node[n]))
             /\ \A m \in DOMAIN rel.node : m # n =>
                   Range(Children(rel.node[m])) \cap Range(Children(rel.node[n])) = {}
             /\ \A k \in NodeKeys(rel.node[n]) :
                   LET way == WayTo(k)
                   IN  /\ way.level = rel.depth
                       /\ \E l \in 0 .. rel.depth :
                             way.ancestors[l] = n /\ (rel.node[n].isLeaf <=> l = rel.depth)
             /\ rel.node[n].FirstLeaf <=> n = WayToFirst.ancestors[WayToFirst.level]
             /\ rel.node[n].LastLeaf <=> n = WayToLast.ancestors[WayToLast.level]
  <2>1. Sorted(rel.node[n])
    BY <1>5, <1>6 DEF Whole, Tree, NodeRight
  <2>2. n # rel.root => rel.node[n].numKeys > 0
    <3>1. r.node[n].numKeys \in 0 .. FANOUT /\ (n # r.root => r.node[n].numKeys >= 1)
      BY <1>6 DEF Sound
    <3> QED
      BY <1>5, <3>1
  <2>3. ChildrenApart(r.node, n) /\ (n # r.root => \E m \in DOMAIN r.node : n \in Range(Children(r.node[m])))
    BY <1>6, Apart
  <2>4. /\ IsInjective(Children(rel.node[n]))
        /\ \A m \in DOMAIN rel.node : m # n => Range(Children(rel.node[m])) \cap Range(Children(rel.node[n])) = {}
        /\ n # rel.root => \E m \in DOMAIN rel.node : n \in Range(Children(rel.node[m]))
    BY <1>5, <2>3 DEF ChildrenApart
  <2>5. ASSUME NEW k \in NodeKeys(rel.node[n])
        PROVE  /\ WayTo(k).level = rel.depth
               /\ \E l \in 0 .. rel.depth :
                     WayTo(k).ancestors[l] = n /\ (rel.node[n].isLeaf <=> l = rel.depth)
    <3>1. PICK way : way = moveToKey(r, r.root, k, c, 0)
      OBVIOUS
    <3>2. way = WayTo(k) /\ k \in NodeKeys(r.node[n])
      BY <1>5, <3>1 DEF WayTo
    <3>3. OnTheWay(r, way, n)
      BY <1>5, <1>6, <3>1, <3>2, KeysLead
    <3> QED
      BY <1>5, <3>2, <3>3 DEF OnTheWay
  <2>6. rel.node[n].FirstLeaf <=> n = WayToFirst.ancestors[WayToFirst.level]
    <3>1. PICK way, leaf : way = moveToFirst(r, r.root, c, 0) /\ leaf = way.ancestors[way.level]
      OBVIOUS
    <3>2. way = WayToFirst
      BY <1>5, <3>1 DEF WayToFirst
    <3>3. r.node[n].FirstLeaf <=> n = leaf
      BY <1>5, <1>6, <3>1, FirstIs
    <3> QED
      BY <1>5, <3>1, <3>2, <3>3
  <2>7. rel.node[n].LastLeaf <=> n = WayToLast.ancestors[WayToLast.level]
    <3>1. PICK way, leaf : way = descend(r, r.root, c, 0, idx) /\ leaf = way.ancestors[way.level]
      OBVIOUS
    <3>2. way = WayToLast
      BY <1>5, <3>1 DEF WayToLast
    <3>3. r.node[n].LastLeaf <=> n = leaf
      BY <1>5, <1>6, <3>1, LastIs
    <3> QED
      BY <1>5, <3>1, <3>2, <3>3
  <2> QED
    BY <2>1, <2>2, <2>4, <2>5, <2>6, <2>7
<1> QED
  BY <1>4, <1>5, <1>7 DEF SearchTree

-----------------------------------------------------------------------------
(* The theorems. *)

\* The invariant under the others: the nodes partition the keys into regions, level by level, as
\* the splits of putEntry divide them, and each cursor that the client may use is a path in the tree.
THEOREM RelationInvariance == Spec => []Inv
<1>1. Init => Inv
  BY Initially
<1>2. Inv /\ [Next]_vars => Inv'
  BY Step
<1> QED
  BY <1>1, <1>2, PTL DEF Spec

\* The relation, its nodes and its cursors keep the types of the structs of relation_mem.c, for
\* every FANOUT, every set of keys and every sequence of calls.
THEOREM RelationTypes == Spec => []TypeOK
<1>1. Inv => TypeOK
  BY HasTypes
<1> QED
  BY <1>1, RelationInvariance, PTL

\* relation_mem.c:66-133, :599-667.  However many splits have nested, in whatever order the keys
\* came, the tree is a search tree of equal depth that holds numRecords keys, and every node
\* allocated is in it once.
THEOREM StaysOrdered == Spec => []SearchTree
<1>1. Inv => SearchTree
  BY IsSearchTree
<1> QED
  BY <1>1, RelationInvariance, PTL

\* relation_mem.c:1199-1206.  splitnode leaves both halves of a node half full, and no other step
\* of a put takes a key out of a node.
THEOREM StaysHalfFull == Spec => []NodeOccupancy
<1>1. Inv => NodeOccupancy
  BY IsHalfFull
<1> QED
  BY <1>1, RelationInvariance, PTL

\* relation_mem.c:1100-1206.  The short climbs and descents of RL_MoveToKey, RL_MoveToNext,
\* RL_MoveToPrevious and RL_PutRecord leave the cursor on one path from the root to a leaf.
THEOREM PathsStay == Spec => []CursorPath
<1>1. Inv => CursorPath
  BY HasPaths
<1> QED
  BY <1>1, RelationInvariance, PTL

=============================================================================
