------------------------------- MODULE BtNode -------------------------------
(***************************************************************************)
(* The nodes of a B+ tree and the four functions of relation_mem.c that    *)
(* work on one node alone: the two searches, the shift that makes room for *)
(* an entry, and splitnode.  A node's entries are the C array: slots from  *)
(* numKeys on keep whatever was stored there before, or Unset.             *)
(*                                                                         *)
(* Nothing here is recursive, so that RelationProofs can prove about it.   *)
(* Where a definition has a twin named with a suffix, such as              *)
(* middle_AllButLast, the twin is a plausible mistake that a property of   *)
(* some run must notice.                                                   *)
(***************************************************************************)
EXTENDS Integers, FiniteSets

CONSTANTS FANOUT,  \* entries per node (util.h: 15)
          NULL,    \* the null pointer
          Unset    \* an array slot nothing was stored in

ASSUME FanoutAssumption == FANOUT \in Nat /\ FANOUT >= 2

Slots == 0 .. FANOUT - 1

Entry(Keys, Ptrs) == [key : Keys, ptr : Ptrs]

BtNodes(Keys, Ptrs) ==
    [isLeaf : BOOLEAN, FirstLeaf : BOOLEAN, LastLeaf : BOOLEAN,
     numKeys : 0 .. FANOUT, ptr0 : Ptrs \cup {NULL},
     entries : [Slots -> Entry(Keys, Ptrs) \cup {Unset}]]

createNewNode(isLeaf, FirstLeaf, LastLeaf) ==
    [isLeaf |-> isLeaf, FirstLeaf |-> FirstLeaf, LastLeaf |-> LastLeaf,
     numKeys |-> 0, ptr0 |-> NULL, entries |-> [i \in Slots |-> Unset]]

\* The keys in use in a node, and whether they increase strictly.
NodeKeys(n) == {n.entries[i].key : i \in 0 .. n.numKeys - 1}
Sorted(n)   == \A i, j \in 0 .. n.numKeys - 1 :
                   i < j => n.entries[i].key < n.entries[j].key

-----------------------------------------------------------------------------
(* Searching one node. *)

\* The first index whose key is not below the search key, numKeys if none.
findRecordIndex(n, key) ==
    CHOOSE i \in 0 .. n.numKeys :
        /\ \A j \in 0 .. i - 1 : n.entries[j].key < key
        /\ i < n.numKeys => key <= n.entries[i].key

\* The last index whose key is not above the search key, -1 if none.
findChildIndex(n, key) ==
    CHOOSE i \in -1 .. n.numKeys - 1 :
        /\ i # -1 => n.entries[i].key <= key
        /\ i < n.numKeys - 1 => key < n.entries[i + 1].key

\* Pointer number i of an intern node.  entries[-1].ptr is the word just before
\* the array, which is ptr0: moveToPrev reads it that way.
Child(n, i) == IF i = -1 THEN n.ptr0 ELSE n.entries[i].ptr

-----------------------------------------------------------------------------
(* Adding an entry to a node that has room, at a given index. *)
insertAt(n, tgtIdx, e) ==
    [n EXCEPT !.numKeys = @ + 1,
              !.entries = [i \in Slots |->
                  CASE i < tgtIdx \/ i > n.numKeys -> n.entries[i]
                    [] i = tgtIdx                  -> e
                    [] OTHER                       -> n.entries[i - 1]]]

-----------------------------------------------------------------------------
(* Splitting a full node around a new entry. *)

middle_AllButLast == FANOUT
middle == (FANOUT + 1) \div 2

\* The FANOUT + 1 entries, the new one in its place.
allEntries(n, e) ==
    LET tgtIdx == findRecordIndex(n, e.key)
    IN  [i \in 0 .. FANOUT |->
            CASE i < tgtIdx -> n.entries[i]
              [] i = tgtIdx -> e
              [] OTHER      -> n.entries[i - 1]]

\* A leaf's middle entry starts the second node; an intern node's is pushed up.
startIdx_LeafPushesUp(isLeaf) == middle + 1
startIdx(isLeaf) == IF isLeaf THEN middle ELSE middle + 1

\* The first node keeps its FirstLeaf, and gives up its LastLeaf to the second.
splitLeft_KeepsLastLeaf(n, e) ==
    [n EXCEPT !.numKeys = middle,
              !.entries = [i \in Slots |-> IF i < middle THEN allEntries(n, e)[i]
                                                         ELSE n.entries[i]]]
splitLeft(n, e) ==
    [n EXCEPT !.numKeys  = middle,
              !.LastLeaf = FALSE,
              !.entries  = [i \in Slots |-> IF i < middle THEN allEntries(n, e)[i]
                                                          ELSE n.entries[i]]]

splitRight(n, e) ==
    LET start == startIdx(n.isLeaf)
    IN  [createNewNode(n.isLeaf, FALSE, n.LastLeaf) EXCEPT
            !.numKeys = FANOUT + 1 - start,
            !.entries = [i \in Slots |-> IF i < FANOUT + 1 - start
                                         THEN allEntries(n, e)[start + i]
                                         ELSE Unset],
            !.ptr0    = IF n.isLeaf THEN NULL ELSE allEntries(n, e)[start - 1].ptr]

\* The key that separates the two halves in the parent.
splitKey(n, e) ==
    LET start == startIdx(n.isLeaf)
    IN  allEntries(n, e)[IF n.isLeaf THEN start ELSE start - 1].key

=============================================================================
