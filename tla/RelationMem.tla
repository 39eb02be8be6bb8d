---------------------------- MODULE RelationMem -----------------------------
(***************************************************************************)
(* The relation library of relation_mem.c: a B+ tree and the cursors into  *)
(* it.  The program is sequential, so a call of the API is one action.     *)
(*                                                                         *)
(* A cursor is a path of nodes and indices from the root to a leaf.  A     *)
(* call of RL_PutRecord repairs the path of the cursor it goes through and *)
(* no other ("TODO notify cursors on update", relation_mem.c:1214), so     *)
(* "synced" records, for the client, which cursors have looked at the      *)
(* tree since another one changed it: the client calls RL_MoveToFirst on a *)
(* cursor that is behind before it uses it for anything else.              *)
(***************************************************************************)
EXTENDS BtNode, SequencesExt

CONSTANTS Keys,            \* the keys the client puts, natural numbers
          Records,         \* the records it puts
          Cursors,         \* names for its cursors
          MAX_TREE_DEPTH   \* length of a cursor's arrays (util.h: 20)

Levels == 0 .. MAX_TREE_DEPTH - 1

ASSUME RelationAssumption ==
    /\ Keys \subseteq Nat
    /\ MAX_TREE_DEPTH \in Nat \ {0}
    /\ NULL \notin [level : Int, ancestors : [Levels -> Nat \cup {NULL}],
                    ancestorsIdx : [Levels -> Int]]

VARIABLES rel,     \* [root, numRecords, depth] and the nodes allocated, by id
          cursor,  \* the cursors, NULL if not allocated
          synced,  \* the cursors no other one's put has overtaken
          freed    \* what RL_DeleteRelation freed: records and nodes; NULL before it

vars == <<rel, cursor, synced, freed>>

-----------------------------------------------------------------------------
(* Reading a cursor. *)

entryIndex(c)  == c.ancestorsIdx[c.level]
currNode(r, c) == r.node[c.ancestors[c.level]]
isValid(r, c)  == ~(entryIndex(c) = currNode(r, c).numKeys /\ currNode(r, c).LastLeaf)
isFirst(r, c)  == entryIndex(c) = 0 /\ currNode(r, c).FirstLeaf

lastpointer(n)  == IF n.isLeaf THEN n.numKeys ELSE n.numKeys - 1
firstpointer(n) == IF n.isLeaf THEN 0 ELSE -1

-----------------------------------------------------------------------------
(* Walking down.  moveToKey and moveToFirst call themselves once for each    *)
(* level; here the levels are the domain of a function.                      *)

\* The nodes on the way down from n, which is at "level", with index idx[m] chosen in
\* each intern node m.  The way ends at a leaf.
wayDown(r, n, level, idx) ==
    LET way[l \in Levels] ==
            IF l <= level THEN n
            ELSE LET m == way[l - 1]
                 IN  IF r.node[m].isLeaf THEN m ELSE Child(r.node[m], idx[m])
    IN  way

\* The level of the leaf is the cursor's from then on.
descend(r, n, c, level, idx) ==
    LET way  == wayDown(r, n, level, idx)
        leaf == CHOOSE l \in Levels : /\ level <= l /\ r.node[way[l]].isLeaf
                                      /\ l # level => ~r.node[way[l - 1]].isLeaf
    IN  [level        |-> leaf,
         ancestors    |-> [l \in Levels |-> IF l \in level .. leaf THEN way[l]
                                            ELSE c.ancestors[l]],
         ancestorsIdx |-> [l \in Levels |-> IF l \in level .. leaf THEN idx[way[l]]
                                            ELSE c.ancestorsIdx[l]]]

moveToKey(r, n, key, c, level) ==
    descend(r, n, c, level, [m \in DOMAIN r.node |->
        IF r.node[m].isLeaf THEN findRecordIndex(r.node[m], key)
        ELSE findChildIndex(r.node[m], key)])

moveToFirst(r, n, c, level) ==
    descend(r, n, c, level, [m \in DOMAIN r.node |-> firstpointer(r.node[m])])

\* Only its first step goes to the last child: from there it walks down with
\* moveToFirst (relation_mem.c:1165).
moveToLast(r, n, c, level) ==
    LET last == lastpointer(r.node[n])
        at   == [c EXCEPT !.level = level, !.ancestors[level] = n, !.ancestorsIdx[level] = last]
    IN  IF r.node[n].isLeaf THEN at
        ELSE moveToFirst(r, Child(r.node[n], last), at, level + 1)

-----------------------------------------------------------------------------
(* Walking up. *)

\* Between two keys of an intern node, the key can be nowhere else in the tree.
isNodeParent_OnlyLower(n, key) == findChildIndex(n, key) # -1
isNodeParent(n, key) == findChildIndex(n, key) \notin {-1, n.numKeys - 1}

holdsKey(n, key) ==
    LET lowest  == n.entries[0].key
        highest == n.entries[n.numKeys - 1].key
    IN  \/ lowest <= key /\ key <= highest
        \/ lowest <= key /\ n.LastLeaf
        \/ key <= highest /\ n.FirstLeaf

\* Ascend to the lowest level that is sure to be above the key, or to the root.
AscendToParent(r, c, key) ==
    LET sure(l) == LET n == r.node[c.ancestors[l]]
                   IN  l = 0 \/ IF n.isLeaf THEN holdsKey(n, key) ELSE isNodeParent(n, key)
    IN  [c EXCEPT !.level = CHOOSE l \in 0 .. c.level :
                                sure(l) /\ \A j \in l + 1 .. c.level : ~sure(j)]

goToKey(r, c, key) ==
    LET up == AscendToParent(r, c, key)
    IN  moveToKey(r, up.ancestors[up.level], key, up, up.level)

\* Ascend while the index is at the last (or the first) pointer of its node.
AscendFrom(r, c, forward) ==
    LET atEnd(l) == LET n == r.node[c.ancestors[l]]
                    IN  c.ancestorsIdx[l] = IF forward THEN lastpointer(n) ELSE firstpointer(n)
    IN  [c EXCEPT !.level = CHOOSE l \in 0 .. c.level :
                                (l # 0 => ~atEnd(l)) /\ \A j \in l + 1 .. c.level : atEnd(j)]

moveToNext_PastEnd(r, c) ==
    LET up  == AscendFrom(r, c, TRUE)
        idx == entryIndex(up) + 1
        at  == [up EXCEPT !.ancestorsIdx[up.level] = idx]
    IN  IF r.numRecords = 0 THEN c
        ELSE IF currNode(r, up).isLeaf THEN at
        ELSE moveToFirst(r, Child(currNode(r, up), idx), at, up.level + 1)
moveToNext(r, c) ==
    IF r.numRecords = 0 \/ ~isValid(r, c) THEN c
    ELSE LET up  == AscendFrom(r, c, TRUE)
             idx == entryIndex(up) + 1
             at  == [up EXCEPT !.ancestorsIdx[up.level] = idx]
         IN  IF currNode(r, up).isLeaf THEN at
             ELSE moveToFirst(r, Child(currNode(r, up), idx), at, up.level + 1)

moveToPrev(r, c) ==
    IF r.numRecords = 0 \/ isFirst(r, c) THEN c
    ELSE LET up  == AscendFrom(r, c, FALSE)
             idx == entryIndex(up) - 1
             at  == [up EXCEPT !.ancestorsIdx[up.level] = idx]
         IN  IF currNode(r, up).isLeaf THEN at
             ELSE moveToLast(r, Child(currNode(r, up), idx), at, up.level + 1)

-----------------------------------------------------------------------------
(* The cursor that each call leaves, and what it returns. *)

\* A position past the last entry of a leaf that is not the last is the same
\* as the first of the next leaf: the calls that read normalise it.
atEntry(r, c) == IF entryIndex(c) = currNode(r, c).numKeys THEN moveToNext(r, c) ELSE c

afterNext(r, c) == moveToNext(r, atEntry(r, c))

afterPrevious_Once(r, c) == moveToPrev(r, c)
afterPrevious(r, c) ==
    moveToPrev(r, IF entryIndex(c) = 0 THEN moveToPrev(r, c) ELSE c)

afterMoveToKey(r, c, key) ==
    LET at == goToKey(r, c, key) IN IF isValid(r, at) THEN atEntry(r, at) ELSE at

\* The entry a cursor reads.  A cursor that is behind may look past numKeys, at
\* what was there before a split, or past the array.
entryAt(r, c) == IF entryIndex(c) \in Slots THEN currNode(r, c).entries[entryIndex(c)]
                                            ELSE Unset
entryRead(r, c) == entryAt(r, atEntry(r, c))

\* What RL_MoveToKey returns, with garbage taken to be no key that is sought.
foundByMoveToKey(r, c, key) ==
    LET at == afterMoveToKey(r, c, key)
    IN  isValid(r, at) /\ entryAt(r, at) # Unset /\ entryAt(r, at).key = key

-----------------------------------------------------------------------------
(* Inserting.  Both results, the relation and the cursor, change together. *)

setNode(r, n, v) == [r EXCEPT !.node[n] = v]

\* A new root over the old one and its new sibling.
newRoot(r, e) ==
    LET n    == Len(r.node) + 1
        root == [createNewNode(FALSE, FALSE, FALSE) EXCEPT
                    !.ptr0 = r.root, !.numKeys = 1, !.entries[0] = e]
    IN  [root |-> n, numRecords |-> r.numRecords + 1, depth |-> r.depth + 1,
         node |-> Append(r.node, root)]

\* An entry goes into a full node: split it around the entry.  What goes into its
\* parent is the second half.
splitFull(p, n) ==
    LET node == p.rel.node[n]
    IN  [rel |-> [p.rel EXCEPT !.node = Append([@ EXCEPT ![n] = splitLeft(node, p.e)],
                                               splitRight(node, p.e))],
         e   |-> [key |-> splitKey(node, p.e), ptr |-> Len(p.rel.node) + 1]]

\* The relation and the entry after s splits, of the leaf at "level" and of the nodes above it.
splits(r, c, level, e) ==
    LET after[s \in 0 .. level + 1] ==
            IF s = 0 THEN [rel |-> r, e |-> e]
            ELSE splitFull(after[s - 1], c.ancestors[level + 1 - s])
    IN  after

\* The lowest level that has room, -1 if none.
levelWithRoom(r, c, level) ==
    LET room(l) == r.node[c.ancestors[l]].numKeys < FANOUT
    IN  CHOOSE l \in -1 .. level : (l # -1 => room(l)) /\ \A j \in l + 1 .. level : ~room(j)

\* putEntry calls itself for the parent after each split.  moveToKey takes the cursor
\* back from there to the leaf of the key that was put.
putEntry(r, c, level, e, key) ==
    LET leaf  == r.node[c.ancestors[level]]
        idx   == c.ancestorsIdx[level]
        found == idx < leaf.numKeys /\ leaf.entries[idx].key = e.key
        top   == levelWithRoom(r, c, level)
        up    == splits(r, c, level, e)[level - top]
        grown == newRoot(up.rel, up.e)
        n     == c.ancestors[top]
        node  == up.rel.node[n]
        at    == c.ancestorsIdx[top]
        more  == [setNode(up.rel, n, insertAt(node, IF node.isLeaf THEN at ELSE at + 1, up.e))
                     EXCEPT !.numRecords = @ + 1]
    IN  CASE found ->
                [rel |-> setNode(r, c.ancestors[level], [leaf EXCEPT !.entries[idx].ptr = e.ptr]),
                 cur |-> c]
          [] ~found /\ top = -1 ->
                [rel |-> grown, cur |-> moveToKey(grown, grown.root, key, c, 0)]
          [] ~found /\ top # -1 ->
                [rel |-> more,
                 cur |-> IF node.isLeaf THEN c ELSE moveToKey(more, n, key, c, top)]

\* RL_PutRecord: the cursor goes on to the entry after the one put.
afterPut_KeepsPath(r, c, key, record) ==
    LET at  == goToKey(r, c, key)
        put == putEntry(r, at, at.level, [key |-> key, ptr |-> record], key)
    IN  [put EXCEPT !.cur = afterNext(put.rel, at)]
afterPut(r, c, key, record) ==
    LET at  == goToKey(r, c, key)
        put == putEntry(r, at, at.level, [key |-> key, ptr |-> record], key)
    IN  [put EXCEPT !.cur = afterNext(put.rel, put.cur)]

-----------------------------------------------------------------------------
(* The calls. *)

Init ==
    /\ rel = [root |-> 1, numRecords |-> 0, depth |-> 0,
              node |-> <<createNewNode(TRUE, TRUE, TRUE)>>]
    /\ cursor = [c \in Cursors |-> NULL]
    /\ synced = {}
    /\ freed  = NULL

Open(c)   == freed = NULL /\ cursor[c] # NULL
Usable(c) == Open(c) /\ c \in synced

MoveCursor(c, at) ==
    /\ cursor' = [cursor EXCEPT ![c] = at]
    /\ UNCHANGED <<rel, synced, freed>>

RL_NewCursor(c) ==
    /\ freed = NULL /\ cursor[c] = NULL
    /\ LET blank == [level |-> -1, ancestorsIdx |-> [l \in Levels |-> 0],
                     ancestors |-> [l \in Levels |-> NULL]]
       IN  cursor' = [cursor EXCEPT ![c] = moveToFirst(rel, rel.root, blank, 0)]
    /\ synced' = synced \cup {c}
    /\ UNCHANGED <<rel, freed>>

RL_FreeCursor(c) ==
    /\ cursor[c] # NULL
    /\ cursor' = [cursor EXCEPT ![c] = NULL]
    /\ synced' = synced \ {c}
    /\ UNCHANGED <<rel, freed>>

\* "Program will crash if client tries to increase the Btree past MAX_TREE_DEPTH levels"
\* (util.h:30-31): a cursor's arrays end there, and the client does not.
RL_PutRecord(c, key, record) ==
    /\ Usable(c)
    /\ LET put == afterPut(rel, cursor[c], key, record)
       IN  /\ put.rel.depth \in Levels
           /\ rel' = put.rel
           /\ cursor' = [cursor EXCEPT ![c] = put.cur]
    /\ synced' = synced \cap {c}
    /\ UNCHANGED freed

RL_MoveToKey(c, key) ==
    /\ Usable(c)
    /\ MoveCursor(c, afterMoveToKey(rel, cursor[c], key))

\* The one move that starts again from the root.
RL_MoveToFirst(c) ==
    /\ Open(c)
    /\ cursor' = [cursor EXCEPT ![c] = moveToFirst(rel, rel.root, @, 0)]
    /\ synced' = synced \cup {c}
    /\ UNCHANGED <<rel, freed>>

RL_MoveToNext(c) == Usable(c) /\ MoveCursor(c, afterNext(rel, cursor[c]))

RL_MoveToPrevious(c) == Usable(c) /\ MoveCursor(c, afterPrevious(rel, cursor[c]))

\* RL_GetRecord and RL_GetKey assert a valid cursor and may normalise it.
RL_GetRecord(c) ==
    /\ Usable(c) /\ isValid(rel, cursor[c])
    /\ MoveCursor(c, atEntry(rel, cursor[c]))

\* handleDeleteBtree: the children of a node, left to right, and all below them.
Children_SkipPtr0(n) == IF n.isLeaf THEN <<>> ELSE [i \in 1 .. n.numKeys |-> Child(n, i - 1)]
Children(n) == IF n.isLeaf THEN <<>> ELSE [i \in 1 .. n.numKeys + 1 |-> Child(n, i - 2)]

\* The nodes below n, in the order of the recursion; below[h] looks h levels down.
nodesBelow(r, n) ==
    LET below[h \in 0 .. r.depth] == [m \in DOMAIN r.node |->
            LET kids == Children(r.node[m])
            IN  IF h = 0 THEN <<>>
                ELSE FlattenSeq([i \in DOMAIN kids |-> Append(below[h - 1][kids[i]], kids[i])])]
    IN  below[r.depth][n]

\* The records of the leaves, in the order freeRecord sees them.
recordsBelow(r, n) ==
    LET below[h \in 0 .. r.depth] == [m \in DOMAIN r.node |->
            LET node == r.node[m]
                kids == Children(node)
            IN  IF node.isLeaf THEN [i \in 1 .. node.numKeys |-> node.entries[i - 1].ptr]
                ELSE IF h = 0 THEN <<>>
                ELSE FlattenSeq([i \in DOMAIN kids |-> below[h - 1][kids[i]]])]
    IN  below[r.depth][n]

\* The root and the Relation itself stay allocated.
RL_DeleteRelation ==
    /\ freed = NULL
    /\ freed' = [records |-> recordsBelow(rel, rel.root), nodes |-> nodesBelow(rel, rel.root)]
    /\ UNCHANGED <<rel, cursor, synced>>

Next ==
    \/ \E c \in Cursors :
          \/ RL_NewCursor(c)
          \/ RL_FreeCursor(c)
          \/ \E key \in Keys, record \in Records : RL_PutRecord(c, key, record)
          \/ \E key \in Keys : RL_MoveToKey(c, key)
          \/ RL_MoveToFirst(c)
          \/ RL_MoveToNext(c)
          \/ RL_MoveToPrevious(c)
          \/ RL_GetRecord(c)
    \/ RL_DeleteRelation

Spec == Init /\ [][Next]_vars

=============================================================================
