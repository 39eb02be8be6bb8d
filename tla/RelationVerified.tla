-------------------------- MODULE RelationVerified --------------------------
(***************************************************************************)
(* The copy of the relation library that the Coq proofs are about,         *)
(* verif/btrees/relation_mem.c.  It is a rewrite of the one RelationMem    *)
(* models: one isNodeParent for leaves and intern nodes, a moveToLast that *)
(* goes to the last leaf, a putEntry that climbs by lowering the cursor's  *)
(* own level, and a deletion that frees nothing.                           *)
(*                                                                         *)
(* A node's entries are the sequence of its first numKeys slots, and a     *)
(* cursor is the sequence of its levels up to its own: what the arrays     *)
(* hold beyond is written before it is read, as long as a cursor that      *)
(* another one's put has overtaken is first sent to RL_MoveToFirst.        *)
(***************************************************************************)
EXTENDS Integers, SequencesExt

CONSTANTS FANOUT,   \* entries per node (relation.h: 15)
          NULL,     \* the null pointer
          Keys,     \* the keys the client puts
          Records,  \* the records it puts
          Cursors   \* names for its cursors

ASSUME VerifiedAssumption == FANOUT \in Nat /\ FANOUT >= 2 /\ Keys \subseteq Nat

VARIABLES rel,     \* [root, numRecords, depth] and the nodes allocated, by id
          cursor,  \* the cursors, NULL if not allocated
          synced,  \* the cursors no other one's put has overtaken
          gone     \* has the client called RL_DeleteRelation?

vars == <<rel, cursor, synced, gone>>

MIDDLE == (FANOUT + 1) \div 2

createNewNode(isLeaf, isFst, isLst, ptr0, entries) ==
    [isLeaf |-> isLeaf, First |-> isFst, Last |-> isLst, ptr0 |-> ptr0, entries |-> entries]

-----------------------------------------------------------------------------
(* One node. *)

numKeys(n)  == Len(n.entries)
Child(n, i) == IF i = -1 THEN n.ptr0 ELSE n.entries[i + 1].ptr

\* The index before the first key above the search key.
findChildIndex(n, key) ==
    LET i == SelectInSeq(n.entries, LAMBDA e : key < e.key)
    IN  IF i = 0 THEN numKeys(n) - 1 ELSE i - 2

\* The index of the first key not below the search key.
findRecordIndex(n, key) ==
    LET i == SelectInSeq(n.entries, LAMBDA e : key <= e.key)
    IN  IF i = 0 THEN numKeys(n) ELSE i - 1

lastpointer(n)  == IF n.isLeaf THEN numKeys(n) ELSE numKeys(n) - 1
firstpointer(n) == IF n.isLeaf THEN 0 ELSE -1

isNodeParent_IgnoresLast(n, key) ==
    IF n.isLeaf
    THEN numKeys(n) = 0 \/ n.entries[1].key <= key
    ELSE findChildIndex(n, key) \notin {-1, numKeys(n) - 1}
isNodeParent(n, key) ==
    IF n.isLeaf
    THEN \/ numKeys(n) = 0
         \/ /\ n.First \/ key >= n.entries[1].key
            /\ n.Last \/ key <= n.entries[numKeys(n)].key
    ELSE findChildIndex(n, key) \notin {-1, numKeys(n) - 1}

\* The two halves of a full node and a new entry, and the entry for the parent.
splitnode(n, e, newNode) ==
    LET all   == InsertAt(n.entries, findRecordIndex(n, e.key) + 1, e)
        start == IF n.isLeaf THEN MIDDLE + 1 ELSE MIDDLE + 2
    IN  [left  |-> [n EXCEPT !.Last = FALSE, !.entries = SubSeq(all, 1, MIDDLE)],
         right |-> createNewNode(n.isLeaf, FALSE, n.Last,
                                 IF n.isLeaf THEN NULL ELSE all[MIDDLE + 1].ptr,
                                 SubSeq(all, start, FANOUT + 1)),
         up    |-> [key |-> all[MIDDLE + 1].key, ptr |-> newNode]]

-----------------------------------------------------------------------------
(* Walking: a cursor is a path of [node, idx], its last element its level. *)

entryIndex(c)  == Last(c).idx
currNode(r, c) == r.node[Last(c).node]
isValid(r, c)  == ~(entryIndex(c) = numKeys(currNode(r, c)) /\ currNode(r, c).Last)
isFirst(r, c)  == entryIndex(c) = 0 /\ currNode(r, c).First

RECURSIVE moveToKey(_, _, _, _)
moveToKey(r, n, key, above) ==
    LET node == r.node[n]
        i    == IF node.isLeaf THEN findRecordIndex(node, key) ELSE findChildIndex(node, key)
        here == Append(above, [node |-> n, idx |-> i])
    IN  IF node.isLeaf THEN here ELSE moveToKey(r, Child(node, i), key, here)

RECURSIVE moveToFirst(_, _, _)
moveToFirst(r, n, above) ==
    LET here == Append(above, [node |-> n, idx |-> firstpointer(r.node[n])])
    IN  IF r.node[n].isLeaf THEN here ELSE moveToFirst(r, r.node[n].ptr0, here)

moveToLast_ToFirst(r, n, above) ==
    LET last == lastpointer(r.node[n])
        here == Append(above, [node |-> n, idx |-> last])
    IN  IF r.node[n].isLeaf THEN here ELSE moveToFirst(r, Child(r.node[n], last), here)

RECURSIVE moveToLast(_, _, _)
moveToLast(r, n, above) ==
    LET last == lastpointer(r.node[n])
        here == Append(above, [node |-> n, idx |-> last])
    IN  IF r.node[n].isLeaf THEN here ELSE moveToLast(r, Child(r.node[n], last), here)

\* Climb to the lowest of some levels, at most to the root.
Ascend(c, levels) == SubSeq(c, 1, Max({1} \cup levels))

AscendToParent(r, c, key) == Ascend(c, {l \in DOMAIN c : isNodeParent(r.node[c[l].node], key)})

goToKey(r, c, key) ==
    LET up == AscendToParent(r, c, key) IN moveToKey(r, Last(up).node, key, Front(up))

moveToNext(r, c) ==
    LET up == Ascend(c, {l \in DOMAIN c : c[l].idx # lastpointer(r.node[c[l].node])})
        at == [up EXCEPT ![Len(up)].idx = @ + 1]
    IN  CASE ~isValid(r, c) -> c
          [] isValid(r, c) /\ currNode(r, at).isLeaf -> at
          [] OTHER -> moveToFirst(r, Child(currNode(r, at), entryIndex(at)), at)

moveToPrev(r, c) ==
    LET up == Ascend(c, {l \in DOMAIN c : c[l].idx # firstpointer(r.node[c[l].node])})
        at == [up EXCEPT ![Len(up)].idx = @ - 1]
    IN  CASE isFirst(r, c) -> c
          [] ~isFirst(r, c) /\ currNode(r, at).isLeaf -> at
          [] OTHER -> moveToLast(r, Child(currNode(r, at), entryIndex(at)), at)

-----------------------------------------------------------------------------
(* The cursor each call leaves, and what it reads. *)

atEntry(r, c) == IF entryIndex(c) = numKeys(currNode(r, c)) THEN moveToNext(r, c) ELSE c

afterNext(r, c)     == moveToNext(r, atEntry(r, c))
afterPrevious(r, c) == moveToPrev(r, IF entryIndex(c) = 0 THEN moveToPrev(r, c) ELSE c)

afterMoveToKey(r, c, key) ==
    LET at == goToKey(r, c, key) IN IF isValid(r, at) THEN atEntry(r, at) ELSE at

entryRead(r, c) == LET at == atEntry(r, c) IN currNode(r, at).entries[entryIndex(at) + 1]

-----------------------------------------------------------------------------
(* Inserting, at the cursor's own level.  At level -1 the root has split. *)

newRoot(r, e) ==
    [root |-> Len(r.node) + 1, depth |-> r.depth + 1, numRecords |-> r.numRecords + 1,
     node |-> Append(r.node, createNewNode(FALSE, TRUE, TRUE, r.root, <<e>>))]

\* After a split the entry goes in at the level above: the next element of the path.
RECURSIVE putEntry(_, _, _, _)
putEntry(r, c, e, key) ==
    IF c = <<>>
    THEN LET grown == newRoot(r, e)
         IN  [rel |-> grown, cur |-> moveToKey(grown, grown.root, key, <<>>)]
    ELSE
    LET n     == Last(c).node
        node  == r.node[n]
        idx   == entryIndex(c)
        found == node.isLeaf /\ idx < numKeys(node) /\ node.entries[idx + 1].key = e.key
        slot  == IF node.isLeaf THEN idx + 1 ELSE idx + 2
        more  == [r EXCEPT !.numRecords = @ + 1, !.node[n].entries = InsertAt(@, slot, e)]
        split == splitnode(node, e, Len(r.node) + 1)
    IN  CASE found ->
               [rel |-> [r EXCEPT !.node[n].entries[idx + 1].ptr = e.ptr], cur |-> c]
          [] ~found /\ numKeys(node) < FANOUT ->
               [rel |-> more,
                cur |-> IF node.isLeaf THEN c ELSE moveToKey(more, n, key, Front(c))]
          [] ~found /\ numKeys(node) >= FANOUT ->
               putEntry([r EXCEPT !.node = Append([@ EXCEPT ![n] = split.left], split.right)],
                        Front(c), split.up, key)

\* RL_PutRecord: the cursor goes on to the entry after the one put.
afterPut_KeepsPath(r, c, key, record) ==
    LET at  == goToKey(r, c, key)
        put == putEntry(r, at, [key |-> key, ptr |-> record], key)
    IN  [put EXCEPT !.cur = afterNext(put.rel, at)]
afterPut(r, c, key, record) ==
    LET put == putEntry(r, goToKey(r, c, key), [key |-> key, ptr |-> record], key)
    IN  [put EXCEPT !.cur = afterNext(put.rel, put.cur)]

-----------------------------------------------------------------------------
(* The calls. *)

\* RL_NewRelation.
Init ==
    /\ rel = [root |-> 1, numRecords |-> 0, depth |-> 0,
              node |-> <<createNewNode(TRUE, TRUE, TRUE, NULL, <<>>)>>]
    /\ cursor = [c \in Cursors |-> NULL]
    /\ synced = {}
    /\ gone = FALSE

Open(c)   == ~gone /\ cursor[c] # NULL
Usable(c) == Open(c) /\ c \in synced

MoveCursor(c, at) ==
    /\ cursor' = [cursor EXCEPT ![c] = at]
    /\ UNCHANGED <<rel, synced, gone>>

RL_NewCursor(c) ==
    /\ ~gone /\ cursor[c] = NULL
    /\ cursor' = [cursor EXCEPT ![c] = moveToFirst(rel, rel.root, <<>>)]
    /\ synced' = synced \cup {c}
    /\ UNCHANGED <<rel, gone>>

RL_FreeCursor(c) ==
    /\ cursor[c] # NULL
    /\ cursor' = [cursor EXCEPT ![c] = NULL]
    /\ synced' = synced \ {c}
    /\ UNCHANGED <<rel, gone>>

RL_PutRecord(c, key, record) ==
    /\ Usable(c)
    /\ LET put == afterPut(rel, cursor[c], key, record)
       IN  rel' = put.rel /\ cursor' = [cursor EXCEPT ![c] = put.cur]
    /\ synced' = synced \cap {c}
    /\ UNCHANGED gone

RL_MoveToKey(c, key) == Usable(c) /\ MoveCursor(c, afterMoveToKey(rel, cursor[c], key))

RL_MoveToFirst(c) ==
    /\ Open(c)
    /\ cursor' = [cursor EXCEPT ![c] = moveToFirst(rel, rel.root, <<>>)]
    /\ synced' = synced \cup {c}
    /\ UNCHANGED <<rel, gone>>

\* RL_MoveToNextValid and RL_MoveToPreviousNotFirst make the same moves.
RL_MoveToNext(c)     == Usable(c) /\ MoveCursor(c, afterNext(rel, cursor[c]))
RL_MoveToPrevious(c) == Usable(c) /\ MoveCursor(c, afterPrevious(rel, cursor[c]))

\* RL_GetRecord and RL_GetKey.
RL_GetRecord(c) ==
    /\ Usable(c) /\ isValid(rel, cursor[c])
    /\ MoveCursor(c, atEntry(rel, cursor[c]))

\* handleDeleteBtree is empty: the tree stays as it is, never to be used again.
RL_DeleteRelation ==
    /\ ~gone /\ gone' = TRUE
    /\ UNCHANGED <<rel, cursor, synced>>

Next ==
    \/ \E c \in Cursors :
          \/ RL_NewCursor(c)
          \/ RL_FreeCursor(c)
          \/ \E key \in Keys, record \in Records : RL_PutRecord(c, key, record)
          \/ \E key \in Keys : RL_MoveToKey(c, key)
          \/ RL_MoveToFirst(c)
          \/ RL_MoveToNext(c)
          \/ RL_MoveToPrevious(c)
          \/ RL_GetRecord(c)
    \/ RL_DeleteRelation

Spec == Init /\ [][Next]_vars

=============================================================================
