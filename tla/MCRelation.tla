----------------------------- MODULE MCRelation -----------------------------
(***************************************************************************)
(* What is checked of RelationMem: the shape of the tree, the paths in the *)
(* cursors, what the calls answer, and that it implements OrderedRelation. *)
(***************************************************************************)
EXTENDS RelationMem

CONSTANTS End, Lost, Closed

\* The places that are no key are told from the keys and from each other, and what
\* was never stored from an entry.
ASSUME PositionAssumption ==
    /\ End \notin Keys /\ Lost \notin Keys /\ Closed \notin Keys
    /\ End # Lost /\ End # Closed /\ Lost # Closed
    /\ Unset \notin [key : Nat, ptr : Records \cup Nat]

-----------------------------------------------------------------------------
(* The tree as a map, and a cursor as a position in it. *)

\* The entries in the leaves; SearchTree says that every leaf is in the tree.
Held(r) == UNION {{r.node[n].entries[i] : i \in 0 .. r.node[n].numKeys - 1} :
                     n \in {m \in DOMAIN r.node : r.node[m].isLeaf}}

MapOf(r) == LET held == Held(r)
            IN  [k \in {e.key : e \in held} |-> (CHOOSE e \in held : e.key = k).ptr]

LeastKey(S) == IF S = {} THEN End ELSE CHOOSE k \in S : \A j \in S : k <= j

\* The position past the last entry of a leaf is that of the next key.
PosOf(r, c) ==
    LET node == currNode(r, c)
        idx  == entryIndex(c)
    IN  IF idx < node.numKeys THEN node.entries[idx].key
        ELSE LeastKey({k \in {e.key : e \in Held(r)} :
                          node.numKeys > 0 /\ k > node.entries[node.numKeys - 1].key})

Position(c) == CASE cursor[c] = NULL                     -> Closed
                 [] cursor[c] # NULL /\ c \notin synced -> Lost
                 [] cursor[c] # NULL /\ c \in synced    -> PosOf(rel, cursor[c])

Positions == [c \in Cursors |-> Position(c)]

Contract == INSTANCE OrderedRelation WITH
    map <- MapOf(rel), pos <- Positions, gone <- freed # NULL

-----------------------------------------------------------------------------
(* Invariants. *)

Ptrs == Records \cup 1 .. Len(rel.node)

\* The state has the types of the C structs.
TypeOK ==
    /\ rel.root \in DOMAIN rel.node /\ rel.numRecords \in Nat /\ rel.depth \in Levels
    /\ \A n \in DOMAIN rel.node : rel.node[n] \in BtNodes(Keys, Ptrs)
    /\ synced \subseteq {c \in Cursors : cursor[c] # NULL}
    /\ \A c \in Cursors : cursor[c] # NULL =>
          /\ cursor[c].level \in Levels
          /\ cursor[c].ancestors \in [Levels -> DOMAIN rel.node \cup {NULL}]
          /\ cursor[c].ancestorsIdx \in [Levels -> -1 .. FANOUT]

NewCursor == [level |-> 0, ancestors |-> [l \in Levels |-> NULL], ancestorsIdx |-> [l \in Levels |-> 0]]

\* The way from the root to the leaf for a key, and to the first and the last leaf.
WayTo(key)  == moveToKey(rel, rel.root, key, NewCursor, 0)
WayToFirst  == moveToFirst(rel, rel.root, NewCursor, 0)
WayToLast   == descend(rel, rel.root, NewCursor, 0,
                       [n \in DOMAIN rel.node |-> lastpointer(rel.node[n])])

\* relation_mem.c:66-133, :599-667.  However splits have nested, the tree is a search
\* tree of equal depth: the way down to any key of any node leads through that node,
\* and its leaf is at the tree's depth.  Every node ever allocated is the child of one
\* other node, the flags mark the first and the last leaf and no other node, and
\* numRecords, which putEntry increments in three places, is the number of keys.
SearchTree ==
    /\ \A n \in DOMAIN rel.node :
          /\ Sorted(rel.node[n])
          /\ n # rel.root => /\ rel.node[n].numKeys > 0
                             /\ \E m \in DOMAIN rel.node : n \in Range(Children(rel.node[m]))
          /\ IsInjective(Children(rel.node[n]))
          /\ \A m \in DOMAIN rel.node : m # n =>
                Range(Children(rel.node[m])) \cap Range(Children(rel.node[n])) = {}
          /\ \A k \in NodeKeys(rel.node[n]) :
                LET way == WayTo(k)
                IN  /\ way.level = rel.depth
                    /\ \E l \in 0 .. rel.depth :
                          way.ancestors[l] = n /\ (rel.node[n].isLeaf <=> l = rel.depth)
          /\ rel.node[n].FirstLeaf <=> n = WayToFirst.ancestors[WayToFirst.level]
          /\ rel.node[n].LastLeaf <=> n = WayToLast.ancestors[WayToLast.level]
    /\ rel.numRecords = Cardinality(DOMAIN MapOf(rel))

\* relation_mem.c:1199-1206, ASSERT_NODE_INVARIANT, which nothing calls: a node
\* other than the root is at least half full.
NodeOccupancy ==
    \A n \in DOMAIN rel.node \ {rel.root} : rel.node[n].numKeys >= FANOUT \div 2

\* The levels of a cursor that is not behind are one path from the root to a
\* leaf, whatever mixture of short climbs and descents produced it.
CursorPath ==
    \A c \in synced :
        LET cur == cursor[c]
        IN  /\ cur.level = rel.depth
            /\ cur.ancestors[0] = rel.root
            /\ \A l \in 1 .. cur.level :
                  /\ cur.ancestorsIdx[l - 1] < rel.node[cur.ancestors[l - 1]].numKeys
                  /\ cur.ancestors[l] =
                        Child(rel.node[cur.ancestors[l - 1]], cur.ancestorsIdx[l - 1])
            /\ entryIndex(cur) \in 0 .. currNode(rel, cur).numKeys

\* relation.h:62-69, :47.  From wherever a cursor stands, RL_MoveToKey tells
\* whether a key is present, RL_CursorIsValid whether a key is at or after the
\* cursor, and RL_GetKey and RL_GetRecord read that key and its record.
AnswersAsDocumented ==
    \A c \in synced :
        LET cur == cursor[c]
            p   == PosOf(rel, cur)
            map == MapOf(rel)
        IN  /\ \A k \in Keys : foundByMoveToKey(rel, cur, k) <=> k \in DOMAIN map
            /\ isValid(rel, cur) <=> p # End
            /\ isValid(rel, cur) => entryRead(rel, cur) = [key |-> p, ptr |-> map[p]]

\* relation.h:86: "Go to the previous record of cursor's relation."
GoesToPrevious(c) ==
    LET before == Contract!Before(MapOf(rel), PosOf(rel, cursor[c]))
    IN  PosOf(rel, afterPrevious(rel, cursor[c])) =
           IF before = {} THEN PosOf(rel, cursor[c])
           ELSE CHOOSE k \in before : \A j \in before : j <= k

PreviousIsAdjacent == \A c \in synced : GoesToPrevious(c)

\* The same, as far as the code has it: inside a leaf, and in a tree whose
\* root's children are leaves.
PreviousIsAdjacentNearby ==
    \A c \in synced : rel.depth <= 1 \/ entryIndex(cursor[c]) > 0 => GoesToPrevious(c)

\* relation.h:33-36.  RL_DeleteRelation gives each record to freeRecord once, in
\* key order, and frees each node once, except the root.
DeleteFreesOnce ==
    freed # NULL =>
        LET map == MapOf(rel)
        IN  /\ freed.records = [i \in 1 .. Cardinality(DOMAIN map) |->
                   map[CHOOSE k \in DOMAIN map : Cardinality({j \in DOMAIN map : j <= k}) = i]]
            /\ IsInjective(freed.nodes)
            /\ Range(freed.nodes) = DOMAIN rel.node \ {rel.root}

\* The calls implement the contract of relation.h.
Implements == Contract!Spec

=============================================================================
