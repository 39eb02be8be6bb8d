-------------------------- MODULE MCRelationVerified -------------------------
(***************************************************************************)
(* RelationVerified and RelationMem given the same calls, side by side:    *)
(* "The folders in /verif usually contain a copy of the C code at stake"   *)
(* (README), and what is proved of the copy matters to the programs that   *)
(* link the other one as far as the two agree.                             *)
(***************************************************************************)
EXTENDS RelationVerified

CONSTANTS Unset, MAX_TREE_DEPTH, End, Lost, Closed,
          c1,   \* one of the Cursors
          Few   \* some of the Keys

VARIABLES srel, scursor, sfreed,  \* the state of src/btrees_and_tries/relation_mem.c
          client                  \* the cursors and keys in use

Src == INSTANCE RelationMem WITH rel <- srel, cursor <- scursor, freed <- sfreed

\* One cursor and all keys, or several cursors that overtake each other with a few keys.
Clients == {[cursors |-> {c1}, keys |-> Keys], [cursors |-> Cursors, keys |-> Few]}

BothInit == Init /\ Src!Init /\ client \in Clients

BothCalls ==
    \/ \E c \in client.cursors :
          \/ RL_NewCursor(c) /\ Src!RL_NewCursor(c)
          \/ RL_FreeCursor(c) /\ Src!RL_FreeCursor(c)
          \/ \E key \in client.keys, record \in Records :
                RL_PutRecord(c, key, record) /\ Src!RL_PutRecord(c, key, record)
          \/ \E key \in client.keys : RL_MoveToKey(c, key) /\ Src!RL_MoveToKey(c, key)
          \/ RL_MoveToFirst(c) /\ Src!RL_MoveToFirst(c)
          \/ RL_MoveToNext(c) /\ Src!RL_MoveToNext(c)
          \/ RL_MoveToPrevious(c) /\ Src!RL_MoveToPrevious(c)
          \/ RL_GetRecord(c) /\ Src!RL_GetRecord(c)
    \/ RL_DeleteRelation /\ Src!RL_DeleteRelation

BothNext == BothCalls /\ UNCHANGED client

BothSpec == BothInit /\ [][BothNext]_<<vars, srel, scursor, sfreed, client>>

-----------------------------------------------------------------------------
(* The copy as a map with positions. *)

Held(r) == UNION {Range(r.node[n].entries) : n \in {m \in DOMAIN r.node : r.node[m].isLeaf}}
MapOf(r) == LET held == Held(r)
            IN  [k \in {e.key : e \in held} |-> (CHOOSE e \in held : e.key = k).ptr]

LeastKey(S) == IF S = {} THEN End ELSE Min(S)

PosOf(r, c) ==
    LET entries == currNode(r, c).entries
        idx     == entryIndex(c)
    IN  IF idx < Len(entries) THEN entries[idx + 1].key
        ELSE LeastKey({k \in {e.key : e \in Held(r)} :
                          entries # <<>> /\ k > entries[Len(entries)].key})

Contract == INSTANCE OrderedRelation WITH
    map  <- MapOf(rel),
    pos  <- [c \in Cursors |-> CASE cursor[c] = NULL -> Closed
                                 [] cursor[c] # NULL /\ c \notin synced -> Lost
                                 [] OTHER -> PosOf(rel, cursor[c])]

-----------------------------------------------------------------------------
(* Comparing the copies. *)

SameNode(a, b) ==
    /\ <<a.isLeaf, a.First, a.ptr0, Len(a.entries)>> = <<b.isLeaf, b.FirstLeaf, b.ptr0, b.numKeys>>
    /\ a.Last = b.LastLeaf
    /\ \A i \in DOMAIN a.entries : a.entries[i] = b.entries[i - 1]

\* An intern root of the copy is marked first and last, which only leaves are asked.
SameTree(r, s) ==
    /\ <<r.root, r.numRecords, r.depth, Len(r.node)>> = <<s.root, s.numRecords, s.depth, Len(s.node)>>
    /\ \A n \in DOMAIN r.node :
          LET a == r.node[n]
          IN  SameNode(IF a.isLeaf THEN a ELSE [a EXCEPT !.First = FALSE, !.Last = FALSE],
                       s.node[n])

SamePlace(c, d) ==
    /\ d.level = Len(c) - 1
    /\ \A l \in DOMAIN c : c[l] = [node |-> d.ancestors[l - 1], idx |-> d.ancestorsIdx[l - 1]]

-----------------------------------------------------------------------------
(* Properties. *)

\* verif/btrees/relation_mem.c and src/btrees_and_tries/relation_mem.c, the copy the
\* proofs are about and the one the programs link, build the same tree
\* from the same puts, however splits nest; and from a place both cursors share,
\* every call but RL_MoveToPrevious leaves both at the same place again.
CopiesAgree ==
    /\ SameTree(rel, srel)
    /\ \A c \in synced :
          LET v == cursor[c]
              s == scursor[c]
          IN  SamePlace(v, s) =>
                /\ SamePlace(afterNext(rel, v), Src!afterNext(srel, s))
                /\ isValid(rel, v) <=> Src!isValid(srel, s)
                /\ isValid(rel, v) => entryRead(rel, v) = Src!entryRead(srel, s)
                /\ \A k \in client.keys :
                      /\ SamePlace(afterMoveToKey(rel, v, k), Src!afterMoveToKey(srel, s, k))
                      /\ \A r \in Records :
                            LET a == afterPut(rel, v, k, r)
                                b == Src!afterPut(srel, s, k, r)
                            IN  SameTree(a.rel, b.rel) /\ SamePlace(a.cur, b.cur)

\* relation.h:94 of the copy: "Go to the previous record of cursor's relation."
\* From any position the copy goes to the key just before, also where it climbs several
\* levels and comes down another branch.
PreviousIsAdjacent ==
    \A c \in synced :
        LET before == Contract!Before(MapOf(rel), PosOf(rel, cursor[c]))
        IN  PosOf(rel, afterPrevious(rel, cursor[c])) =
               IF before = {} THEN PosOf(rel, cursor[c]) ELSE Max(before)

\* The calls of the copy implement the contract of relation.h.
Implements == Contract!Spec

=============================================================================
