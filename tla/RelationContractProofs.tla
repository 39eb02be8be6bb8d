----------------------- MODULE RelationContractProofs -----------------------
(***************************************************************************)
(* The relation library implements the contract of relation.h: for every   *)
(* fanout, all keys and records, any number of cursors and any sequence of *)
(* calls, RelationMem is an OrderedRelation.                               *)
(*                                                                         *)
(* The argument: what a cursor stands for is the set of the keys ahead of  *)
(* it.  A step inside a leaf takes one key from it; a step from one leaf   *)
(* to the next takes none, because the two leaves' regions meet: climbing  *)
(* from last pointers and descending along first ones leaves out no key.   *)
(* A put adds its own key, and moves its cursor to what is ahead of it.    *)
(* What deletion frees is, level by level, what is below each node.        *)
(***************************************************************************)
EXTENDS RelationProofs

-----------------------------------------------------------------------------
(* The map. *)

LEMMA KeysAre ==
    ASSUME NEW r, NEW reg, NEW lev, Sound(r, reg, lev), NEW n \in DOMAIN r.node, r.node[n].isLeaf,
           NEW nd, nd = r.node[n]
    PROVE  /\ NodeRight(nd) /\ HasKeys(nd) /\ Sorted(nd) /\ nd.numKeys \in Nat
           /\ NodeKeys(nd) = LeafKeys(r.node) \cap reg[n]
           /\ reg[n] \subseteq Int /\ reg[n] # {} /\ Convex(reg[n])
           /\ lev[n] = r.depth
           /\ nd.FirstLeaf <=> -1 \in reg[n]
           /\ nd.LastLeaf <=> UpClosed(reg[n])
<1>1. Whole(r.node, r.root, r.depth, reg, lev) /\ r.depth \in Int
  BY SoundIs
<1>2. /\ \A m \in DOMAIN r.node : NodeRight(r.node[m]) /\ Placed(r.node, r.depth, reg, lev, m)
      /\ RegionsApart(DOMAIN r.node, reg, lev)
  BY <1>1 DEF Whole, Tree
<1>3. NodeRight(nd) /\ HasKeys(nd) /\ Sorted(nd) /\ nd.numKeys \in Nat
  BY <1>2 DEF NodeRight, HasKeys
<1>4. Placed(r.node, r.depth, reg, lev, n)
  BY <1>2
<1>5. /\ reg[n] \subseteq Int /\ reg[n] # {} /\ Convex(reg[n]) /\ NodeKeys(nd) \subseteq reg[n]
      /\ lev[n] = r.depth
      /\ nd.FirstLeaf <=> -1 \in reg[n]
      /\ nd.LastLeaf <=> UpClosed(reg[n])
  BY <1>4 DEF Placed
<1>6. NodeKeys(nd) \subseteq LeafKeys(r.node)
  BY InLeaf
<1>7. ASSUME NEW k, k \in LeafKeys(r.node), k \in reg[n] PROVE k \in NodeKeys(nd)
  <2>1. PICK m : m \in DOMAIN r.node /\ r.node[m].isLeaf /\ k \in NodeKeys(r.node[m])
    BY <1>7, InLeaf
  <2>2. Placed(r.node, r.depth, reg, lev, m)
    BY <1>2, <2>1
  <2>2a. lev[m] = r.depth /\ k \in reg[m]
    BY <2>1, <2>2 DEF Placed
  <2>3. m = n
    BY <1>2, <1>5, <1>7, <2>1, <2>2a DEF RegionsApart
  <2> QED
    BY <2>1, <2>3
<1>8. NodeKeys(nd) = LeafKeys(r.node) \cap reg[n]
  BY <1>5, <1>6, <1>7
<1> QED
  BY <1>3, <1>5, <1>8

\* No two entries in the leaves have the same key.
LEMMA OneEntry ==
    ASSUME NEW r, NEW reg, NEW lev, Sound(r, reg, lev), NEW e, NEW f,
           e \in LeafEntries(r.node), f \in LeafEntries(r.node), e.key = f.key
    PROVE  e = f
<1>1. PICK m : m \in DOMAIN r.node /\ r.node[m].isLeaf /\ e \in NodeEntries(r.node[m])
  BY InLeaves
<1>2. PICK n : n \in DOMAIN r.node /\ r.node[n].isLeaf /\ f \in NodeEntries(r.node[n])
  BY InLeaves
<1>3. e.key \in NodeKeys(r.node[m]) /\ f.key \in NodeKeys(r.node[n])
  BY <1>1, <1>2, EntryKeys
<1>4. e.key \in LeafKeys(r.node) \cap reg[m] /\ e.key \in LeafKeys(r.node) \cap reg[n]
  BY <1>1, <1>2, <1>3, KeysAre
<1>5. e.key \in NodeKeys(r.node[m]) /\ e.key \in reg[n] /\ e.key \in reg[m] /\ lev[m] = lev[n]
  BY <1>1, <1>2, <1>3, <1>4, KeysAre
<1>6. m = n
  <2>1. RegionsApart(DOMAIN r.node, reg, lev)
    BY SoundIs DEF Whole, Tree
  <2> QED
    BY <1>1, <1>2, <1>5, <2>1 DEF RegionsApart
<1>7. PICK nd : nd = r.node[m]
  OBVIOUS
<1>8. HasKeys(nd) /\ Sorted(nd)
  BY <1>1, <1>7, KeysAre
<1>9. PICK i \in 0 .. nd.numKeys - 1 : e = nd.entries[i]
  BY <1>1, <1>7 DEF NodeEntries
<1>10. PICK j \in 0 .. nd.numKeys - 1 : f = nd.entries[j]
  BY <1>2, <1>6, <1>7 DEF NodeEntries
<1>11. ~(i < j) /\ ~(j < i)
  BY <1>8, <1>9, <1>10 DEF HasKeys, Sorted
<1>12. i = j
  BY <1>8, <1>11 DEF HasKeys
<1> QED
  BY <1>9, <1>10, <1>12

LEMMA HeldIs == ASSUME NEW r PROVE Held(r) = LeafEntries(r.node)
  BY Zenon DEF Held, LeafEntries, NodeEntries

\* The keys of a set of entries, and what each maps to.
MapTo(S) == [k \in {e.key : e \in S} |-> (CHOOSE e \in S : e.key = k).ptr]

LEMMA MapIs ==
    ASSUME NEW r
    PROVE  MapOf(r) = MapTo(LeafEntries(r.node)) /\ DOMAIN MapOf(r) = LeafKeys(r.node)
<1>1. MapOf(r) = MapTo(Held(r))
  BY Zenon DEF MapOf, MapTo
<1>2. Held(r) = LeafEntries(r.node)
  BY HeldIs
<1> QED
  BY <1>1, <1>2 DEF MapTo, LeafKeys

LEMMA MapsTo ==
    ASSUME NEW r, NEW reg, NEW lev, Sound(r, reg, lev), NEW e \in LeafEntries(r.node)
    PROVE  MapOf(r)[e.key] = e.ptr
<1>1. PICK k : k = e.key
  OBVIOUS
<1>2. PICK f : f = CHOOSE x \in LeafEntries(r.node) : x.key = k
  OBVIOUS
<1>3. f \in LeafEntries(r.node) /\ f.key = k
  BY <1>1, <1>2
<1>4. f = e
  BY <1>1, <1>3, OneEntry
<1>5. k \in {x.key : x \in LeafEntries(r.node)}
  BY <1>1
<1>6. MapTo(LeafEntries(r.node))[k] = f.ptr
  BY <1>2, <1>5 DEF MapTo
<1> QED
  BY <1>1, <1>4, <1>6, MapIs

LEMMA KeysTyped ==
    ASSUME NEW r, RelInv(r)
    PROVE  LeafKeys(r.node) \subseteq Keys /\ Keys \subseteq Nat
<1>1. ASSUME NEW k, k \in LeafKeys(r.node) PROVE k \in Keys
  <2>1. PICK m : m \in DOMAIN r.node /\ r.node[m].isLeaf /\ k \in NodeKeys(r.node[m])
    BY <1>1, InLeaf
  <2>2. Typed(r.node[m], PtrsOf(r.node))
    BY <2>1 DEF RelInv, NodesTyped
  <2> QED
    BY <2>1, <2>2 DEF Typed, NodeKeys, Entry
<1> QED
  BY <1>1, RelationAssumption

-----------------------------------------------------------------------------
(* Leaves beside each other. *)

\* All of S is below all of T, and there is nothing between them.
Below(S, T) == \A x \in S : \A y \in T : x < y
Meet(S, T)  == \A x \in S : \A y \in T : \A k \in Int : x <= k /\ k <= y => k \in S \cup T

\* S is the upper (the lower) part of T.
UpIn(S, T)   == S \subseteq T /\ \A x \in S : \A k \in T : x <= k => k \in S
DownIn(S, T) == S \subseteq T /\ \A x \in S : \A k \in T : k <= x => k \in S

LEMMA PieceUp ==
    ASSUME NEW nd, HasKeys(nd), NEW T, T \subseteq Int, NEW S, UpIn(S, T), NEW i, i = nd.numKeys - 1
    PROVE  UpIn(Piece(nd, S, i), T)
<1>1. Piece(nd, S, i) \subseteq T /\ S \subseteq T
  BY DEF Piece, UpIn
<1>2. ASSUME NEW x \in Piece(nd, S, i), NEW k \in T, x <= k PROVE k \in Piece(nd, S, i)
  <2>1. x \in S /\ Between(nd, i, x) /\ x \in Int /\ k \in Int
    BY <1>1, <1>2 DEF Piece
  <2>2. k \in S
    BY <1>2, <2>1 DEF UpIn
  <2>3. i # -1 => nd.entries[i].key \in Int
    BY DEF HasKeys
  <2>4. Between(nd, i, k)
    BY <1>2, <2>1, <2>3 DEF Between, HasKeys
  <2> QED
    BY <2>2, <2>4 DEF Piece
<1> QED
  BY <1>1, <1>2 DEF UpIn

LEMMA PieceDown ==
    ASSUME NEW nd, HasKeys(nd), NEW T, T \subseteq Int, NEW S, DownIn(S, T), NEW i, i = -1
    PROVE  DownIn(Piece(nd, S, i), T)
<1>1. Piece(nd, S, i) \subseteq T /\ S \subseteq T
  BY DEF Piece, DownIn
<1>2. ASSUME NEW x \in Piece(nd, S, i), NEW k \in T, k <= x PROVE k \in Piece(nd, S, i)
  <2>1. x \in S /\ Between(nd, i, x) /\ x \in Int /\ k \in Int
    BY <1>1, <1>2 DEF Piece
  <2>2. k \in S
    BY <1>2, <2>1 DEF DownIn
  <2>3. i < nd.numKeys - 1 => nd.entries[i + 1].key \in Int
    BY DEF HasKeys
  <2>4. Between(nd, i, k)
    BY <1>2, <2>1, <2>3 DEF Between, HasKeys
  <2> QED
    BY <2>2, <2>4 DEF Piece
<1> QED
  BY <1>1, <1>2 DEF DownIn

\* Two children of a node, one after the other.
LEMMA PiecesMeet ==
    ASSUME NEW nd, HasKeys(nd), NEW S, S \subseteq Int, Convex(S), NEW i, i \in Kids(nd), NEW j, j = i + 1, j \in Kids(nd)
    PROVE  Below(Piece(nd, S, i), Piece(nd, S, j)) /\ Meet(Piece(nd, S, i), Piece(nd, S, j))
<1>1. PICK K : K = nd.entries[j].key
  OBVIOUS
<1>2. nd.numKeys \in Nat /\ i \in Int /\ j \in Int /\ j # -1 /\ i < nd.numKeys - 1 /\ j \in 0 .. nd.numKeys - 1
  BY DEF HasKeys, Kids
<1>3. K \in Int
  BY <1>1, <1>2 DEF HasKeys
<1>4. ASSUME NEW x \in Piece(nd, S, i) PROVE x \in S /\ x < K /\ x \in Int
  BY <1>1, <1>2 DEF Piece, Between
<1>5. ASSUME NEW y \in Piece(nd, S, j) PROVE y \in S /\ K <= y /\ y \in Int
  BY <1>1, <1>2 DEF Piece, Between
<1>6. Below(Piece(nd, S, i), Piece(nd, S, j))
  BY <1>3, <1>4, <1>5 DEF Below
<1>7. ASSUME NEW x \in Piece(nd, S, i), NEW y \in Piece(nd, S, j), NEW k \in Int, x <= k, k <= y
      PROVE  k \in Piece(nd, S, i) \cup Piece(nd, S, j)
  <2>1. x \in S /\ y \in S /\ x \in Int /\ y \in Int
    BY <1>4, <1>5
  <2>2. k \in S
    BY <1>7, <2>1 DEF Convex
  <2>3. CASE k < K
    <3>1. i # -1 => nd.entries[i].key <= x /\ nd.entries[i].key \in Int
      BY <1>2 DEF Piece, Between, HasKeys
    <3>2. Between(nd, i, k)
      BY <1>1, <1>7, <2>1, <2>3, <3>1 DEF Between
    <3> QED
      BY <2>2, <3>2 DEF Piece
  <2>4. CASE K <= k
    <3>1. j < nd.numKeys - 1 => y < nd.entries[j + 1].key /\ nd.entries[j + 1].key \in Int
      BY <1>2 DEF Piece, Between, HasKeys
    <3>2. Between(nd, j, k)
      BY <1>1, <1>7, <2>1, <2>4, <3>1 DEF Between
    <3> QED
      BY <2>2, <3>2 DEF Piece
  <2> QED
    BY <1>3, <2>3, <2>4
<1>8. Meet(Piece(nd, S, i), Piece(nd, S, j))
  BY <1>7 DEF Meet
<1> QED
  BY <1>6, <1>8

LEMMA PartsBelow ==
    ASSUME NEW S, NEW T, Below(S, T), NEW S2, S2 \subseteq S, NEW T2, T2 \subseteq T
    PROVE  Below(S2, T2)
  BY DEF Below

LEMMA PartsMeet ==
    ASSUME NEW S, NEW T, Meet(S, T), S \subseteq Int, T \subseteq Int, NEW S2, UpIn(S2, S), NEW T2, DownIn(T2, T)
    PROVE  Meet(S2, T2)
<1>1. ASSUME NEW x \in S2, NEW y \in T2, NEW k \in Int, x <= k, k <= y PROVE k \in S2 \cup T2
  <2>1. x \in S /\ y \in T
    BY DEF UpIn, DownIn
  <2>2. k \in S \cup T
    BY <1>1, <2>1 DEF Meet
  <2> QED
    BY <1>1, <2>2 DEF UpIn, DownIn
<1> QED
  BY <1>1 DEF Meet


\* Going down, regions shrink: to their upper parts along last pointers, and to their lower parts
\* along first ones.
Shrinks(reg, anc, a, b) == reg[anc[b]] \subseteq reg[anc[a]]

LEMMA GoesDown ==
    ASSUME NEW r, NEW reg, NEW lev, Sound(r, reg, lev), NEW anc, NEW ix, Along(r, reg, lev, anc, ix, r.depth),
           NEW l \in 0 .. r.depth - 1, NEW nd, nd = r.node[anc[l]]
    PROVE  /\ anc[l] \in DOMAIN r.node /\ HasKeys(nd) /\ ~nd.isLeaf
           /\ reg[anc[l]] \subseteq Int /\ Convex(reg[anc[l]])
           /\ reg[anc[l + 1]] = Piece(nd, reg[anc[l]], ix[l])
<1>1. r.depth \in Int /\ Whole(r.node, r.root, r.depth, reg, lev)
  BY SoundIs
<1>2. l \in 0 .. r.depth /\ l # r.depth
  BY <1>1
<1>3. PICK n : n = anc[l]
  OBVIOUS
<1>4. n \in DOMAIN r.node /\ ~nd.isLeaf
  BY <1>2, <1>3 DEF Along
<1>5. reg[anc[l + 1]] = Piece(nd, reg[anc[l]], ix[l])
  BY DEF Along
<1>6. NodeRight(r.node[n]) /\ Placed(r.node, r.depth, reg, lev, n)
  BY <1>1, <1>4 DEF Whole, Tree
<1>7. HasKeys(nd) /\ reg[n] \subseteq Int /\ Convex(reg[n])
  BY <1>3, <1>6 DEF NodeRight, Placed
<1> QED
  BY <1>3, <1>4, <1>5, <1>7

LEMMA Narrower ==
    ASSUME NEW r, NEW reg, NEW lev, Sound(r, reg, lev), NEW anc, NEW ix, Along(r, reg, lev, anc, ix, r.depth),
           NEW a \in 0 .. r.depth
    PROVE  Shrinks(reg, anc, a, r.depth)
<1> DEFINE Q == {l \in a .. r.depth : Shrinks(reg, anc, a, l)}
<1>1. r.depth \in Int /\ a \in Int
  BY SoundIs
<1>2. a \in Q
  BY <1>1 DEF Shrinks
<1>3. ASSUME NEW l \in a .. r.depth, l \in Q, l # r.depth PROVE l + 1 \in Q
  <2>1. l \in 0 .. r.depth - 1 /\ l + 1 \in a .. r.depth
    BY <1>1, <1>3
  <2>2. reg[anc[l + 1]] = Piece(r.node[anc[l]], reg[anc[l]], ix[l])
    BY <2>1, GoesDown
  <2>3. Shrinks(reg, anc, a, l)
    BY <1>3
  <2>4. Shrinks(reg, anc, a, l + 1)
    BY <2>2, <2>3 DEF Shrinks, Piece
  <2> QED
    BY <2>1, <2>4
<1>4. \A l \in a .. r.depth : l \in Q /\ l # r.depth => l + 1 \in Q
  BY <1>3
<1> HIDE DEF Q
<1>5. \A l \in a .. r.depth : l \in Q
  BY <1>1, <1>2, <1>4, UpTo
<1>6. r.depth \in Q
  BY <1>1, <1>5
<1> QED
  BY <1>6 DEF Q

LEMMA UpAlong ==
    ASSUME NEW r, NEW reg, NEW lev, Sound(r, reg, lev), NEW anc, NEW ix, Along(r, reg, lev, anc, ix, r.depth),
           NEW a \in 0 .. r.depth, \A l \in a .. r.depth - 1 : ix[l] = r.node[anc[l]].numKeys - 1
    PROVE  UpIn(reg[anc[r.depth]], reg[anc[a]])
<1> DEFINE Q == {l \in a .. r.depth : UpIn(reg[anc[l]], reg[anc[a]])}
<1>1. r.depth \in Int /\ a \in Int
  BY SoundIs
<1>2. a \in Q
  BY <1>1 DEF UpIn
<1>3. ASSUME NEW l \in a .. r.depth, l \in Q, l # r.depth PROVE l + 1 \in Q
  <2>1. l \in 0 .. r.depth - 1 /\ l + 1 \in a .. r.depth /\ l \in a .. r.depth - 1 /\ a \in 0 .. r.depth - 1
    BY <1>1, <1>3
  <2>2. /\ reg[anc[l + 1]] = Piece(r.node[anc[l]], reg[anc[l]], ix[l]) /\ HasKeys(r.node[anc[l]])
        /\ reg[anc[a]] \subseteq Int
    BY <2>1, GoesDown
  <2>3. UpIn(reg[anc[l]], reg[anc[a]])
    BY <1>3
  <2>4. ix[l] = r.node[anc[l]].numKeys - 1
    BY <2>1
  <2>5. UpIn(reg[anc[l + 1]], reg[anc[a]])
    BY <2>2, <2>3, <2>4, PieceUp
  <2> QED
    BY <2>1, <2>5
<1>4. \A l \in a .. r.depth : l \in Q /\ l # r.depth => l + 1 \in Q
  BY <1>3
<1> HIDE DEF Q
<1>5. \A l \in a .. r.depth : l \in Q
  BY <1>1, <1>2, <1>4, UpTo
<1>6. r.depth \in Q
  BY <1>1, <1>5
<1> QED
  BY <1>6 DEF Q

LEMMA DownAlong ==
    ASSUME NEW r, NEW reg, NEW lev, Sound(r, reg, lev), NEW anc, NEW ix, Along(r, reg, lev, anc, ix, r.depth),
           NEW a \in 0 .. r.depth, \A l \in a .. r.depth - 1 : ix[l] = -1
    PROVE  DownIn(reg[anc[r.depth]], reg[anc[a]])
<1> DEFINE Q == {l \in a .. r.depth : DownIn(reg[anc[l]], reg[anc[a]])}
<1>1. r.depth \in Int /\ a \in Int
  BY SoundIs
<1>2. a \in Q
  BY <1>1 DEF DownIn
<1>3. ASSUME NEW l \in a .. r.depth, l \in Q, l # r.depth PROVE l + 1 \in Q
  <2>1. l \in 0 .. r.depth - 1 /\ l + 1 \in a .. r.depth /\ l \in a .. r.depth - 1 /\ a \in 0 .. r.depth - 1
    BY <1>1, <1>3
  <2>2. /\ reg[anc[l + 1]] = Piece(r.node[anc[l]], reg[anc[l]], ix[l]) /\ HasKeys(r.node[anc[l]])
        /\ reg[anc[a]] \subseteq Int
    BY <2>1, GoesDown
  <2>3. DownIn(reg[anc[l]], reg[anc[a]])
    BY <1>3
  <2>4. ix[l] = -1
    BY <2>1
  <2>5. DownIn(reg[anc[l + 1]], reg[anc[a]])
    BY <2>2, <2>3, <2>4, PieceDown
  <2> QED
    BY <2>1, <2>5
<1>4. \A l \in a .. r.depth : l \in Q /\ l # r.depth => l + 1 \in Q
  BY <1>3
<1> HIDE DEF Q
<1>5. \A l \in a .. r.depth : l \in Q
  BY <1>1, <1>2, <1>4, UpTo
<1>6. r.depth \in Q
  BY <1>1, <1>5
<1> QED
  BY <1>6 DEF Q

\* Two paths that part at level "top", the second one taking the next child there.
Neighbours(r, c, d, top) == top \in 0 .. r.depth - 1 /\ Aside(r, c, d, top, 1)

\* The first one goes down along last pointers from there, and the second one along first ones.
LastBelow(r, c, top)  == \A j \in top + 1 .. r.depth - 1 : AtEnd(r, c, TRUE, j)
FirstBelow(r, d, top) == \A j \in top + 1 .. r.depth - 1 : AtEnd(r, d, FALSE, j)

LeafOf(r, c) == c.ancestors[r.depth]

LEMMA PathIs ==
    ASSUME NEW r, NEW reg, NEW lev, Sound(r, reg, lev), NEW c, IsPath(r, c)
    PROVE  /\ LeafOf(r, c) \in DOMAIN r.node /\ r.node[LeafOf(r, c)].isLeaf
           /\ Along(r, reg, lev, c.ancestors, c.ancestorsIdx, r.depth)
           /\ Links(r, c.ancestors, c.ancestorsIdx, r.depth)
           /\ entryIndex(c) = c.ancestorsIdx[r.depth]
           /\ currNode(r, c) = r.node[LeafOf(r, c)]
           /\ entryIndex(c) \in 0 .. r.node[LeafOf(r, c)].numKeys
<1>1. Links(r, c.ancestors, c.ancestorsIdx, r.depth) /\ c.level = r.depth /\ r.depth \in 0 .. r.depth
  BY SoundIs DEF IsPath
<1>2. Whole(r.node, r.root, r.depth, reg, lev)
  BY SoundIs
<1>3. PICK top \in 0 .. r.depth : top = r.depth
  BY <1>1
<1>4. Links(r, c.ancestors, c.ancestorsIdx, top)
  BY <1>1, <1>3
<1>5. Along(r, reg, lev, c.ancestors, c.ancestorsIdx, top)
  BY <1>2, <1>4, Followed
<1>6. Along(r, reg, lev, c.ancestors, c.ancestorsIdx, r.depth)
  BY <1>3, <1>5
<1>7. LeafOf(r, c) \in DOMAIN r.node /\ r.node[LeafOf(r, c)].isLeaf
  BY <1>1, <1>6 DEF Along, LeafOf
<1>8. c.ancestorsIdx[r.depth] \in 0 .. r.node[LeafOf(r, c)].numKeys
  BY DEF IsPath, LeafOf
<1> QED
  BY <1>1, <1>6, <1>7, <1>8 DEF LeafOf, entryIndex, currNode


LEMMA Beside ==
    ASSUME NEW r, NEW reg, NEW lev, Sound(r, reg, lev), NEW c, IsPath(r, c), NEW d, IsPath(r, d),
           NEW top, Neighbours(r, c, d, top), NEW n, n = LeafOf(r, c), NEW m, m = LeafOf(r, d)
    PROVE  /\ Below(reg[n], reg[m])
           /\ LastBelow(r, c, top) /\ FirstBelow(r, d, top) => Meet(reg[n], reg[m])
<1>1. /\ r.depth \in Int /\ top \in 0 .. r.depth - 1 /\ top + 1 \in 0 .. r.depth
  BY SoundIs DEF Neighbours
<1>2. PICK nd : nd = r.node[c.ancestors[top]]
  OBVIOUS
<1>3. PICK S : S = reg[c.ancestors[top]]
  OBVIOUS
<1>4. PICK i : i = c.ancestorsIdx[top]
  OBVIOUS
<1>5. PICK j : j = d.ancestorsIdx[top]
  OBVIOUS
<1>6. d.ancestors[top] = c.ancestors[top] /\ j = i + 1
  BY <1>4, <1>5 DEF Neighbours, Aside
<1>7. i \in Kids(nd) /\ j \in Kids(nd)
  <2>1. Links(r, c.ancestors, c.ancestorsIdx, r.depth) /\ Links(r, d.ancestors, d.ancestorsIdx, r.depth)
    BY PathIs
  <2> QED
    BY <1>1, <1>2, <1>4, <1>5, <1>6, <2>1 DEF Links
<1>8. PICK a : a = top + 1
  OBVIOUS
<1>9. PICK anc, ix : anc = c.ancestors /\ ix = c.ancestorsIdx
  OBVIOUS
<1>10. PICK anc2, ix2 : anc2 = d.ancestors /\ ix2 = d.ancestorsIdx
  OBVIOUS
<1>11. Along(r, reg, lev, anc, ix, r.depth) /\ Along(r, reg, lev, anc2, ix2, r.depth)
  BY <1>9, <1>10, PathIs
<1>12. HasKeys(nd) /\ S \subseteq Int /\ Convex(S) /\ reg[anc[a]] = Piece(nd, S, i)
  BY <1>1, <1>2, <1>3, <1>4, <1>8, <1>9, <1>11, GoesDown
<1>13. reg[anc2[a]] = Piece(nd, S, j)
  <2>1. nd = r.node[anc2[top]] /\ S = reg[anc2[top]] /\ j = ix2[top]
    BY <1>2, <1>3, <1>5, <1>6, <1>10
  <2>2. reg[anc2[top + 1]] = Piece(nd, reg[anc2[top]], ix2[top])
    BY <1>1, <1>11, <2>1, GoesDown
  <2> QED
    BY <1>8, <2>1, <2>2
<1>14. Below(reg[anc[a]], reg[anc2[a]]) /\ Meet(reg[anc[a]], reg[anc2[a]])
  BY <1>6, <1>7, <1>12, <1>13, PiecesMeet
<1>15. reg[anc[a]] \subseteq Int /\ reg[anc2[a]] \subseteq Int
  BY <1>12, <1>13 DEF Piece
<1>16. a \in 0 .. r.depth /\ anc[r.depth] = n /\ anc2[r.depth] = m
  BY <1>1, <1>8, <1>9, <1>10 DEF LeafOf
<1>17. reg[n] \subseteq reg[anc[a]] /\ reg[m] \subseteq reg[anc2[a]]
  BY <1>11, <1>16, Narrower DEF Shrinks
<1>18. Below(reg[n], reg[m])
  BY <1>14, <1>17, PartsBelow
<1>19. ASSUME LastBelow(r, c, top), FirstBelow(r, d, top) PROVE Meet(reg[n], reg[m])
  <2>1. ASSUME NEW l \in a .. r.depth - 1
        PROVE  ix[l] = r.node[anc[l]].numKeys - 1 /\ ix2[l] = -1
    <3>1. l \in 0 .. r.depth - 1 /\ l \in top + 1 .. r.depth - 1
      BY <1>1, <1>8, <2>1
    <3>2. ~r.node[anc[l]].isLeaf /\ ~r.node[anc2[l]].isLeaf
      BY <1>11, <3>1, GoesDown
    <3>3. AtEnd(r, c, TRUE, l) /\ AtEnd(r, d, FALSE, l)
      BY <1>19, <3>1 DEF LastBelow, FirstBelow
    <3> QED
      BY <1>9, <1>10, <3>2, <3>3 DEF AtEnd, lastpointer, firstpointer
  <2>2. UpIn(reg[n], reg[anc[a]])
    <3>1. \A l \in a .. r.depth - 1 : ix[l] = r.node[anc[l]].numKeys - 1
      BY <2>1
    <3> QED
      BY <1>11, <1>16, <3>1, UpAlong
  <2>3. DownIn(reg[m], reg[anc2[a]])
    <3>1. \A l \in a .. r.depth - 1 : ix2[l] = -1
      BY <2>1
    <3> QED
      BY <1>11, <1>16, <3>1, DownAlong
  <2> QED
    BY <1>14, <1>15, <2>2, <2>3, PartsMeet
<1> QED
  BY <1>18, <1>19

-----------------------------------------------------------------------------
(* The keys ahead of a cursor. *)

\* Those not below the leaf's region, after its first i entries.
Ahead(r, reg, n, i) ==
    {k \in LeafKeys(r.node) : /\ \E x \in reg[n] : x <= k
                              /\ \A j \in 0 .. i - 1 : r.node[n].entries[j].key < k}

IndexOf(r, c) == c.ancestorsIdx[r.depth]
AheadOf(r, reg, c) == Ahead(r, reg, LeafOf(r, c), IndexOf(r, c))

LEMMA LeafKeysNat == ASSUME NEW r, NEW reg, NEW lev, Sound(r, reg, lev) PROVE LeafKeys(r.node) \subseteq Nat
<1>1. ASSUME NEW k, k \in LeafKeys(r.node) PROVE k \in Nat
  <2>1. PICK m : m \in DOMAIN r.node /\ r.node[m].isLeaf /\ k \in NodeKeys(r.node[m])
    BY <1>1, InLeaf
  <2>2. HasKeys(r.node[m])
    BY <2>1, KeysAre
  <2> QED
    BY <2>1, <2>2 DEF HasKeys, NodeKeys
<1> QED
  BY <1>1

LEMMA LeastIs ==
    ASSUME NEW S, S \subseteq Nat, NEW k, k \in S, \A j \in S : k <= j
    PROVE  LeastKey(S) = k
<1>1. S # {}
  OBVIOUS
<1>2. PICK l : l = CHOOSE x \in S : \A j \in S : x <= j
  OBVIOUS
<1>3. l \in S /\ \A j \in S : l <= j
  BY <1>2
<1>4. l = k
  BY <1>3
<1> QED
  BY <1>1, <1>2, <1>4 DEF LeastKey

LEMMA LeastThere ==
    ASSUME NEW S, S \subseteq Nat, S # {}
    PROVE  LeastKey(S) \in S /\ \A j \in S : LeastKey(S) <= j
<1>1. PICK k \in S : \A j \in S : ~(j < k)
  BY LeastNat
<1>2. \A j \in S : k <= j
  BY <1>1
<1>3. LeastKey(S) = k
  BY <1>2, LeastIs
<1> QED
  BY <1>2, <1>3

\* The entry at the index is the first one ahead.
LEMMA AheadFirst ==
    ASSUME NEW r, NEW reg, NEW lev, Sound(r, reg, lev), NEW n \in DOMAIN r.node, r.node[n].isLeaf,
           NEW nd, nd = r.node[n], NEW i \in 0 .. nd.numKeys - 1, NEW k, k = nd.entries[i].key
    PROVE  /\ k \in Ahead(r, reg, n, i) /\ k \in reg[n]
           /\ \A j \in Ahead(r, reg, n, i) : k <= j
           /\ LeastKey(Ahead(r, reg, n, i)) = k
<1>1. /\ HasKeys(nd) /\ Sorted(nd) /\ nd.numKeys \in Nat
      /\ NodeKeys(nd) = LeafKeys(r.node) \cap reg[n]
      /\ reg[n] \subseteq Int /\ Convex(reg[n])
  BY KeysAre
<1>2. k \in NodeKeys(nd) /\ k \in Nat
  BY <1>1 DEF NodeKeys, HasKeys
<1>3. k \in LeafKeys(r.node) /\ k \in reg[n] /\ k <= k
  BY <1>1, <1>2
<1>4. \A j \in 0 .. i - 1 : nd.entries[j].key < k
  BY <1>1 DEF Sorted
<1>5. k \in Ahead(r, reg, n, i)
  BY <1>3, <1>4 DEF Ahead
<1>6. ASSUME NEW j \in Ahead(r, reg, n, i) PROVE k <= j
  <2>1. PICK x \in reg[n] : x <= j
    BY DEF Ahead
  <2>2. j \in LeafKeys(r.node) /\ j \in Nat
    BY LeafKeysNat DEF Ahead
  <2>3. SUFFICES ASSUME j < k PROVE FALSE
    BY <1>2, <2>2
  <2>4. j \in reg[n]
    <3>1. x \in reg[n] /\ k \in reg[n] /\ j \in Int /\ x <= j /\ j <= k
      BY <1>2, <1>3, <2>1, <2>2, <2>3
    <3> QED
      BY <1>1, <3>1 DEF Convex
  <2>5. j \in NodeKeys(nd)
    BY <1>1, <2>2, <2>4
  <2>6. PICK h \in 0 .. nd.numKeys - 1 : j = nd.entries[h].key
    BY <2>5 DEF NodeKeys
  <2>7. ~(h < i)
    <3>1. h < i => nd.entries[h].key < j
      BY DEF Ahead
    <3> QED
      BY <2>2, <2>6, <3>1
  <2>8. ~(i < h)
    BY <1>1, <1>2, <2>2, <2>3, <2>6 DEF Sorted
  <2> QED
    BY <1>1, <1>2, <2>2, <2>3, <2>6, <2>7, <2>8
<1>7. Ahead(r, reg, n, i) \subseteq Nat
  BY LeafKeysNat DEF Ahead
<1> QED
  BY <1>3, <1>5, <1>6, <1>7, LeastIs

\* Going on by one entry.
LEMMA AheadNext ==
    ASSUME NEW r, NEW reg, NEW lev, Sound(r, reg, lev), NEW n \in DOMAIN r.node, r.node[n].isLeaf,
           NEW nd, nd = r.node[n], NEW i \in 0 .. nd.numKeys - 1, NEW k, k = nd.entries[i].key,
           NEW i2, i2 = i + 1
    PROVE  Ahead(r, reg, n, i2) = {j \in LeafKeys(r.node) : k < j}
<1>1. HasKeys(nd) /\ Sorted(nd) /\ nd.numKeys \in Nat
  BY KeysAre
<1>2. k \in reg[n] /\ k \in Nat
  BY <1>1, AheadFirst DEF HasKeys
<1>3. ASSUME NEW j \in Ahead(r, reg, n, i2) PROVE j \in LeafKeys(r.node) /\ k < j
  <2>1. i \in 0 .. i2 - 1
    BY <1>1
  <2> QED
    BY <2>1 DEF Ahead
<1>4. ASSUME NEW j \in LeafKeys(r.node), k < j PROVE j \in Ahead(r, reg, n, i2)
  <2>1. j \in Nat
    BY LeafKeysNat
  <2>2. k \in reg[n] /\ k <= j
    BY <1>2, <1>4, <2>1
  <2>3. ASSUME NEW h \in 0 .. i2 - 1 PROVE nd.entries[h].key < j
    <3>1. h = i \/ h < i
      BY <1>1
    <3>2. h \in 0 .. nd.numKeys - 1 /\ nd.entries[h].key \in Nat
      BY <1>1 DEF HasKeys
    <3>3. h < i => nd.entries[h].key < k
      BY <1>1, <3>2 DEF Sorted
    <3> QED
      BY <1>2, <1>4, <2>1, <3>1, <3>2, <3>3
  <2> QED
    BY <1>4, <2>2, <2>3 DEF Ahead
<1> QED
  BY <1>3, <1>4


\* No key ahead of the last entry is one the leaf may hold.
LEMMA AheadLast ==
    ASSUME NEW r, NEW reg, NEW lev, Sound(r, reg, lev), NEW n \in DOMAIN r.node, r.node[n].isLeaf,
           NEW i, i = r.node[n].numKeys
    PROVE  Ahead(r, reg, n, i) \cap reg[n] = {}
<1>1. PICK nd : nd = r.node[n]
  OBVIOUS
<1>2. HasKeys(nd) /\ nd.numKeys \in Nat /\ NodeKeys(nd) = LeafKeys(r.node) \cap reg[n]
  BY <1>1, KeysAre
<1>3. SUFFICES ASSUME NEW k \in Ahead(r, reg, n, i), k \in reg[n] PROVE FALSE
  OBVIOUS
<1>4. k \in NodeKeys(nd)
  BY <1>2, <1>3 DEF Ahead
<1>5. PICK j \in 0 .. nd.numKeys - 1 : k = nd.entries[j].key
  BY <1>4 DEF NodeKeys
<1>6. j \in 0 .. i - 1
  BY <1>1
<1>7. r.node[n].entries[j].key < k
  BY <1>3, <1>6 DEF Ahead
<1>8. nd.entries[j].key \in Nat
  BY <1>2 DEF HasKeys
<1> QED
  BY <1>1, <1>5, <1>7, <1>8

\* From the end of a leaf to the start of the next one.
LEMMA AheadMeets ==
    ASSUME NEW r, NEW reg, NEW lev, Sound(r, reg, lev), NEW n \in DOMAIN r.node, r.node[n].isLeaf,
           NEW m \in DOMAIN r.node, r.node[m].isLeaf, Below(reg[n], reg[m]), Meet(reg[n], reg[m]),
           NEW i, i = r.node[n].numKeys
    PROVE  Ahead(r, reg, m, 0) = Ahead(r, reg, n, i)
<1>1. /\ reg[n] \subseteq Int /\ reg[n] # {} /\ reg[m] \subseteq Int /\ reg[m] # {}
      /\ NodeKeys(r.node[n]) \subseteq reg[n] /\ r.node[n].numKeys \in Nat
  BY KeysAre
<1>2. LeafKeys(r.node) \subseteq Nat
  BY LeafKeysNat
<1>3. ASSUME NEW k \in Ahead(r, reg, n, i) PROVE k \in Ahead(r, reg, m, 0)
  <2>1. PICK x \in reg[n] : x <= k
    BY DEF Ahead
  <2>2. k \in LeafKeys(r.node) /\ k \in Int /\ k \notin reg[n]
    BY <1>2, AheadLast DEF Ahead
  <2>3. PICK y : y \in reg[m]
    BY <1>1
  <2>4. \E z \in reg[m] : z <= k
    <3>1. CASE y <= k
      BY <2>3, <3>1
    <3>2. CASE k <= y
      <4>1. k \in reg[m]
        BY <2>1, <2>2, <2>3, <3>2 DEF Meet
      <4> QED
        BY <2>2, <4>1
    <3> QED
      BY <1>1, <2>2, <2>3, <3>1, <3>2
  <2> QED
    BY <2>2, <2>4 DEF Ahead
<1>4. ASSUME NEW k \in Ahead(r, reg, m, 0) PROVE k \in Ahead(r, reg, n, i)
  <2>1. PICK y \in reg[m] : y <= k
    BY DEF Ahead
  <2>2. k \in LeafKeys(r.node) /\ k \in Int /\ y \in Int
    BY <1>1, <1>2 DEF Ahead
  <2>3. ASSUME NEW x \in reg[n] PROVE x < k /\ x <= k
    <3>1. x < y /\ x \in Int
      BY <1>1 DEF Below
    <3> QED
      BY <2>1, <2>2, <3>1
  <2>4. \E x \in reg[n] : x <= k
    BY <1>1, <2>3
  <2>5. ASSUME NEW j \in 0 .. i - 1 PROVE r.node[n].entries[j].key < k
    <3>1. r.node[n].entries[j].key \in reg[n]
      BY <1>1 DEF NodeKeys
    <3> QED
      BY <2>3, <3>1
  <2> QED
    BY <2>2, <2>4, <2>5 DEF Ahead
<1> QED
  BY <1>3, <1>4

\* The key under the cursor, or the next one, is the least of those ahead.
LEMMA PosIs ==
    ASSUME NEW r, NEW reg, NEW lev, Sound(r, reg, lev), NEW c, IsPath(r, c)
    PROVE  PosOf(r, c) = LeastKey(AheadOf(r, reg, c))
<1>1. PICK n : n = LeafOf(r, c)
  OBVIOUS
<1>2. PICK i : i = IndexOf(r, c)
  OBVIOUS
<1>3. PICK nd : nd = r.node[n]
  OBVIOUS
<1>4. /\ n \in DOMAIN r.node /\ nd.isLeaf
      /\ entryIndex(c) = i /\ currNode(r, c) = nd /\ i \in 0 .. nd.numKeys
  BY <1>1, <1>2, <1>3, PathIs DEF IndexOf
<1>5. HasKeys(nd) /\ nd.numKeys \in Nat
  BY <1>3, <1>4, KeysAre
<1>6. CASE i < nd.numKeys
  <2>1. i \in 0 .. nd.numKeys - 1
    BY <1>4, <1>5, <1>6
  <2>2. LeastKey(Ahead(r, reg, n, i)) = nd.entries[i].key
    BY <1>3, <1>4, <2>1, AheadFirst
  <2> QED
    BY <1>1, <1>2, <1>4, <1>6, <2>2 DEF PosOf, AheadOf
<1>7. CASE ~(i < nd.numKeys)
  <2>1. i = nd.numKeys
    BY <1>4, <1>5, <1>7
  <2>2. PICK T : T = {k \in LeafKeys(r.node) : nd.numKeys > 0 /\ k > nd.entries[nd.numKeys - 1].key}
    OBVIOUS
  <2>3. PosOf(r, c) = LeastKey(T)
    <3>1. LeafKeys(r.node) = {e.key : e \in Held(r)}
      BY HeldIs, Zenon DEF LeafKeys
    <3> QED
      BY <1>4, <1>7, <2>2, <3>1 DEF PosOf
  <2>4. T = Ahead(r, reg, n, i)
    <3>1. CASE nd.numKeys = 0
      <4>1. n = r.root
        BY <1>3, <1>4, <3>1 DEF Sound
      <4>2. reg[n] = Int
        BY <4>1, SoundIs
      <4>3. Ahead(r, reg, n, i) \subseteq Int
        BY LeafKeysNat DEF Ahead
      <4>4. Ahead(r, reg, n, i) = {}
        BY <1>3, <1>4, <2>1, <4>2, <4>3, AheadLast
      <4>5. T = {}
        BY <2>2, <3>1
      <4> QED
        BY <4>4, <4>5
    <3>2. CASE nd.numKeys # 0
      <4>1. PICK h : h = nd.numKeys - 1
        OBVIOUS
      <4>2. h \in 0 .. nd.numKeys - 1 /\ i = h + 1 /\ nd.numKeys > 0
        BY <1>5, <2>1, <3>2, <4>1
      <4>3. Ahead(r, reg, n, i) = {j \in LeafKeys(r.node) : nd.entries[h].key < j}
        BY <1>3, <1>4, <4>2, AheadNext
      <4>4. nd.entries[h].key \in Nat
        BY <1>5, <4>2 DEF HasKeys
      <4>5. \A k \in LeafKeys(r.node) : k > nd.entries[nd.numKeys - 1].key <=> nd.entries[h].key < k
        BY <4>1, <4>4, LeafKeysNat
      <4> QED
        BY <2>2, <4>2, <4>3, <4>5
    <3> QED
      BY <3>1, <3>2
  <2> QED
    BY <1>1, <1>2, <2>3, <2>4 DEF AheadOf
<1> QED
  BY <1>6, <1>7


-----------------------------------------------------------------------------
(* What the calls leave ahead of the cursor. *)

LEMMA NoRecords ==
    ASSUME NEW r, RelInv(r)
    PROVE  r.numRecords = 0 <=> LeafKeys(r.node) = {}
  BY FS_EmptySet DEF RelInv

\* A cursor of a relation that the invariant holds of.
Stands(r, reg, lev, c) == RelInv(r) /\ Sound(r, reg, lev) /\ IsPath(r, c)

LEMMA StandsAt ==
    ASSUME NEW r, NEW reg, NEW lev, NEW c, Stands(r, reg, lev, c),
           NEW n, n = LeafOf(r, c), NEW i, i = IndexOf(r, c), NEW nd, nd = r.node[n]
    PROVE  /\ n \in DOMAIN r.node /\ nd.isLeaf /\ nd.numKeys \in Nat /\ i \in 0 .. nd.numKeys
           /\ r.depth \in Nat /\ c.level = r.depth
           /\ entryIndex(c) = i /\ currNode(r, c) = nd
           /\ c.ancestorsIdx[r.depth] = i /\ c.ancestors[r.depth] = n
           /\ isValid(r, c) <=> ~(i = nd.numKeys /\ nd.LastLeaf)
           /\ isFirst(r, c) <=> i = 0 /\ nd.FirstLeaf
           /\ AheadOf(r, reg, c) = Ahead(r, reg, n, i)
           /\ \A k \in LeafKeys(r.node) : k \in Nat
<1>1. Sound(r, reg, lev) /\ IsPath(r, c)
  BY DEF Stands
<1>2. /\ n \in DOMAIN r.node /\ nd.isLeaf /\ i \in 0 .. nd.numKeys
      /\ entryIndex(c) = i /\ currNode(r, c) = nd
  BY <1>1, PathIs DEF IndexOf
<1>3. nd.numKeys \in Nat
  BY <1>1, <1>2, KeysAre
<1>4. r.depth \in Nat /\ c.level = r.depth
  BY <1>1, SoundIs DEF IsPath
<1>5. isValid(r, c) <=> ~(i = nd.numKeys /\ nd.LastLeaf)
  BY <1>2 DEF isValid
<1>6. isFirst(r, c) <=> i = 0 /\ nd.FirstLeaf
  BY <1>2 DEF isFirst
<1>7. \A k \in LeafKeys(r.node) : k \in Nat
  BY <1>1, LeafKeysNat
<1> QED
  BY <1>2, <1>3, <1>4, <1>5, <1>6, <1>7 DEF AheadOf, IndexOf, LeafOf

LEMMA NotTheRoot ==
    ASSUME NEW r, NEW reg, NEW lev, NEW c, Stands(r, reg, lev, c), r.depth # 0,
           NEW n, n = LeafOf(r, c)
    PROVE  n # r.root /\ r.node[n].numKeys >= 1
<1>1. Sound(r, reg, lev) /\ n \in DOMAIN r.node /\ r.node[n].isLeaf
  <2>1. Sound(r, reg, lev)
    BY DEF Stands
  <2>2. n \in DOMAIN r.node /\ r.node[n].isLeaf
    BY StandsAt
  <2> QED
    BY <2>1, <2>2
<1>2. lev[n] = r.depth /\ lev[r.root] = 0
  BY <1>1, KeysAre, SoundIs
<1> QED
  BY <1>1, <1>2 DEF Sound

\* moveToNext inside a leaf, and from one to the next.
LEMMA NextInside ==
    ASSUME NEW r, NEW reg, NEW lev, NEW c, Stands(r, reg, lev, c), IndexOf(r, c) < r.node[LeafOf(r, c)].numKeys,
           NEW d, d = moveToNext(r, c)
    PROVE  /\ Stands(r, reg, lev, d)
           /\ LeafOf(r, d) = LeafOf(r, c) /\ IndexOf(r, d) = IndexOf(r, c) + 1
<1>1. PICK n : n = LeafOf(r, c)
  OBVIOUS
<1>2. PICK i : i = IndexOf(r, c)
  OBVIOUS
<1>3. PICK nd : nd = r.node[n]
  OBVIOUS
<1>4. /\ n \in DOMAIN r.node /\ nd.isLeaf /\ nd.numKeys \in Nat /\ i \in 0 .. nd.numKeys - 1
      /\ r.depth \in Nat /\ isValid(r, c)
      /\ c.ancestorsIdx[r.depth] = i /\ c.ancestors[r.depth] = n
  BY <1>1, <1>2, <1>3, StandsAt
<1>5. IsPath(r, d) /\ NextGoes(r, c, d)
  BY NextStays DEF Stands
<1>6. r.numRecords # 0
  <2>1. nd.entries[i].key \in NodeKeys(nd)
    BY <1>4 DEF NodeKeys
  <2>2. nd.entries[i].key \in LeafKeys(r.node)
    BY <1>3, <1>4, <2>1, InLeaf
  <2> QED
    BY <2>2, NoRecords DEF Stands
<1>7. PICK top : /\ top \in 0 .. r.depth
                 /\ Aside(r, c, d, top, 1)
                 /\ \A j \in top + 1 .. r.depth : AtEnd(r, c, TRUE, j)
  BY <1>4, <1>5, <1>6 DEF NextGoes
<1>8. ~AtEnd(r, c, TRUE, r.depth)
  BY <1>3, <1>4 DEF AtEnd, lastpointer
<1>9. top = r.depth
  <2>1. top # r.depth => r.depth \in top + 1 .. r.depth
    BY <1>4, <1>7
  <2> QED
    BY <1>7, <1>8, <2>1
<1>10. LeafOf(r, d) = LeafOf(r, c) /\ IndexOf(r, d) = IndexOf(r, c) + 1
  BY <1>7, <1>9 DEF Aside, LeafOf, IndexOf
<1> QED
  BY <1>5, <1>10 DEF Stands

LEMMA NextAcross ==
    ASSUME NEW r, NEW reg, NEW lev, NEW c, Stands(r, reg, lev, c), IndexOf(r, c) = r.node[LeafOf(r, c)].numKeys,
           isValid(r, c), r.numRecords # 0, NEW d, d = moveToNext(r, c)
    PROVE  /\ Stands(r, reg, lev, d)
           /\ IndexOf(r, d) = 0 /\ IndexOf(r, d) < r.node[LeafOf(r, d)].numKeys
           /\ AheadOf(r, reg, d) = AheadOf(r, reg, c)
<1>1. PICK n : n = LeafOf(r, c)
  OBVIOUS
<1>2. PICK i : i = IndexOf(r, c)
  OBVIOUS
<1>3. PICK m : m = LeafOf(r, d)
  OBVIOUS
<1>4. /\ n \in DOMAIN r.node /\ r.node[n].isLeaf /\ i = r.node[n].numKeys /\ r.depth \in Nat
      /\ c.ancestorsIdx[r.depth] = i /\ c.ancestors[r.depth] = n
  BY <1>1, <1>2, StandsAt
<1>5. IsPath(r, d) /\ NextGoes(r, c, d)
  BY NextStays DEF Stands
<1>6. Stands(r, reg, lev, d)
  BY <1>5 DEF Stands
<1>7. /\ m \in DOMAIN r.node /\ r.node[m].isLeaf
      /\ d.ancestorsIdx[r.depth] = IndexOf(r, d) /\ d.ancestors[r.depth] = m
  BY <1>3, <1>6, StandsAt
<1>8. PICK top : /\ top \in 0 .. r.depth
                 /\ Aside(r, c, d, top, 1)
                 /\ ~AtEnd(r, c, TRUE, top)
                 /\ \A j \in top + 1 .. r.depth : AtEnd(r, c, TRUE, j) /\ AtEnd(r, d, FALSE, j)
  BY <1>5 DEF NextGoes
<1>9. AtEnd(r, c, TRUE, r.depth)
  BY <1>4 DEF AtEnd, lastpointer
<1>10. top \in 0 .. r.depth - 1 /\ r.depth # 0 /\ r.depth \in top + 1 .. r.depth
  <2>1. top # r.depth
    BY <1>8, <1>9
  <2> QED
    BY <1>4, <1>8, <2>1
<1>11. IndexOf(r, d) = 0
  BY <1>7, <1>8, <1>10 DEF AtEnd, firstpointer
<1>12. r.node[m].numKeys >= 1 /\ r.node[m].numKeys \in Nat
  BY <1>3, <1>6, <1>10, NotTheRoot, StandsAt
<1>13. Neighbours(r, c, d, top)
  BY <1>8, <1>10 DEF Neighbours
<1>14. LastBelow(r, c, top) /\ FirstBelow(r, d, top)
  <2>1. \A j \in top + 1 .. r.depth - 1 : j \in top + 1 .. r.depth
    BY <1>4
  <2> QED
    BY <1>8, <2>1 DEF LastBelow, FirstBelow
<1>15. Below(reg[n], reg[m]) /\ Meet(reg[n], reg[m])
  <2>1. Sound(r, reg, lev) /\ IsPath(r, c)
    BY DEF Stands
  <2> QED
    BY <1>1, <1>3, <1>5, <1>13, <1>14, <2>1, Beside
<1>16. Ahead(r, reg, m, 0) = Ahead(r, reg, n, i)
  <2>1. Sound(r, reg, lev)
    BY DEF Stands
  <2> QED
    BY <1>4, <1>7, <1>15, <2>1, AheadMeets
<1> QED
  BY <1>1, <1>2, <1>3, <1>6, <1>11, <1>12, <1>16 DEF AheadOf

LEMMA ValidIs ==
    ASSUME NEW r, NEW reg, NEW lev, NEW c, Stands(r, reg, lev, c)
    PROVE  isValid(r, c) <=> AheadOf(r, reg, c) # {}
<1>1. PICK n : n = LeafOf(r, c)
  OBVIOUS
<1>2. PICK i : i = IndexOf(r, c)
  OBVIOUS
<1>3. PICK nd : nd = r.node[n]
  OBVIOUS
<1>4. /\ n \in DOMAIN r.node /\ nd.isLeaf /\ nd.numKeys \in Nat /\ i \in 0 .. nd.numKeys
      /\ isValid(r, c) <=> ~(i = nd.numKeys /\ nd.LastLeaf)
  BY <1>1, <1>2, <1>3, StandsAt
<1>4a. AheadOf(r, reg, c) = Ahead(r, reg, n, i)
  BY <1>1, <1>2 DEF AheadOf
<1>5. Sound(r, reg, lev) /\ RelInv(r)
  BY DEF Stands
<1>6. CASE i < nd.numKeys
  <2>1. i \in 0 .. nd.numKeys - 1
    BY <1>4, <1>6
  <2>2. nd.entries[i].key \in Ahead(r, reg, n, i)
    BY <1>3, <1>4, <1>5, <2>1, AheadFirst
  <2> QED
    BY <1>4, <1>4a, <1>6, <2>2
<1>7. CASE i = nd.numKeys /\ nd.LastLeaf
  <2>1. UpClosed(reg[n]) /\ Ahead(r, reg, n, i) \cap reg[n] = {}
    BY <1>3, <1>4, <1>5, <1>7, KeysAre, AheadLast
  <2>2. ASSUME NEW k \in Ahead(r, reg, n, i) PROVE k \in reg[n]
    <3>1. PICK x \in reg[n] : x <= k
      BY DEF Ahead
    <3>2. k \in Int
      BY <1>5, LeafKeysNat DEF Ahead
    <3> QED
      BY <2>1, <3>1, <3>2 DEF UpClosed
  <2> QED
    BY <1>4, <1>4a, <1>7, <2>1, <2>2
<1>8. CASE i = nd.numKeys /\ ~nd.LastLeaf
  <2>1. isValid(r, c)
    BY <1>4, <1>8
  <2>2. n # r.root
    <3>1. ~UpClosed(reg[n])
      BY <1>3, <1>4, <1>5, <1>8, KeysAre
    <3>2. reg[r.root] = Int
      BY <1>5, SoundIs
    <3>3. UpClosed(Int)
      BY DEF UpClosed
    <3> QED
      BY <3>1, <3>2, <3>3
  <2>3. nd.numKeys >= 1
    BY <1>3, <1>4, <1>5, <2>2 DEF Sound
  <2>4. r.numRecords # 0
    <3>1. nd.entries[0].key \in NodeKeys(nd)
      BY <1>4, <2>3 DEF NodeKeys
    <3>2. nd.entries[0].key \in LeafKeys(r.node)
      BY <1>3, <1>4, <3>1, InLeaf
    <3> QED
      BY <1>5, <3>2, NoRecords
  <2>5. PICK d : d = moveToNext(r, c)
    OBVIOUS
  <2>6. /\ Stands(r, reg, lev, d) /\ IndexOf(r, d) < r.node[LeafOf(r, d)].numKeys
        /\ AheadOf(r, reg, d) = AheadOf(r, reg, c)
    BY <1>1, <1>2, <1>3, <1>8, <2>1, <2>4, <2>5, NextAcross
  <2>7. AheadOf(r, reg, d) # {}
    <3>1. PICK m : m = LeafOf(r, d)
      OBVIOUS
    <3>2. PICK j : j = IndexOf(r, d)
      OBVIOUS
    <3>3. m \in DOMAIN r.node /\ r.node[m].isLeaf /\ j \in 0 .. r.node[m].numKeys - 1
      BY <2>6, <3>1, <3>2, StandsAt
    <3>4. r.node[m].entries[j].key \in Ahead(r, reg, m, j)
      BY <1>5, <3>3, AheadFirst
    <3> QED
      BY <3>1, <3>2, <3>4 DEF AheadOf
  <2> QED
    BY <2>1, <2>6, <2>7
<1> QED
  BY <1>4, <1>6, <1>7, <1>8


LEMMA NoneAhead ==
    ASSUME NEW r, NEW reg, NEW lev, NEW c, Stands(r, reg, lev, c)
    PROVE  /\ AheadOf(r, reg, c) \subseteq LeafKeys(r.node) /\ AheadOf(r, reg, c) \subseteq Nat
           /\ r.numRecords = 0 => AheadOf(r, reg, c) = {}
<1>1. AheadOf(r, reg, c) \subseteq LeafKeys(r.node)
  BY DEF AheadOf, Ahead
<1>2. LeafKeys(r.node) \subseteq Nat /\ (r.numRecords = 0 => LeafKeys(r.node) = {})
  BY LeafKeysNat, NoRecords DEF Stands
<1> QED
  BY <1>1, <1>2

\* At an entry, unless there is none ahead.
LEMMA AtEntryIs ==
    ASSUME NEW r, NEW reg, NEW lev, NEW c, Stands(r, reg, lev, c), NEW d, d = atEntry(r, c)
    PROVE  /\ Stands(r, reg, lev, d) /\ AheadOf(r, reg, d) = AheadOf(r, reg, c)
           /\ AheadOf(r, reg, c) # {} => IndexOf(r, d) < r.node[LeafOf(r, d)].numKeys
<1>1. PICK n : n = LeafOf(r, c)
  OBVIOUS
<1>2. PICK i : i = IndexOf(r, c)
  OBVIOUS
<1>3. /\ r.node[n].numKeys \in Nat /\ i \in 0 .. r.node[n].numKeys
      /\ entryIndex(c) = i /\ currNode(r, c) = r.node[n]
  BY <1>1, <1>2, StandsAt
<1>4. CASE i # r.node[n].numKeys
  <2>1. d = c
    BY <1>3, <1>4 DEF atEntry
  <2>2. i < r.node[n].numKeys
    BY <1>3, <1>4
  <2> QED
    BY <1>1, <1>2, <2>1, <2>2
<1>5. CASE i = r.node[n].numKeys
  <2>1. d = moveToNext(r, c)
    BY <1>3, <1>5 DEF atEntry
  <2>2. CASE AheadOf(r, reg, c) = {}
    <3>1. d = c
      <4>1. ~isValid(r, c)
        BY <2>2, ValidIs
      <4> QED
        BY <2>1, <4>1 DEF moveToNext
    <3> QED
      BY <2>2, <3>1
  <2>3. CASE AheadOf(r, reg, c) # {}
    <3>1. isValid(r, c) /\ r.numRecords # 0
      BY <2>3, ValidIs, NoneAhead
    <3> QED
      BY <1>1, <1>2, <1>5, <2>1, <3>1, NextAcross
  <2> QED
    BY <2>2, <2>3
<1> QED
  BY <1>4, <1>5

\* What is after the first of some keys, of all there are.
Later(S, all) == IF S = {} THEN {} ELSE {k \in all : LeastKey(S) < k}

LEMMA NextIs ==
    ASSUME NEW r, NEW reg, NEW lev, NEW c, Stands(r, reg, lev, c),
           AheadOf(r, reg, c) # {} => IndexOf(r, c) < r.node[LeafOf(r, c)].numKeys,
           NEW d, d = moveToNext(r, c)
    PROVE  Stands(r, reg, lev, d) /\ AheadOf(r, reg, d) = Later(AheadOf(r, reg, c), LeafKeys(r.node))
<1>1. CASE AheadOf(r, reg, c) = {}
  <2>1. ~isValid(r, c)
    BY <1>1, ValidIs
  <2>2. d = c
    BY <2>1 DEF moveToNext
  <2> QED
    BY <1>1, <2>2 DEF Later
<1>2. CASE AheadOf(r, reg, c) # {}
  <2>1. PICK n : n = LeafOf(r, c)
    OBVIOUS
  <2>2. PICK i : i = IndexOf(r, c)
    OBVIOUS
  <2>3. PICK nd : nd = r.node[n]
    OBVIOUS
  <2>4. /\ n \in DOMAIN r.node /\ nd.isLeaf /\ i \in 0 .. nd.numKeys - 1 /\ i < nd.numKeys
        /\ AheadOf(r, reg, c) = Ahead(r, reg, n, i)
    BY <1>2, <2>1, <2>2, <2>3, StandsAt
  <2>5. Stands(r, reg, lev, d) /\ LeafOf(r, d) = n /\ IndexOf(r, d) = i + 1
    BY <1>2, <2>1, <2>2, NextInside
  <2>6. AheadOf(r, reg, d) = Ahead(r, reg, n, i + 1)
    BY <2>5 DEF AheadOf
  <2>7. PICK k : k = nd.entries[i].key
    OBVIOUS
  <2>8. Sound(r, reg, lev)
    BY DEF Stands
  <2>9. LeastKey(AheadOf(r, reg, c)) = k
    BY <2>3, <2>4, <2>7, <2>8, AheadFirst
  <2>10. Ahead(r, reg, n, i + 1) = {j \in LeafKeys(r.node) : k < j}
    BY <2>3, <2>4, <2>7, <2>8, AheadNext
  <2> QED
    BY <1>2, <2>5, <2>6, <2>9, <2>10 DEF Later
<1> QED
  BY <1>1, <1>2

LEMMA AfterNextIs ==
    ASSUME NEW r, NEW reg, NEW lev, NEW c, Stands(r, reg, lev, c), NEW d, d = afterNext(r, c)
    PROVE  Stands(r, reg, lev, d) /\ AheadOf(r, reg, d) = Later(AheadOf(r, reg, c), LeafKeys(r.node))
<1>1. PICK at : at = atEntry(r, c)
  OBVIOUS
<1>2. /\ Stands(r, reg, lev, at) /\ AheadOf(r, reg, at) = AheadOf(r, reg, c)
      /\ AheadOf(r, reg, c) # {} => IndexOf(r, at) < r.node[LeafOf(r, at)].numKeys
  BY <1>1, AtEntryIs
<1>3. d = moveToNext(r, at)
  BY <1>1 DEF afterNext
<1> QED
  BY <1>2, <1>3, NextIs

\* A walk down to a key.
NotBelow(all, key) == {k \in all : k >= key}

LEMMA GoToKeyIs ==
    ASSUME NEW r, NEW reg, NEW lev, NEW c, Stands(r, reg, lev, c), NEW key \in Nat, NEW d, d = goToKey(r, c, key)
    PROVE  Stands(r, reg, lev, d) /\ AheadOf(r, reg, d) = NotBelow(LeafKeys(r.node), key)
<1>1. Sound(r, reg, lev) /\ IsPath(r, c) /\ r.depth \in Nat
  BY SoundIs DEF Stands
<1>2. /\ IsPath(r, d) /\ Comes(reg, d.ancestors, 0, r.depth, key)
      /\ d.ancestorsIdx[r.depth] = findRecordIndex(r.node[d.ancestors[r.depth]], key)
  BY <1>1, GoToKey
<1>3. Stands(r, reg, lev, d)
  BY <1>2 DEF Stands
<1>4. PICK n : n = LeafOf(r, d)
  OBVIOUS
<1>5. PICK i : i = IndexOf(r, d)
  OBVIOUS
<1>6. PICK nd : nd = r.node[n]
  OBVIOUS
<1>7. /\ n \in DOMAIN r.node /\ nd.isLeaf
      /\ AheadOf(r, reg, d) = Ahead(r, reg, n, i) /\ \A k \in LeafKeys(r.node) : k \in Nat
  BY <1>3, <1>4, <1>5, <1>6, StandsAt
<1>8. /\ HasKeys(nd) /\ Sorted(nd) /\ nd.numKeys \in Nat
      /\ NodeKeys(nd) = LeafKeys(r.node) \cap reg[n]
      /\ reg[n] \subseteq Int /\ Convex(reg[n])
  BY <1>1, <1>6, <1>7, KeysAre
<1>9. key \in reg[n] /\ i = findRecordIndex(nd, key)
  BY <1>1, <1>2, <1>4, <1>5, <1>6 DEF Comes, LeafOf, IndexOf
<1>10. /\ i \in 0 .. nd.numKeys
       /\ \A j \in 0 .. i - 1 : nd.entries[j].key < key
       /\ i < nd.numKeys => key <= nd.entries[i].key
  BY <1>8, <1>9, RecordIndex
<1>11. ASSUME NEW k \in LeafKeys(r.node), k >= key PROVE k \in Ahead(r, reg, n, i)
  <2>1. k \in Nat /\ key <= k
    BY <1>7, <1>11
  <2>2. ASSUME NEW j \in 0 .. i - 1 PROVE nd.entries[j].key < k
    <3>1. nd.entries[j].key < key /\ nd.entries[j].key \in Nat
      BY <1>8, <1>10 DEF HasKeys
    <3> QED
      BY <2>1, <3>1
  <2> QED
    BY <1>6, <1>9, <2>1, <2>2 DEF Ahead
<1>12. ASSUME NEW k \in Ahead(r, reg, n, i) PROVE k \in LeafKeys(r.node) /\ k >= key
  <2>1. PICK x \in reg[n] : x <= k
    BY DEF Ahead
  <2>2. k \in LeafKeys(r.node) /\ k \in Nat /\ k \in Int
    BY <1>7 DEF Ahead
  <2>3. SUFFICES ASSUME k < key PROVE FALSE
    BY <2>2
  <2>4. k \in reg[n]
    <3>1. k <= key
      BY <2>2, <2>3
    <3> QED
      BY <1>8, <1>9, <2>1, <2>2, <3>1 DEF Convex
  <2>5. PICK h \in 0 .. nd.numKeys - 1 : k = nd.entries[h].key
    BY <1>8, <2>2, <2>4 DEF NodeKeys
  <2>6. ~(h < i)
    <3>1. h < i => nd.entries[h].key < k
      BY <1>6, <1>10 DEF Ahead
    <3> QED
      BY <2>2, <2>5, <3>1
  <2>7. i \in 0 .. nd.numKeys - 1 /\ (i = h \/ i < h)
    BY <1>8, <1>10, <2>6
  <2>8. key <= nd.entries[i].key /\ nd.entries[i].key \in Nat
    BY <1>8, <1>10, <2>7 DEF HasKeys
  <2>9. i < h => nd.entries[i].key < k
    BY <1>8, <2>5, <2>7 DEF Sorted
  <2> QED
    BY <2>2, <2>3, <2>5, <2>7, <2>8, <2>9
<1>13. Ahead(r, reg, n, i) = NotBelow(LeafKeys(r.node), key)
  BY <1>11, <1>12 DEF NotBelow
<1> QED
  BY <1>3, <1>7, <1>13

LEMMA AfterMoveToKeyIs ==
    ASSUME NEW r, NEW reg, NEW lev, NEW c, Stands(r, reg, lev, c), NEW key \in Nat,
           NEW d, d = afterMoveToKey(r, c, key)
    PROVE  /\ Stands(r, reg, lev, d) /\ AheadOf(r, reg, d) = NotBelow(LeafKeys(r.node), key)
           /\ AheadOf(r, reg, d) # {} => IndexOf(r, d) < r.node[LeafOf(r, d)].numKeys
<1>1. PICK at : at = goToKey(r, c, key)
  OBVIOUS
<1>2. Stands(r, reg, lev, at) /\ AheadOf(r, reg, at) = NotBelow(LeafKeys(r.node), key)
  BY <1>1, GoToKeyIs
<1>3. d = IF isValid(r, at) THEN atEntry(r, at) ELSE at
  BY <1>1 DEF afterMoveToKey
<1>4. isValid(r, at) <=> AheadOf(r, reg, at) # {}
  BY <1>2, ValidIs
<1>5. CASE isValid(r, at)
  BY <1>2, <1>3, <1>5, AtEntryIs
<1>6. CASE ~isValid(r, at)
  BY <1>2, <1>3, <1>4, <1>6
<1> QED
  BY <1>5, <1>6


LEMMA FromRootIs ==
    ASSUME NEW r, RelInv(r), NEW reg, NEW lev, Sound(r, reg, lev), NEW c,
           c.ancestors \in [Levels -> DOMAIN r.node \cup {NULL}], c.ancestorsIdx \in [Levels -> -1 .. FANOUT],
           NEW d, d = moveToFirst(r, r.root, c, 0)
    PROVE  Stands(r, reg, lev, d) /\ AheadOf(r, reg, d) = LeafKeys(r.node)
<1>1. PICK level, n : level = 0 /\ level \in Int /\ n = r.root
  OBVIOUS
<1>2. r.depth \in Nat /\ reg[n] = Int
  BY <1>1, SoundIs
<1>3. level \in 0 .. r.depth /\ Leads(r, c, n, level) /\ d = moveToFirst(r, n, c, level)
  BY <1>1, <1>2 DEF Leads
<1>4. /\ IsPath(r, d) /\ d.ancestors[level] = n
      /\ \A l \in level .. r.depth : d.ancestorsIdx[l] = firstpointer(r.node[d.ancestors[l]])
  BY <1>3, ToFirst
<1>5. Stands(r, reg, lev, d)
  BY <1>4 DEF Stands
<1>6. PICK anc, ix : anc = d.ancestors /\ ix = d.ancestorsIdx
  OBVIOUS
<1>7. PICK m : m = LeafOf(r, d)
  OBVIOUS
<1>8. /\ m \in DOMAIN r.node /\ r.node[m].isLeaf /\ anc[r.depth] = m /\ IndexOf(r, d) = ix[r.depth]
      /\ \A k \in LeafKeys(r.node) : k \in Nat
  BY <1>5, <1>6, <1>7, StandsAt
<1>9. IndexOf(r, d) = 0
  BY <1>1, <1>2, <1>4, <1>6, <1>8 DEF firstpointer
<1>10. Along(r, reg, lev, anc, ix, r.depth)
  BY <1>4, <1>6, PathIs
<1>11. ASSUME NEW l \in level .. r.depth - 1 PROVE ix[l] = -1
  <2>1. l \in 0 .. r.depth - 1 /\ l \in level .. r.depth
    BY <1>1, <1>2
  <2>2. ~r.node[anc[l]].isLeaf
    BY <1>10, <2>1, GoesDown
  <2> QED
    BY <1>4, <1>6, <2>1, <2>2 DEF firstpointer
<1>12. DownIn(reg[m], Int)
  <2>1. \A l \in level .. r.depth - 1 : ix[l] = -1
    BY <1>11
  <2>2. DownIn(reg[anc[r.depth]], reg[anc[level]])
    BY <1>3, <1>10, <2>1, DownAlong
  <2> QED
    BY <1>2, <1>4, <1>6, <1>8, <2>2
<1>13. reg[m] # {}
  BY <1>8, KeysAre
<1>14. ASSUME NEW k \in LeafKeys(r.node) PROVE k \in Ahead(r, reg, m, 0)
  <2>1. PICK x : x \in reg[m]
    BY <1>13
  <2>2. x \in Int /\ k \in Int
    BY <1>8, <1>12, <2>1 DEF DownIn
  <2>3. \E y \in reg[m] : y <= k
    <3>1. CASE x <= k
      BY <2>1, <3>1
    <3>2. CASE k <= x
      <4>1. k \in reg[m]
        BY <1>12, <2>1, <2>2, <3>2 DEF DownIn
      <4> QED
        BY <2>2, <4>1
    <3> QED
      BY <2>2, <3>1, <3>2
  <2> QED
    BY <2>3 DEF Ahead
<1>15. Ahead(r, reg, m, 0) = LeafKeys(r.node)
  BY <1>14 DEF Ahead
<1> QED
  BY <1>5, <1>7, <1>9, <1>15 DEF AheadOf

\* The map once a key has a record.
Bound(map, key, record) == [j \in DOMAIN map \cup {key} |-> IF j = key THEN record ELSE map[j]]

LEMMA MapBound ==
    ASSUME NEW r, NEW reg, NEW lev, Sound(r, reg, lev), NEW r2, NEW reg2, NEW lev2, Sound(r2, reg2, lev2),
           NEW key, NEW record, NEW e, e = [key |-> key, ptr |-> record],
           LeafEntries(r2.node) = WithEntry(LeafEntries(r.node), e)
    PROVE  MapOf(r2) = Bound(MapOf(r), key, record)
<1>1. PICK m, m2 : m = MapOf(r) /\ m2 = MapOf(r2)
  OBVIOUS
<1>2. m2 = [k \in DOMAIN m2 |-> m2[k]]
  BY <1>1, MapIs DEF MapTo
<1>3. DOMAIN m = LeafKeys(r.node) /\ DOMAIN m2 = LeafKeys(r2.node)
  BY <1>1, MapIs
<1>4. LeafKeys(r2.node) = LeafKeys(r.node) \cup {key}
  <2>1. PICK S, T : S = LeafEntries(r.node) /\ T = LeafEntries(r2.node)
    OBVIOUS
  <2>2. T = WithEntry(S, e) /\ e.key = key
    BY <2>1
  <2>3. {x.key : x \in T} = {x.key : x \in S} \cup {e.key}
    BY <2>2, KeysWith
  <2> QED
    BY <2>1, <2>2, <2>3 DEF LeafKeys
<1>5. ASSUME NEW k \in LeafKeys(r2.node) PROVE m2[k] = IF k = key THEN record ELSE m[k]
  <2>1. PICK x \in LeafEntries(r2.node) : x.key = k
    BY DEF LeafKeys
  <2>2. m2[k] = x.ptr
    BY <1>1, <2>1, MapsTo
  <2>3. CASE k = key
    <3>1. x = e
      BY <2>1, <2>3 DEF WithEntry
    <3> QED
      BY <2>2, <2>3, <3>1
  <2>4. CASE k # key
    <3>1. x \in LeafEntries(r.node)
      BY <2>1, <2>4 DEF WithEntry
    <3>2. m[k] = x.ptr
      BY <1>1, <2>1, <3>1, MapsTo
    <3> QED
      BY <2>2, <2>4, <3>2
  <2> QED
    BY <2>3, <2>4
<1>6. m2 = Bound(m, key, record)
  BY <1>2, <1>3, <1>4, <1>5 DEF Bound
<1> QED
  BY <1>1, <1>6

After(r, reg, c, key) == AheadOf(r, reg, c) = {k \in LeafKeys(r.node) : key < k}

LEMMA SoughtAt ==
    ASSUME NEW r, NEW c, NEW key, Sought(r, c, key), NEW n, n = LeafOf(r, c), NEW i, i = IndexOf(r, c)
    PROVE  i < r.node[n].numKeys /\ r.node[n].entries[i].key = key
  BY DEF Sought, LeafOf, IndexOf

LEMMA AfterPutIs ==
    ASSUME NEW r, NEW reg, NEW lev, NEW c, Stands(r, reg, lev, c), NEW key \in Keys, NEW record \in Records,
           NEW out, out = afterPut(r, c, key, record), out.rel.depth \in Levels, NEW r2, r2 = out.rel
    PROVE  /\ MapOf(r2) = Bound(MapOf(r), key, record)
           /\ \E reg2, lev2 : Stands(r2, reg2, lev2, out.cur) /\ After(r2, reg2, out.cur, key)
<1>1. RelInv(r) /\ Sound(r, reg, lev) /\ IsPath(r, c) /\ r.depth \in Levels
  BY SoundIs DEF Stands
<1>2. PICK e : e = [key |-> key, ptr |-> record]
  OBVIOUS
<1>3. /\ RelInv(r2) /\ r2.depth \in Levels
      /\ LeafEntries(r2.node) = WithEntry(LeafEntries(r.node), e)
      /\ \E cur : IsPath(r2, cur) /\ Sought(r2, cur, key) /\ out.cur = afterNext(r2, cur)
  BY <1>1, <1>2, AfterPut
<1>4. PICK reg2, lev2 : Whole(r2.node, r2.root, r2.depth, reg2, lev2)
  BY <1>3 DEF RelInv
<1>5. Sound(r2, reg2, lev2)
  BY <1>3, <1>4, RelSound
<1>6. MapOf(r2) = Bound(MapOf(r), key, record)
  BY <1>1, <1>2, <1>3, <1>5, MapBound
<1>7. PICK cur : IsPath(r2, cur) /\ Sought(r2, cur, key) /\ out.cur = afterNext(r2, cur)
  BY <1>3
<1>8. Stands(r2, reg2, lev2, cur)
  BY <1>3, <1>5, <1>7 DEF Stands
<1>9. PICK at : at = out.cur
  OBVIOUS
<1>10. Stands(r2, reg2, lev2, at) /\ AheadOf(r2, reg2, at) = Later(AheadOf(r2, reg2, cur), LeafKeys(r2.node))
  BY <1>7, <1>8, <1>9, AfterNextIs
<1>11. PICK n, i, nd : n = LeafOf(r2, cur) /\ i = IndexOf(r2, cur) /\ nd = r2.node[n]
  OBVIOUS
<1>12. i < nd.numKeys /\ nd.entries[i].key = key
  <2>1. Sought(r2, cur, key)
    BY <1>7
  <2> QED
    BY <1>11, <2>1, SoughtAt
<1>13. n \in DOMAIN r2.node /\ nd.isLeaf /\ i \in 0 .. nd.numKeys - 1 /\ AheadOf(r2, reg2, cur) = Ahead(r2, reg2, n, i)
  BY <1>8, <1>11, <1>12, StandsAt
<1>14. key \in AheadOf(r2, reg2, cur) /\ LeastKey(AheadOf(r2, reg2, cur)) = key
  BY <1>5, <1>11, <1>12, <1>13, AheadFirst
<1>15. After(r2, reg2, at, key)
  <2>1. AheadOf(r2, reg2, cur) # {}
    BY <1>14
  <2> QED
    BY <1>10, <1>14, <2>1 DEF After, Later
<1> QED
  BY <1>6, <1>9, <1>10, <1>15


\* moveToPrev inside a leaf, at the first entry, and from one leaf to another.
LEMMA PrevInside ==
    ASSUME NEW r, NEW reg, NEW lev, NEW c, Stands(r, reg, lev, c), IndexOf(r, c) # 0,
           NEW d, d = moveToPrev(r, c), NEW q, q = LeastKey(AheadOf(r, reg, d))
    PROVE  /\ Stands(r, reg, lev, d)
           /\ q \in LeafKeys(r.node) /\ q \in reg[LeafOf(r, c)] /\ After(r, reg, c, q)
<1>1. PICK n : n = LeafOf(r, c)
  OBVIOUS
<1>2. PICK i : i = IndexOf(r, c)
  OBVIOUS
<1>3. PICK nd : nd = r.node[n]
  OBVIOUS
<1>4. /\ n \in DOMAIN r.node /\ nd.isLeaf /\ nd.numKeys \in Nat /\ i \in 0 .. nd.numKeys
      /\ r.depth \in Nat /\ ~isFirst(r, c)
      /\ c.ancestorsIdx[r.depth] = i /\ c.ancestors[r.depth] = n
      /\ AheadOf(r, reg, c) = Ahead(r, reg, n, i)
  BY <1>1, <1>2, <1>3, StandsAt
<1>5. IsPath(r, d) /\ PrevGoes(r, c, d)
  BY PrevStays DEF Stands
<1>6. PICK h : h = i - 1
  OBVIOUS
<1>7. h \in 0 .. nd.numKeys - 1 /\ i = h + 1 /\ i # 0 /\ i + -1 = h
  BY <1>2, <1>4, <1>6
<1>8. r.numRecords # 0
  <2>1. nd.entries[h].key \in NodeKeys(nd)
    BY <1>7 DEF NodeKeys
  <2>2. nd.entries[h].key \in LeafKeys(r.node)
    BY <1>3, <1>4, <2>1, InLeaf
  <2> QED
    BY <2>2, NoRecords DEF Stands
<1>9. PICK top : /\ top \in 0 .. r.depth
                 /\ Aside(r, c, d, top, -1)
                 /\ \A j \in top + 1 .. r.depth : AtEnd(r, c, FALSE, j)
  BY <1>4, <1>5, <1>8 DEF PrevGoes
<1>10. ~AtEnd(r, c, FALSE, r.depth)
  BY <1>3, <1>4, <1>7 DEF AtEnd, firstpointer
<1>11. top = r.depth
  <2>1. top # r.depth => r.depth \in top + 1 .. r.depth
    BY <1>4, <1>9
  <2> QED
    BY <1>9, <1>10, <2>1
<1>12. LeafOf(r, d) = n /\ IndexOf(r, d) = h
  BY <1>4, <1>7, <1>9, <1>11 DEF Aside, LeafOf, IndexOf
<1>13. Stands(r, reg, lev, d) /\ Sound(r, reg, lev)
  BY <1>5 DEF Stands
<1>14. q = LeastKey(Ahead(r, reg, n, h))
  BY <1>12 DEF AheadOf
<1>15. q = nd.entries[h].key /\ q \in reg[n] /\ q \in LeafKeys(r.node)
  <2>1. PICK k : k = nd.entries[h].key
    OBVIOUS
  <2>2. k \in Ahead(r, reg, n, h) /\ k \in reg[n] /\ LeastKey(Ahead(r, reg, n, h)) = k
    BY <1>3, <1>4, <1>7, <1>13, <2>1, AheadFirst
  <2> QED
    BY <1>14, <2>1, <2>2 DEF Ahead
<1>16. Ahead(r, reg, n, i) = {j \in LeafKeys(r.node) : q < j}
  BY <1>3, <1>4, <1>7, <1>13, <1>15, AheadNext
<1> QED
  BY <1>1, <1>4, <1>13, <1>15, <1>16 DEF After

LEMMA PrevFirst ==
    ASSUME NEW r, NEW reg, NEW lev, NEW c, Stands(r, reg, lev, c), isFirst(r, c) \/ r.numRecords = 0
    PROVE  moveToPrev(r, c) = c /\ AheadOf(r, reg, c) = LeafKeys(r.node)
<1>1. moveToPrev(r, c) = c
  BY DEF moveToPrev
<1>2. PICK n : n = LeafOf(r, c)
  OBVIOUS
<1>3. PICK i : i = IndexOf(r, c)
  OBVIOUS
<1>4. CASE r.numRecords = 0
  <2>1. LeafKeys(r.node) = {}
    BY <1>4, NoRecords DEF Stands
  <2> QED
    BY <1>1, <2>1 DEF AheadOf, Ahead
<1>5. CASE isFirst(r, c)
  <2>1. /\ n \in DOMAIN r.node /\ r.node[n].isLeaf /\ i = 0 /\ r.node[n].FirstLeaf
        /\ AheadOf(r, reg, c) = Ahead(r, reg, n, i) /\ \A k \in LeafKeys(r.node) : k \in Nat
    BY <1>2, <1>3, <1>5, StandsAt
  <2>2. -1 \in reg[n]
    <3>1. Sound(r, reg, lev)
      BY DEF Stands
    <3> QED
      BY <2>1, <3>1, KeysAre
  <2>3. \A k \in LeafKeys(r.node) : -1 <= k
    BY <2>1
  <2>4. \A k \in LeafKeys(r.node) : k \in Ahead(r, reg, n, i)
    BY <2>1, <2>2, <2>3 DEF Ahead
  <2>5. Ahead(r, reg, n, i) \subseteq LeafKeys(r.node)
    BY DEF Ahead
  <2> QED
    BY <1>1, <2>1, <2>4, <2>5
<1> QED
  BY <1>4, <1>5

\* The leaf it goes to is below the one it leaves, and if one climb was enough, just below.
Closest(r, reg, d, m, n) == IndexOf(r, d) = r.node[m].numKeys /\ Meet(reg[m], reg[n])

LEMMA PrevAcross ==
    ASSUME NEW r, NEW reg, NEW lev, NEW c, Stands(r, reg, lev, c), IndexOf(r, c) = 0,
           ~isFirst(r, c), r.numRecords # 0, NEW d, d = moveToPrev(r, c),
           NEW n, n = LeafOf(r, c), NEW m, m = LeafOf(r, d)
    PROVE  /\ Stands(r, reg, lev, d) /\ r.depth # 0 /\ Below(reg[m], reg[n])
           /\ IndexOf(r, d) = 0 \/ IndexOf(r, d) = r.node[m].numKeys
           /\ r.depth <= 1 => Closest(r, reg, d, m, n)
<1>1. PICK nd : nd = r.node[n]
  OBVIOUS
<1>2. /\ n \in DOMAIN r.node /\ nd.isLeaf /\ nd.numKeys \in Nat /\ r.depth \in Nat
      /\ c.ancestorsIdx[r.depth] = 0 /\ c.ancestors[r.depth] = n
  BY <1>1, StandsAt
<1>3. IsPath(r, d) /\ PrevGoes(r, c, d)
  BY PrevStays DEF Stands
<1>4. Stands(r, reg, lev, d) /\ Sound(r, reg, lev) /\ IsPath(r, c)
  BY <1>3 DEF Stands
<1>5. PICK top : /\ top \in 0 .. r.depth
                 /\ Aside(r, c, d, top, -1) /\ ~AtEnd(r, c, FALSE, top)
                 /\ \A j \in top + 1 .. r.depth : AtEnd(r, c, FALSE, j)
                 /\ top # r.depth =>
                       d.ancestorsIdx[r.depth] = IF top + 1 = r.depth
                                                 THEN r.node[d.ancestors[r.depth]].numKeys ELSE 0
  BY <1>3 DEF PrevGoes
<1>6. AtEnd(r, c, FALSE, r.depth)
  BY <1>1, <1>2 DEF AtEnd, firstpointer
<1>7. top \in 0 .. r.depth - 1 /\ r.depth # 0
  <2>1. top # r.depth
    BY <1>5, <1>6
  <2> QED
    BY <1>2, <1>5, <2>1
<1>8. m = d.ancestors[r.depth] /\ IndexOf(r, d) = d.ancestorsIdx[r.depth]
  BY <1>4, StandsAt
<1>9. IndexOf(r, d) = IF top + 1 = r.depth THEN r.node[m].numKeys ELSE 0
  BY <1>2, <1>5, <1>7, <1>8
<1>10. Neighbours(r, d, c, top)
  <2>1. SameAbove(c, d, top) /\ d.ancestors[top] = c.ancestors[top] /\ d.ancestorsIdx[top] = c.ancestorsIdx[top] + (-1)
    BY <1>5 DEF Aside
  <2>2. c.ancestorsIdx[top] \in Int
    <3>1. Links(r, c.ancestors, c.ancestorsIdx, r.depth)
      BY <1>4, PathIs
    <3> QED
      BY <1>7, <3>1 DEF Links, Kids
  <2>3. SameAbove(d, c, top)
    BY <2>1 DEF SameAbove
  <2>4. c.ancestorsIdx[top] = d.ancestorsIdx[top] + 1
    BY <2>1, <2>2
  <2> QED
    BY <1>5, <1>7, <2>1, <2>3, <2>4 DEF Neighbours, Aside
<1>11. Below(reg[m], reg[n])
  BY <1>3, <1>4, <1>10, Beside
<1>12. ASSUME top + 1 = r.depth PROVE Closest(r, reg, d, m, n)
  <2>1. LastBelow(r, d, top) /\ FirstBelow(r, c, top)
    <3>1. \A j \in top + 1 .. r.depth - 1 : FALSE
      BY <1>2, <1>7, <1>12
    <3> QED
      BY <3>1 DEF LastBelow, FirstBelow
  <2>2. Meet(reg[m], reg[n])
    BY <1>3, <1>4, <1>10, <2>1, Beside
  <2> QED
    BY <1>9, <1>12, <2>2 DEF Closest
<1>13. r.depth <= 1 => top + 1 = r.depth
  BY <1>2, <1>7
<1> QED
  BY <1>4, <1>7, <1>9, <1>11, <1>12, <1>13

\* What is not above a key of a lower leaf is not ahead.
LEMMA NotAhead ==
    ASSUME NEW r, NEW reg, NEW lev, Sound(r, reg, lev), NEW n \in DOMAIN r.node, r.node[n].isLeaf, NEW i,
           NEW m, reg[m] \subseteq Int, Below(reg[m], reg[n]), NEW y \in reg[m], NEW k \in Int, k <= y
    PROVE  k \notin Ahead(r, reg, n, i)
<1>1. SUFFICES ASSUME k \in Ahead(r, reg, n, i) PROVE FALSE
  OBVIOUS
<1>2. PICK x \in reg[n] : x <= k
  BY <1>1 DEF Ahead
<1>3. x \in Int /\ y \in Int /\ y < x
  <2>1. reg[n] \subseteq Int
    BY KeysAre
  <2> QED
    BY <2>1 DEF Below
<1> QED
  BY <1>2, <1>3

\* What a higher leaf holds is ahead.
LEMMA HigherAhead ==
    ASSUME NEW r, NEW reg, NEW lev, Sound(r, reg, lev), NEW n \in DOMAIN r.node, r.node[n].isLeaf,
           NEW i \in 0 .. r.node[n].numKeys, NEW m \in DOMAIN r.node, r.node[m].isLeaf,
           Below(reg[n], reg[m]), NEW y \in reg[m], y \in LeafKeys(r.node)
    PROVE  y \in Ahead(r, reg, n, i)
<1>1. reg[n] \subseteq Int /\ reg[n] # {} /\ NodeKeys(r.node[n]) \subseteq reg[n] /\ reg[m] \subseteq Int
      /\ r.node[n].numKeys \in Nat
  BY KeysAre
<1>2. \A x \in reg[n] : x < y /\ x <= y
  BY <1>1 DEF Below
<1>3. ASSUME NEW j \in 0 .. i - 1 PROVE r.node[n].entries[j].key < y
  <2>1. r.node[n].entries[j].key \in reg[n]
    BY <1>1 DEF NodeKeys
  <2> QED
    BY <1>2, <2>1
<1> QED
  BY <1>1, <1>2, <1>3 DEF Ahead


\* RL_MoveToPrevious goes to a key behind the cursor, if there is one.
Behind(r, reg, c, q) == q \in LeafKeys(r.node) /\ q \notin AheadOf(r, reg, c)
Stays(r, reg, c, d)  == d = c /\ AheadOf(r, reg, c) = LeafKeys(r.node)

LEMMA InsideBehind ==
    ASSUME NEW r, NEW reg, NEW lev, NEW c, Stands(r, reg, lev, c), NEW q \in LeafKeys(r.node), After(r, reg, c, q)
    PROVE  Behind(r, reg, c, q)
<1>1. q \in Nat
  BY LeafKeysNat DEF Stands
<1>2. q \notin AheadOf(r, reg, c)
  BY <1>1 DEF After
<1> QED
  BY <1>2 DEF Behind

\* The second of two steps back, after the first has come to a leaf below.
LEMMA SecondStep ==
    ASSUME NEW r, NEW reg, NEW lev, NEW c, Stands(r, reg, lev, c), NEW d, Stands(r, reg, lev, d), r.depth # 0,
           NEW n, n = LeafOf(r, c), NEW m, m = LeafOf(r, d), Below(reg[m], reg[n]),
           IndexOf(r, d) = 0 \/ IndexOf(r, d) = r.node[m].numKeys,
           NEW out, out = moveToPrev(r, d), NEW q, q = LeastKey(AheadOf(r, reg, out))
    PROVE  Stands(r, reg, lev, out) /\ Behind(r, reg, c, q)
<1>1. /\ n \in DOMAIN r.node /\ r.node[n].isLeaf /\ AheadOf(r, reg, c) = Ahead(r, reg, n, IndexOf(r, c))
  BY StandsAt
<1>2. m \in DOMAIN r.node /\ r.node[m].isLeaf /\ \A k \in LeafKeys(r.node) : k \in Nat
  BY StandsAt
<1>3. Sound(r, reg, lev) /\ RelInv(r)
  BY DEF Stands
<1>4. PICK nd : nd = r.node[m]
  OBVIOUS
<1>5. nd.numKeys >= 1 /\ nd.numKeys \in Nat /\ reg[m] \subseteq Int /\ NodeKeys(nd) = LeafKeys(r.node) \cap reg[m]
  BY <1>2, <1>3, <1>4, NotTheRoot, KeysAre
<1>6. PICK y : y = nd.entries[0].key
  OBVIOUS
<1>7. y \in LeafKeys(r.node) /\ y \in reg[m] /\ y \in Int
  <2>1. y \in NodeKeys(nd)
    BY <1>5, <1>6 DEF NodeKeys
  <2> QED
    BY <1>5, <2>1
<1>8. ASSUME NEW k \in LeafKeys(r.node), NEW z \in reg[m], k <= z PROVE Behind(r, reg, c, k)
  <2>1. k \in Int
    BY <1>2
  <2>2. k \notin Ahead(r, reg, n, IndexOf(r, c))
    BY <1>1, <1>3, <1>5, <1>8, <2>1, NotAhead
  <2> QED
    BY <1>1, <2>2 DEF Behind
<1>9. CASE IndexOf(r, d) # 0
  <2>1. Stands(r, reg, lev, out) /\ q \in LeafKeys(r.node) /\ q \in reg[m]
    BY <1>9, PrevInside
  <2>2. q <= q
    BY <1>2, <2>1
  <2> QED
    BY <1>8, <2>1, <2>2
<1>10. CASE IndexOf(r, d) = 0 /\ isFirst(r, d)
  <2>1. out = d /\ Stands(r, reg, lev, out)
    BY <1>10, PrevFirst
  <2>2. AheadOf(r, reg, out) = Ahead(r, reg, m, 0)
    BY <1>10, <2>1 DEF AheadOf
  <2>3. 0 \in 0 .. nd.numKeys - 1
    BY <1>5
  <2>4. LeastKey(Ahead(r, reg, m, 0)) = y
    BY <1>2, <1>3, <1>4, <1>6, <2>3, AheadFirst
  <2>5. q \in LeafKeys(r.node) /\ q \in reg[m] /\ q <= q
    BY <1>7, <2>2, <2>4
  <2> QED
    BY <1>8, <2>1, <2>5
<1>11. CASE IndexOf(r, d) = 0 /\ ~isFirst(r, d)
  <2>1. PICK h : h = LeafOf(r, out)
    OBVIOUS
  <2>2. r.numRecords # 0
    BY <1>3, <1>7, NoRecords
  <2>3. Stands(r, reg, lev, out) /\ Below(reg[h], reg[m])
    BY <1>11, <2>1, <2>2, PrevAcross
  <2>4. h \in DOMAIN r.node /\ r.node[h].isLeaf /\ IndexOf(r, out) \in 0 .. r.node[h].numKeys
    BY <2>1, <2>3, StandsAt
  <2>5. y \in AheadOf(r, reg, out)
    <3>1. y \in Ahead(r, reg, h, IndexOf(r, out))
      BY <1>2, <1>3, <1>7, <2>3, <2>4, HigherAhead
    <3> QED
      BY <2>1, <3>1 DEF AheadOf
  <2>6. q \in AheadOf(r, reg, out) /\ q <= y
    <3>1. AheadOf(r, reg, out) \subseteq Nat /\ AheadOf(r, reg, out) # {}
      BY <2>3, <2>5, NoneAhead
    <3> QED
      BY <2>5, <3>1, LeastThere
  <2>7. q \in LeafKeys(r.node)
    BY <2>3, <2>6, NoneAhead
  <2> QED
    BY <1>7, <1>8, <2>3, <2>6, <2>7
<1> QED
  BY <1>9, <1>10, <1>11

LEMMA AfterPreviousIs ==
    ASSUME NEW r, NEW reg, NEW lev, NEW c, Stands(r, reg, lev, c),
           NEW out, out = afterPrevious(r, c), NEW q, q = LeastKey(AheadOf(r, reg, out))
    PROVE  /\ Stands(r, reg, lev, out)
           /\ Stays(r, reg, c, out) \/ Behind(r, reg, c, q)
           /\ r.depth <= 1 \/ IndexOf(r, c) # 0 =>
                 Stays(r, reg, c, out) \/ (q \in LeafKeys(r.node) /\ After(r, reg, c, q))
<1>1. entryIndex(c) = IndexOf(r, c)
  BY StandsAt
<1>2. CASE IndexOf(r, c) # 0
  <2>1. out = moveToPrev(r, c)
    BY <1>1, <1>2 DEF afterPrevious
  <2>2. Stands(r, reg, lev, out) /\ q \in LeafKeys(r.node) /\ After(r, reg, c, q)
    BY <1>2, <2>1, PrevInside
  <2> QED
    BY <2>2, InsideBehind
<1>3. CASE IndexOf(r, c) = 0
  <2>1. PICK d : d = moveToPrev(r, c)
    OBVIOUS
  <2>2. out = moveToPrev(r, d)
    BY <1>1, <1>3, <2>1 DEF afterPrevious
  <2>3. CASE isFirst(r, c) \/ r.numRecords = 0
    <3>1. d = c /\ out = c /\ AheadOf(r, reg, c) = LeafKeys(r.node)
      BY <2>1, <2>2, <2>3, PrevFirst
    <3> QED
      BY <3>1 DEF Stays
  <2>4. CASE ~isFirst(r, c) /\ r.numRecords # 0
    <3>1. PICK n : n = LeafOf(r, c)
      OBVIOUS
    <3>2. PICK m : m = LeafOf(r, d)
      OBVIOUS
    <3>3. /\ Stands(r, reg, lev, d) /\ r.depth # 0 /\ Below(reg[m], reg[n])
          /\ IndexOf(r, d) = 0 \/ IndexOf(r, d) = r.node[m].numKeys
          /\ r.depth <= 1 => Closest(r, reg, d, m, n)
      BY <1>3, <2>1, <2>4, <3>1, <3>2, PrevAcross
    <3>4. Stands(r, reg, lev, out) /\ Behind(r, reg, c, q)
      BY <2>2, <3>1, <3>2, <3>3, SecondStep
    <3>5. ASSUME r.depth <= 1 PROVE q \in LeafKeys(r.node) /\ After(r, reg, c, q)
      <4>1. IndexOf(r, d) = r.node[m].numKeys /\ Meet(reg[m], reg[n])
        BY <3>3, <3>5 DEF Closest
      <4>2. r.node[m].numKeys >= 1
        BY <3>2, <3>3, NotTheRoot
      <4>3. q \in LeafKeys(r.node) /\ After(r, reg, d, q)
        BY <2>2, <3>3, <4>1, <4>2, PrevInside
      <4>4. AheadOf(r, reg, c) = AheadOf(r, reg, d)
        <5>1. n \in DOMAIN r.node /\ r.node[n].isLeaf /\ m \in DOMAIN r.node /\ r.node[m].isLeaf
          BY <3>1, <3>2, <3>3, StandsAt
        <5>2. Sound(r, reg, lev)
          BY DEF Stands
        <5>3. Ahead(r, reg, n, 0) = Ahead(r, reg, m, IndexOf(r, d))
          BY <3>3, <4>1, <5>1, <5>2, AheadMeets
        <5> QED
          BY <1>3, <3>1, <3>2, <5>3 DEF AheadOf
      <4> QED
        BY <4>3, <4>4 DEF After
    <3> QED
      BY <1>3, <3>4, <3>5
  <2> QED
    BY <2>3, <2>4
<1> QED
  BY <1>2, <1>3


-----------------------------------------------------------------------------
(* What the calls answer. *)

LEMMA PositionIs ==
    ASSUME NEW r, NEW reg, NEW lev, NEW c, Stands(r, reg, lev, c), NEW p, p = PosOf(r, c)
    PROVE  /\ p = LeastKey(AheadOf(r, reg, c))
           /\ p = End <=> AheadOf(r, reg, c) = {}
           /\ p # End => p \in AheadOf(r, reg, c) /\ \A k \in AheadOf(r, reg, c) : p <= k
           /\ p \in Keys \cup {End} /\ AheadOf(r, reg, c) \subseteq LeafKeys(r.node) /\ LeafKeys(r.node) \subseteq Keys
<1>1. p = LeastKey(AheadOf(r, reg, c))
  BY PosIs DEF Stands
<1>2. LeafKeys(r.node) \subseteq Keys /\ AheadOf(r, reg, c) \subseteq LeafKeys(r.node) /\ AheadOf(r, reg, c) \subseteq Nat
  BY KeysTyped, NoneAhead DEF Stands
<1>3. AheadOf(r, reg, c) = {} => p = End
  BY <1>1 DEF LeastKey
<1>4. AheadOf(r, reg, c) # {} => p \in AheadOf(r, reg, c) /\ \A k \in AheadOf(r, reg, c) : p <= k
  BY <1>1, <1>2, LeastThere
<1>5. End \notin Keys
  BY PositionAssumption
<1> QED
  BY <1>1, <1>2, <1>3, <1>4, <1>5

\* What is behind a cursor, in terms of its position.
LEMMA BeforeIs ==
    ASSUME NEW r, NEW reg, NEW lev, NEW c, Stands(r, reg, lev, c), NEW p, p = PosOf(r, c)
    PROVE  {k \in LeafKeys(r.node) : p = End \/ k < p} = LeafKeys(r.node) \ AheadOf(r, reg, c)
<1>1. PICK A : A = AheadOf(r, reg, c)
  OBVIOUS
<1>2. /\ p = End <=> A = {}
      /\ p # End => p \in A /\ \A k \in A : p <= k
      /\ A \subseteq LeafKeys(r.node)
  BY <1>1, PositionIs
<1>3. LeafKeys(r.node) \subseteq Nat
  BY LeafKeysNat DEF Stands
<1>4. ASSUME NEW k \in LeafKeys(r.node), k \notin A, p # End PROVE k < p
  <2>1. PICK n : n = LeafOf(r, c)
    OBVIOUS
  <2>2. PICK i : i = IndexOf(r, c)
    OBVIOUS
  <2>3. n \in DOMAIN r.node /\ r.node[n].isLeaf /\ i \in 0 .. r.node[n].numKeys /\ A = Ahead(r, reg, n, i)
    BY <1>1, <2>1, <2>2, StandsAt
  <2>4. p \in A /\ p \in Nat /\ k \in Nat
    BY <1>2, <1>3, <1>4
  <2>5. SUFFICES ASSUME p <= k PROVE FALSE
    BY <2>4
  <2>6. HasKeys(r.node[n]) /\ reg[n] \subseteq Int
    BY <2>3, KeysAre DEF Stands
  <2>7. PICK x \in reg[n] : x <= p
    BY <2>3, <2>4 DEF Ahead
  <2>8. x <= k
    BY <2>4, <2>5, <2>6, <2>7
  <2>9. ASSUME NEW j \in 0 .. i - 1 PROVE r.node[n].entries[j].key < k
    <3>1. r.node[n].entries[j].key < p
      BY <2>3, <2>4 DEF Ahead
    <3>2. j \in 0 .. r.node[n].numKeys - 1
      BY <2>3, <2>6 DEF HasKeys
    <3>3. r.node[n].entries[j].key \in Nat
      BY <2>6, <3>2 DEF HasKeys
    <3> QED
      BY <2>4, <2>5, <3>1, <3>3
  <2>10. k \in Ahead(r, reg, n, i)
    BY <2>8, <2>9 DEF Ahead
  <2> QED
    BY <1>4, <2>3, <2>10
<1>5. ASSUME NEW k \in A PROVE ~(p = End \/ k < p)
  <2>1. p # End /\ p \in A /\ p <= k
    BY <1>2
  <2>2. p \in Nat /\ k \in Nat
    BY <1>2, <1>3, <2>1
  <2> QED
    BY <2>1, <2>2
<1>6. ASSUME NEW k \in LeafKeys(r.node), k \notin A PROVE p = End \/ k < p
  BY <1>4, <1>6
<1> QED
  BY <1>1, <1>5, <1>6

\* The entry that the calls read.
LEMMA ReadIs ==
    ASSUME NEW r, NEW reg, NEW lev, NEW c, Stands(r, reg, lev, c), IndexOf(r, c) < r.node[LeafOf(r, c)].numKeys,
           NEW e, e = entryAt(r, c), NEW k, k = LeastKey(AheadOf(r, reg, c))
    PROVE  e # Unset /\ e.key = k /\ e = [key |-> k, ptr |-> MapOf(r)[k]]
<1>1. PICK n : n = LeafOf(r, c)
  OBVIOUS
<1>2. PICK i : i = IndexOf(r, c)
  OBVIOUS
<1>3. PICK nd : nd = r.node[n]
  OBVIOUS
<1>4. /\ n \in DOMAIN r.node /\ nd.isLeaf /\ i \in 0 .. nd.numKeys - 1
      /\ entryIndex(c) = i /\ currNode(r, c) = nd
      /\ AheadOf(r, reg, c) = Ahead(r, reg, n, i)
  BY <1>1, <1>2, <1>3, StandsAt
<1>5. Sound(r, reg, lev) /\ RelInv(r)
  BY DEF Stands
<1>6. Typed(nd, PtrsOf(r.node)) /\ nd.numKeys \in 0 .. FANOUT
  <2>1. Typed(nd, PtrsOf(r.node))
    BY <1>3, <1>4, <1>5 DEF RelInv, NodesTyped
  <2> QED
    BY <2>1, TypedKeys
<1>7. i \in Slots
  BY <1>4, <1>6, FanoutIs DEF Slots
<1>8. e = nd.entries[i]
  BY <1>4, <1>7 DEF entryAt
<1>9. e \in Entry(Keys, PtrsOf(r.node))
  BY <1>4, <1>6, <1>8 DEF Typed
<1>10. k = e.key
  BY <1>3, <1>4, <1>5, <1>8, AheadFirst
<1>11. MapOf(r)[e.key] = e.ptr
  <2>1. e \in NodeEntries(nd)
    BY <1>4, <1>8 DEF NodeEntries
  <2>2. e \in LeafEntries(r.node)
    BY <1>3, <1>4, <2>1, InLeaves
  <2> QED
    BY <1>5, <2>2, MapsTo
<1>12. e = [key |-> e.key, ptr |-> e.ptr]
  BY <1>9 DEF Entry
<1>13. e # Unset
  <2>1. PICK P : P = PtrsOf(r.node)
    OBVIOUS
  <2>2. P \subseteq Records \cup Nat
    BY <2>1 DEF PtrsOf
  <2>3. e \in [key : Nat, ptr : Records \cup Nat]
    BY <1>9, <2>1, <2>2, RelationAssumption DEF Entry
  <2> QED
    BY <2>3, PositionAssumption
<1> QED
  BY <1>10, <1>11, <1>12, <1>13

LEMMA FoundIs ==
    ASSUME NEW r, NEW reg, NEW lev, NEW c, Stands(r, reg, lev, c), NEW key \in Keys
    PROVE  foundByMoveToKey(r, c, key) <=> key \in LeafKeys(r.node)
<1>1. PICK at : at = afterMoveToKey(r, c, key)
  OBVIOUS
<1>2. PICK A : A = AheadOf(r, reg, at)
  OBVIOUS
<1>3. /\ Stands(r, reg, lev, at) /\ A = NotBelow(LeafKeys(r.node), key)
      /\ A # {} => IndexOf(r, at) < r.node[LeafOf(r, at)].numKeys
  <2>1. key \in Nat
    BY RelationAssumption
  <2> QED
    BY <1>1, <1>2, <2>1, AfterMoveToKeyIs
<1>4. isValid(r, at) <=> A # {}
  BY <1>2, <1>3, ValidIs
<1>5. key \in Nat /\ LeafKeys(r.node) \subseteq Nat
  BY LeafKeysNat, RelationAssumption DEF Stands
<1>6. key \in LeafKeys(r.node) => A # {} /\ LeastKey(A) = key
  <2>1. SUFFICES ASSUME key \in LeafKeys(r.node) PROVE A # {} /\ LeastKey(A) = key
    OBVIOUS
  <2>2. key \in A /\ A \subseteq Nat /\ \A j \in A : key <= j
    BY <1>3, <1>5, <2>1 DEF NotBelow
  <2> QED
    BY <2>2, LeastIs
<1>7. A # {} => LeastKey(A) \in LeafKeys(r.node)
  <2>1. A \subseteq Nat /\ A \subseteq LeafKeys(r.node)
    BY <1>3, <1>5 DEF NotBelow
  <2> QED
    BY <2>1, LeastThere
<1>8. CASE A = {}
  BY <1>1, <1>4, <1>6, <1>8 DEF foundByMoveToKey
<1>9. CASE A # {}
  <2>1. PICK e : e = entryAt(r, at)
    OBVIOUS
  <2>2. e # Unset /\ e.key = LeastKey(A)
    <3>1. PICK k : k = LeastKey(AheadOf(r, reg, at))
      OBVIOUS
    <3>2. e # Unset /\ e.key = k
      BY <1>3, <1>9, <2>1, <3>1, ReadIs
    <3> QED
      BY <1>2, <3>1, <3>2
  <2>3. foundByMoveToKey(r, c, key) <=> isValid(r, at) /\ e # Unset /\ e.key = key
    BY <1>1, <2>1 DEF foundByMoveToKey
  <2> QED
    BY <1>4, <1>6, <1>7, <1>9, <2>2, <2>3
<1> QED
  BY <1>8, <1>9

LEMMA Answers ==
    ASSUME NEW r, NEW reg, NEW lev, NEW c, Stands(r, reg, lev, c),
           NEW p, p = PosOf(r, c), NEW map, map = MapOf(r)
    PROVE  /\ \A k \in Keys : foundByMoveToKey(r, c, k) <=> k \in DOMAIN map
           /\ isValid(r, c) <=> p # End
           /\ isValid(r, c) => entryRead(r, c) = [key |-> p, ptr |-> map[p]]
<1>1. DOMAIN map = LeafKeys(r.node)
  BY MapIs
<1>2. \A k \in Keys : foundByMoveToKey(r, c, k) <=> k \in DOMAIN map
  BY <1>1, FoundIs
<1>3. isValid(r, c) <=> p # End
  BY ValidIs, PositionIs
<1>4. ASSUME isValid(r, c) PROVE entryRead(r, c) = [key |-> p, ptr |-> map[p]]
  <2>1. PICK at : at = atEntry(r, c)
    OBVIOUS
  <2>2. AheadOf(r, reg, c) # {}
    BY <1>4, ValidIs
  <2>3. /\ Stands(r, reg, lev, at) /\ AheadOf(r, reg, at) = AheadOf(r, reg, c)
        /\ IndexOf(r, at) < r.node[LeafOf(r, at)].numKeys
    BY <2>1, <2>2, AtEntryIs
  <2>4. p = LeastKey(AheadOf(r, reg, at))
    BY <2>3, PositionIs
  <2>5. entryAt(r, at) = [key |-> p, ptr |-> MapOf(r)[p]]
    BY <2>3, <2>4, ReadIs
  <2> QED
    BY <2>1, <2>5 DEF entryRead
<1> QED
  BY <1>2, <1>3, <1>4


\* RL_MoveToPrevious, when it goes to the key just before.
LEMMA PreviousIs ==
    ASSUME NEW r, NEW reg, NEW lev, NEW c, Stands(r, reg, lev, c), r.depth <= 1 \/ IndexOf(r, c) # 0,
           NEW out, out = afterPrevious(r, c), NEW p, p = PosOf(r, c),
           NEW before, before = {k \in LeafKeys(r.node) : p = End \/ k < p}
    PROVE  PosOf(r, out) = IF before = {} THEN p ELSE CHOOSE k \in before : \A j \in before : j <= k
<1>1. PICK q : q = LeastKey(AheadOf(r, reg, out))
  OBVIOUS
<1>2. /\ Stands(r, reg, lev, out)
      /\ Stays(r, reg, c, out) \/ (q \in LeafKeys(r.node) /\ After(r, reg, c, q))
  BY <1>1, AfterPreviousIs
<1>3. PosOf(r, out) = q
  BY <1>1, <1>2, PositionIs
<1>4. before = LeafKeys(r.node) \ AheadOf(r, reg, c)
  BY BeforeIs
<1>5. LeafKeys(r.node) \subseteq Nat
  BY LeafKeysNat DEF Stands
<1>6. CASE Stays(r, reg, c, out)
  BY <1>4, <1>6 DEF Stays
<1>7. CASE q \in LeafKeys(r.node) /\ After(r, reg, c, q)
  <2>1. \A k \in LeafKeys(r.node) : k \in before <=> ~(q < k)
    BY <1>4, <1>7 DEF After
  <2>2. q \in before /\ \A j \in before : j <= q
    BY <1>4, <1>5, <1>7, <2>1
  <2>3. PICK k : k = CHOOSE x \in before : \A j \in before : j <= x
    OBVIOUS
  <2>4. k \in before /\ \A j \in before : j <= k
    BY <2>2, <2>3
  <2>5. k = q
    <3>1. k \in Nat /\ q \in Nat /\ k <= q /\ q <= k
      BY <1>4, <1>5, <2>2, <2>4
    <3> QED
      BY <3>1
  <2> QED
    BY <1>3, <2>2, <2>3, <2>5
<1> QED
  BY <1>2, <1>6, <1>7

-----------------------------------------------------------------------------
(* The contract. *)

LEMMA SyncedStands ==
    ASSUME Inv, NEW c \in synced, NEW r, r = rel, NEW cur, cur = cursor[c]
    PROVE  \E reg, lev : Stands(r, reg, lev, cur)
<1>1. RelInv(r) /\ r.depth \in Levels /\ IsPath(r, cur)
  BY DEF Inv, StateInv
<1>2. PICK reg, lev : Whole(r.node, r.root, r.depth, reg, lev)
  BY <1>1 DEF RelInv
<1>3. Sound(r, reg, lev)
  BY <1>1, <1>2, RelSound
<1> QED
  BY <1>1, <1>3 DEF Stands

LEMMA SyncedOpen == ASSUME Inv PROVE \A c \in synced : c \in Cursors /\ cursor[c] # NULL
  BY DEF Inv, StateInv

\* A cursor the client may use stands at a key or at the end.
LEMMA StandsPlaced ==
    ASSUME Inv, NEW c \in Cursors
    PROVE  /\ Positions[c] = Position(c)
           /\ cursor[c] = NULL => Position(c) = Closed
           /\ cursor[c] # NULL => Position(c) # Closed
           /\ c \in synced => Position(c) = PosOf(rel, cursor[c]) /\ Position(c) \notin {Lost, Closed}
<1>1. Positions[c] = Position(c)
  BY DEF Positions
<1>2. c \in synced => Position(c) = PosOf(rel, cursor[c]) /\ Position(c) \in Keys \cup {End}
  <2>1. SUFFICES ASSUME c \in synced PROVE Position(c) = PosOf(rel, cursor[c]) /\ Position(c) \in Keys \cup {End}
    OBVIOUS
  <2>2. Position(c) = PosOf(rel, cursor[c])
    BY <2>1, SyncedOpen DEF Position
  <2>3. PICK r, cur, p : r = rel /\ cur = cursor[c] /\ p = PosOf(r, cur)
    OBVIOUS
  <2>4. PICK reg, lev : Stands(r, reg, lev, cur)
    BY <2>1, <2>3, SyncedStands
  <2>5. p \in Keys \cup {End}
    BY <2>3, <2>4, PositionIs
  <2> QED
    BY <2>2, <2>3, <2>5
<1>3. End \notin {Lost, Closed} /\ Keys \cap {Lost, Closed} = {} /\ Lost # Closed
  BY PositionAssumption
<1>4. c \in synced => Position(c) \notin {Lost, Closed}
  BY <1>2, <1>3
<1>5. cursor[c] = NULL => Position(c) = Closed
  BY DEF Position
<1>6. cursor[c] # NULL => Position(c) # Closed
  <2>1. cursor[c] # NULL /\ c \notin synced => Position(c) = Lost
    BY DEF Position
  <2> QED
    BY <1>3, <1>4, <2>1
<1> QED
  BY <1>1, <1>2, <1>4, <1>5, <1>6

\* One cursor moves.
LEMMA MoveIs ==
    ASSUME Inv, NEW c \in Cursors, NEW at, at # NULL, rel' = rel, freed' = freed,
           cursor' = [cursor EXCEPT ![c] = at], synced' = synced \cup {c}, NEW p, p = PosOf(rel, at)
    PROVE  Contract!Move(c, p)
<1>1. PICK T : cursor \in [Cursors -> T]
  BY DEF Inv, StateInv
<1>2. cursor'[c] = at /\ \A d \in Cursors : d # c => cursor'[d] = cursor[d]
  BY <1>1
<1>3. Position(c)' = p
  BY <1>2 DEF Position
<1>4. ASSUME NEW d \in Cursors, d # c PROVE Position(d)' = Position(d)
  BY <1>2, <1>4 DEF Position
<1>5. Positions' = [Positions EXCEPT ![c] = p]
  BY <1>3, <1>4 DEF Positions
<1>6. MapOf(rel)' = MapOf(rel)
  OBVIOUS
<1> QED
  BY <1>5, <1>6 DEF Contract!Move

LEMMA LeastSame == ASSUME NEW S PROVE Contract!Least(S) = LeastKey(S)
  BY Zenon DEF Contract!Least, LeastKey


\* Where the cursor that moved stands is the least key ahead of it.
LEMMA MovesTo ==
    ASSUME Inv, NEW c \in Cursors, NEW r, r = rel, NEW reg, NEW lev, NEW at, Stands(r, reg, lev, at),
           rel' = rel, freed' = freed, cursor' = [cursor EXCEPT ![c] = at], synced' = synced \cup {c},
           NEW p, p = LeastKey(AheadOf(r, reg, at))
    PROVE  Contract!Move(c, p)
<1>1. at # NULL
  <2>1. RelInv(r) /\ at \in CursorType(DOMAIN r.node)
    BY DEF Stands, IsPath
  <2> QED
    BY <2>1, NotNull
<1>2. PICK q : q = PosOf(r, at)
  OBVIOUS
<1>3. q = LeastKey(AheadOf(r, reg, at))
  BY <1>2, PositionIs
<1>4. p = PosOf(rel, at)
  BY <1>2, <1>3
<1> QED
  BY <1>1, <1>4, MoveIs

\* The same for a cursor the client may use.
LEMMA UsedMovesTo ==
    ASSUME Inv, NEW c \in Cursors, Usable(c), NEW r, r = rel, NEW reg, NEW lev,
           NEW at, Stands(r, reg, lev, at), MoveCursor(c, at), NEW p, p = LeastKey(AheadOf(r, reg, at))
    PROVE  Contract!Placed(c) /\ Contract!Move(c, p)
<1>1. c \in synced /\ freed = NULL
  BY DEF Usable, Open
<1>2. rel' = rel /\ freed' = freed /\ cursor' = [cursor EXCEPT ![c] = at] /\ synced' = synced \cup {c}
  BY <1>1 DEF MoveCursor
<1>3. Contract!Move(c, p)
  BY <1>2, MovesTo
<1>4. Contract!Placed(c)
  <2>1. Positions[c] \notin {Lost, Closed}
    BY <1>1, StandsPlaced
  <2> QED
    BY <1>1, <2>1 DEF Contract!Placed
<1> QED
  BY <1>3, <1>4

LEMMA DomainIs == ASSUME NEW r, r = rel PROVE DOMAIN MapOf(rel) = LeafKeys(r.node)
  BY MapIs

-----------------------------------------------------------------------------
(* Every call is a step of the contract. *)

LEMMA NewImplements ==
    ASSUME Inv, NEW c \in Cursors, RL_NewCursor(c)
    PROVE  Contract!New(c)
<1>1. PICK r : r = rel
  OBVIOUS
<1>2. RelInv(r) /\ r.depth \in Levels
  BY <1>1 DEF Inv, StateInv
<1>3. PICK reg, lev : Whole(r.node, r.root, r.depth, reg, lev)
  BY <1>2 DEF RelInv
<1>4. Sound(r, reg, lev)
  BY <1>2, <1>3, RelSound
<1>5. PICK blank : blank = [level |-> -1, ancestorsIdx |-> [l \in Levels |-> 0],
                            ancestors |-> [l \in Levels |-> NULL]]
  OBVIOUS
<1>6. PICK at : at = moveToFirst(r, r.root, blank, 0)
  OBVIOUS
<1>7. /\ freed = NULL /\ cursor[c] = NULL
      /\ rel' = rel /\ freed' = freed /\ cursor' = [cursor EXCEPT ![c] = at] /\ synced' = synced \cup {c}
  BY <1>1, <1>5, <1>6 DEF RL_NewCursor
<1>8. blank.ancestors \in [Levels -> DOMAIN r.node \cup {NULL}] /\ blank.ancestorsIdx \in [Levels -> -1 .. FANOUT]
  <2>1. FANOUT \in Nat
    BY FanoutIs
  <2>2. 0 \in -1 .. FANOUT
    BY <2>1
  <2>3. blank.ancestors = [l \in Levels |-> NULL] /\ blank.ancestorsIdx = [l \in Levels |-> 0]
    BY <1>5
  <2> QED
    BY <2>2, <2>3
<1>9. Stands(r, reg, lev, at) /\ AheadOf(r, reg, at) = LeafKeys(r.node)
  BY <1>2, <1>4, <1>6, <1>8, FromRootIs
<1>10. PICK p : p = LeastKey(AheadOf(r, reg, at))
  OBVIOUS
<1>11. Contract!Move(c, p)
  BY <1>1, <1>7, <1>9, <1>10, MovesTo
<1>12. p = Contract!Least(DOMAIN MapOf(rel))
  <2>1. PICK S : S = DOMAIN MapOf(rel)
    OBVIOUS
  <2>2. S = AheadOf(r, reg, at)
    BY <1>1, <1>9, <2>1, DomainIs
  <2>3. p = LeastKey(S)
    BY <1>10, <2>2
  <2> QED
    BY <2>1, <2>3, LeastSame
<1>13. Positions[c] = Closed
  BY <1>7, StandsPlaced
<1> QED
  BY <1>7, <1>11, <1>12, <1>13 DEF Contract!New

LEMMA FirstImplements ==
    ASSUME Inv, NEW c \in Cursors, RL_MoveToFirst(c)
    PROVE  Contract!MoveToFirst(c)
<1>1. PICK r : r = rel
  OBVIOUS
<1>2. RelInv(r) /\ r.depth \in Levels
  BY <1>1 DEF Inv, StateInv
<1>3. PICK reg, lev : Whole(r.node, r.root, r.depth, reg, lev)
  BY <1>2 DEF RelInv
<1>4. Sound(r, reg, lev)
  BY <1>2, <1>3, RelSound
<1>5. PICK cur : cur = cursor[c]
  OBVIOUS
<1>6. PICK at : at = moveToFirst(r, r.root, cur, 0)
  OBVIOUS
<1>7. /\ freed = NULL /\ cur # NULL
      /\ rel' = rel /\ freed' = freed /\ cursor' = [cursor EXCEPT ![c] = at] /\ synced' = synced \cup {c}
  <2>1. PICK T : cursor \in [Cursors -> T]
    BY DEF Inv, StateInv
  <2> QED
    BY <1>1, <1>5, <1>6, <2>1 DEF RL_MoveToFirst, Open
<1>8. cur.ancestors \in [Levels -> DOMAIN r.node \cup {NULL}] /\ cur.ancestorsIdx \in [Levels -> -1 .. FANOUT]
  BY <1>1, <1>5, <1>7 DEF Inv, StateInv, CursorType
<1>9. Stands(r, reg, lev, at) /\ AheadOf(r, reg, at) = LeafKeys(r.node)
  BY <1>2, <1>4, <1>6, <1>8, FromRootIs
<1>10. PICK p : p = LeastKey(AheadOf(r, reg, at))
  OBVIOUS
<1>11. Contract!Move(c, p)
  BY <1>1, <1>7, <1>9, <1>10, MovesTo
<1>12. p = Contract!Least(DOMAIN MapOf(rel))
  <2>1. PICK S : S = DOMAIN MapOf(rel)
    OBVIOUS
  <2>2. S = AheadOf(r, reg, at)
    BY <1>1, <1>9, <2>1, DomainIs
  <2>3. p = LeastKey(S)
    BY <1>10, <2>2
  <2> QED
    BY <2>1, <2>3, LeastSame
<1>13. Positions[c] # Closed
  BY <1>5, <1>7, StandsPlaced
<1> QED
  BY <1>7, <1>11, <1>12, <1>13 DEF Contract!MoveToFirst


LEMMA KeyImplements ==
    ASSUME Inv, NEW c \in Cursors, NEW key \in Keys, RL_MoveToKey(c, key)
    PROVE  Contract!MoveToKey(c, key)
<1>1. PICK r, cur, at : r = rel /\ cur = cursor[c] /\ at = afterMoveToKey(r, cur, key)
  OBVIOUS
<1>2. Usable(c) /\ MoveCursor(c, at)
  BY <1>1 DEF RL_MoveToKey
<1>3. PICK reg, lev : Stands(r, reg, lev, cur)
  BY <1>1, <1>2, SyncedStands DEF Usable
<1>4. Stands(r, reg, lev, at) /\ AheadOf(r, reg, at) = NotBelow(LeafKeys(r.node), key)
  <2>1. key \in Nat
    BY RelationAssumption
  <2> QED
    BY <1>1, <1>3, <2>1, AfterMoveToKeyIs
<1>5. PICK p : p = LeastKey(AheadOf(r, reg, at))
  OBVIOUS
<1>6. Contract!Placed(c) /\ Contract!Move(c, p)
  BY <1>1, <1>2, <1>4, <1>5, UsedMovesTo
<1>7. p = Contract!Least({j \in DOMAIN MapOf(rel) : j >= key})
  <2>1. PICK S : S = {j \in DOMAIN MapOf(rel) : j >= key}
    OBVIOUS
  <2>2. S = {j \in LeafKeys(r.node) : j >= key}
    BY <1>1, <2>1, DomainIs
  <2>3. p = LeastKey(S)
    BY <1>4, <1>5, <2>2 DEF NotBelow
  <2> QED
    BY <2>1, <2>3, LeastSame
<1> QED
  BY <1>6, <1>7 DEF Contract!MoveToKey

LEMMA AfterIs ==
    ASSUME NEW r, r = rel, NEW reg, NEW lev, NEW c, Stands(r, reg, lev, c), NEW p, p = PosOf(r, c)
    PROVE  Contract!After(MapOf(rel), p) = LeastKey(Later(AheadOf(r, reg, c), LeafKeys(r.node)))
<1>1. PICK ahead, all : ahead = AheadOf(r, reg, c) /\ all = LeafKeys(r.node)
  OBVIOUS
<1>2. /\ p = LeastKey(ahead)
      /\ p = End <=> ahead = {}
      /\ p # End => p \in Keys
      /\ all \subseteq Keys
  BY <1>1, PositionIs
<1>3. DOMAIN MapOf(rel) = all
  BY <1>1, DomainIs
<1>4. PICK S : S = IF p = End THEN {} ELSE {k \in all : k > p}
  OBVIOUS
<1>5. S = Later(ahead, all)
  <2>1. CASE p = End
    BY <1>2, <1>4, <2>1 DEF Later
  <2>2. CASE p # End
    <3>1. Later(ahead, all) = {k \in all : p < k}
      BY <1>2, <2>2 DEF Later
    <3>2. \A k \in all : k > p <=> p < k
      BY <1>2, <2>2, RelationAssumption
    <3> QED
      BY <1>4, <2>2, <3>1, <3>2
  <2> QED
    BY <2>1, <2>2
<1>6. Contract!After(MapOf(rel), p) = Contract!Least(S)
  BY <1>3, <1>4 DEF Contract!After
<1> QED
  BY <1>1, <1>5, <1>6, LeastSame

LEMMA NextImplements ==
    ASSUME Inv, NEW c \in Cursors, RL_MoveToNext(c)
    PROVE  Contract!MoveToNext(c)
<1>1. PICK r, cur, at : r = rel /\ cur = cursor[c] /\ at = afterNext(r, cur)
  OBVIOUS
<1>2. Usable(c) /\ MoveCursor(c, at)
  BY <1>1 DEF RL_MoveToNext
<1>3. PICK reg, lev : Stands(r, reg, lev, cur)
  BY <1>1, <1>2, SyncedStands DEF Usable
<1>4. Stands(r, reg, lev, at) /\ AheadOf(r, reg, at) = Later(AheadOf(r, reg, cur), LeafKeys(r.node))
  BY <1>1, <1>3, AfterNextIs
<1>5. PICK p, q : p = LeastKey(AheadOf(r, reg, at)) /\ q = PosOf(r, cur)
  OBVIOUS
<1>6. Contract!Placed(c) /\ Contract!Move(c, p)
  BY <1>1, <1>2, <1>4, <1>5, UsedMovesTo
<1>7. p = Contract!After(MapOf(rel), q)
  <2>1. Contract!After(MapOf(rel), q) = LeastKey(Later(AheadOf(r, reg, cur), LeafKeys(r.node)))
    BY <1>1, <1>3, <1>5, AfterIs
  <2> QED
    BY <1>4, <1>5, <2>1
<1>8. Positions[c] = q
  BY <1>1, <1>2, <1>5, StandsPlaced DEF Usable
<1> QED
  BY <1>6, <1>7, <1>8 DEF Contract!MoveToNext

\* A move that leaves the cursor where it stands is none.
LEMMA StaysPut ==
    ASSUME Inv, NEW c \in Cursors, c \in synced, NEW p, p = PosOf(rel, cursor[c]), Contract!Move(c, p)
    PROVE  UNCHANGED Contract!vars
<1>1. Positions[c] = p
  BY StandsPlaced
<1>2. PICK f : f = Positions /\ f[c] = p
  BY <1>1
<1>3. f = [d \in Cursors |-> f[d]]
  BY <1>2 DEF Positions
<1>4. [f EXCEPT ![c] = p] = f
  BY <1>2, <1>3
<1>5. Positions' = f /\ MapOf(rel)' = MapOf(rel) /\ (freed # NULL)' = (freed # NULL)
  BY <1>2, <1>4 DEF Contract!Move
<1> QED
  BY <1>2, <1>5 DEF Contract!vars

LEMMA GetImplements ==
    ASSUME Inv, NEW c \in Cursors, RL_GetRecord(c)
    PROVE  UNCHANGED Contract!vars
<1>1. PICK r, cur, at : r = rel /\ cur = cursor[c] /\ at = atEntry(r, cur)
  OBVIOUS
<1>2. Usable(c) /\ MoveCursor(c, at)
  BY <1>1 DEF RL_GetRecord
<1>3. PICK reg, lev : Stands(r, reg, lev, cur)
  BY <1>1, <1>2, SyncedStands DEF Usable
<1>4. Stands(r, reg, lev, at) /\ AheadOf(r, reg, at) = AheadOf(r, reg, cur)
  BY <1>1, <1>3, AtEntryIs
<1>5. PICK p : p = LeastKey(AheadOf(r, reg, at))
  OBVIOUS
<1>6. Contract!Move(c, p)
  BY <1>1, <1>2, <1>4, <1>5, UsedMovesTo
<1>7. PICK q : q = PosOf(r, cur)
  OBVIOUS
<1>8. q = LeastKey(AheadOf(r, reg, cur))
  BY <1>3, <1>7, PositionIs
<1>9. p = PosOf(rel, cursor[c])
  BY <1>1, <1>4, <1>5, <1>7, <1>8
<1> QED
  BY <1>2, <1>6, <1>9, StaysPut DEF Usable

LEMMA PreviousImplements ==
    ASSUME Inv, NEW c \in Cursors, RL_MoveToPrevious(c)
    PROVE  Contract!MoveToPrevious(c) \/ UNCHANGED Contract!vars
<1>1. PICK r, cur, at : r = rel /\ cur = cursor[c] /\ at = afterPrevious(r, cur)
  OBVIOUS
<1>2. Usable(c) /\ MoveCursor(c, at)
  BY <1>1 DEF RL_MoveToPrevious
<1>3. PICK reg, lev : Stands(r, reg, lev, cur)
  BY <1>1, <1>2, SyncedStands DEF Usable
<1>4. PICK q : q = LeastKey(AheadOf(r, reg, at))
  OBVIOUS
<1>5. Stands(r, reg, lev, at) /\ (Stays(r, reg, cur, at) \/ Behind(r, reg, cur, q))
  BY <1>1, <1>3, <1>4, AfterPreviousIs
<1>6. Contract!Placed(c) /\ Contract!Move(c, q)
  BY <1>1, <1>2, <1>4, <1>5, UsedMovesTo
<1>7. PICK p : p = PosOf(r, cur)
  OBVIOUS
<1>8. CASE Stays(r, reg, cur, at)
  <2>1. q = LeastKey(AheadOf(r, reg, cur))
    BY <1>4, <1>8 DEF Stays
  <2>2. p = LeastKey(AheadOf(r, reg, cur))
    BY <1>3, <1>7, PositionIs
  <2>3. q = PosOf(rel, cursor[c])
    BY <1>1, <1>7, <2>1, <2>2
  <2> QED
    BY <1>2, <1>6, <2>3, StaysPut DEF Usable
<1>9. CASE Behind(r, reg, cur, q)
  <2>1. q \in {k \in LeafKeys(r.node) : p = End \/ k < p}
    <3>1. {k \in LeafKeys(r.node) : p = End \/ k < p} = LeafKeys(r.node) \ AheadOf(r, reg, cur)
      BY <1>3, <1>7, BeforeIs
    <3> QED
      BY <1>9, <3>1 DEF Behind
  <2>2. DOMAIN MapOf(rel) = LeafKeys(r.node)
    BY <1>1, DomainIs
  <2>3. Positions[c] = p
    BY <1>1, <1>2, <1>7, StandsPlaced DEF Usable
  <2>4. q \in Contract!Before(MapOf(rel), Positions[c])
    BY <2>1, <2>2, <2>3 DEF Contract!Before
  <2> QED
    BY <1>6, <2>4 DEF Contract!MoveToPrevious
<1> QED
  BY <1>5, <1>8, <1>9


LEMMA FreeImplements ==
    ASSUME Inv, NEW c \in Cursors, RL_FreeCursor(c)
    PROVE  Contract!Free(c)
<1>1. /\ cursor[c] # NULL /\ cursor' = [cursor EXCEPT ![c] = NULL] /\ synced' = synced \ {c}
      /\ rel' = rel /\ freed' = freed
  BY DEF RL_FreeCursor
<1>2. PICK T : cursor \in [Cursors -> T]
  BY DEF Inv, StateInv
<1>3. cursor'[c] = NULL /\ \A d \in Cursors : d # c => cursor'[d] = cursor[d] /\ (d \in synced' <=> d \in synced)
  BY <1>1, <1>2
<1>4. Position(c)' = Closed
  BY <1>3 DEF Position
<1>5. ASSUME NEW d \in Cursors, d # c PROVE Position(d)' = Position(d)
  BY <1>1, <1>3, <1>5 DEF Position
<1>6. Positions' = [Positions EXCEPT ![c] = Closed]
  BY <1>4, <1>5 DEF Positions
<1>7. MapOf(rel)' = MapOf(rel)
  BY <1>1
<1>8. Contract!Move(c, Closed)
  BY <1>1, <1>6, <1>7 DEF Contract!Move
<1>9. Positions[c] # Closed
  BY <1>1, StandsPlaced
<1> QED
  BY <1>8, <1>9 DEF Contract!Free

\* What a put leaves for the key's successor.
LEMMA AfterKeyIs ==
    ASSUME NEW r, NEW reg, NEW lev, NEW c, Stands(r, reg, lev, c), NEW key \in Keys, After(r, reg, c, key),
           NEW map, map = MapOf(r)
    PROVE  PosOf(r, c) = Contract!After(map, key)
<1>1. PICK p : p = PosOf(r, c)
  OBVIOUS
<1>2. p = LeastKey(AheadOf(r, reg, c)) /\ LeafKeys(r.node) \subseteq Keys
  BY <1>1, PositionIs
<1>3. PICK S : S = {j \in LeafKeys(r.node) : j > key}
  OBVIOUS
<1>4. AheadOf(r, reg, c) = S
  <2>1. AheadOf(r, reg, c) = {j \in LeafKeys(r.node) : key < j}
    BY DEF After
  <2>2. \A j \in LeafKeys(r.node) : j > key <=> key < j
    BY <1>2, RelationAssumption
  <2> QED
    BY <1>3, <2>1, <2>2
<1>5. DOMAIN map = LeafKeys(r.node)
  BY MapIs
<1>6. key # End
  BY PositionAssumption
<1>7. Contract!After(map, key) = Contract!Least(S)
  BY <1>3, <1>5, <1>6 DEF Contract!After
<1> QED
  BY <1>1, <1>2, <1>4, <1>7, LeastSame

LEMMA PutImplements ==
    ASSUME Inv, NEW c \in Cursors, NEW key \in Keys, NEW record \in Records, RL_PutRecord(c, key, record)
    PROVE  Contract!Put(c, key, record)
<1>1. PICK r, cur, out : r = rel /\ cur = cursor[c] /\ out = afterPut(r, cur, key, record)
  OBVIOUS
<1>2. PICK r2, at : r2 = out.rel /\ at = out.cur
  OBVIOUS
<1>3. /\ Usable(c) /\ r2.depth \in Levels /\ rel' = r2 /\ freed' = freed
      /\ cursor' = [cursor EXCEPT ![c] = at] /\ synced' = synced \cap {c}
  BY <1>1, <1>2 DEF RL_PutRecord
<1>4. c \in synced /\ freed = NULL
  BY <1>3 DEF Usable, Open
<1>5. PICK reg, lev : Stands(r, reg, lev, cur)
  BY <1>1, <1>4, SyncedStands
<1>6. MapOf(r2) = Bound(MapOf(r), key, record) /\ \E reg2, lev2 : Stands(r2, reg2, lev2, at) /\ After(r2, reg2, at, key)
  BY <1>1, <1>2, <1>3, <1>5, AfterPutIs
<1>7. PICK reg2, lev2 : Stands(r2, reg2, lev2, at) /\ After(r2, reg2, at, key)
  BY <1>6
<1>8. PICK map2 : map2 = MapOf(r2)
  OBVIOUS
<1>9. PICK p : p = PosOf(r2, at)
  OBVIOUS
<1>10. p = Contract!After(map2, key)
  BY <1>7, <1>8, <1>9, AfterKeyIs
<1>11. at # NULL
  <2>1. RelInv(r2) /\ at \in CursorType(DOMAIN r2.node)
    BY <1>7 DEF Stands, IsPath
  <2> QED
    BY <2>1, NotNull
<1>12. MapOf(rel)' = map2
  BY <1>3, <1>8
<1>13. PICK T : cursor \in [Cursors -> T]
  BY DEF Inv, StateInv
<1>14. cursor'[c] = at /\ \A d \in Cursors : d # c => cursor'[d] = cursor[d]
  BY <1>3, <1>13
<1>15. Position(c)' = p
  <2>1. c \in synced'
    BY <1>3, <1>4
  <2> QED
    BY <1>3, <1>9, <1>11, <1>14, <2>1 DEF Position
<1>16. ASSUME NEW d \in Cursors, d # c PROVE Position(d)' = IF Positions[d] = Closed THEN Closed ELSE Lost
  <2>1. d \notin synced' /\ cursor'[d] = cursor[d]
    BY <1>3, <1>14, <1>16
  <2>2. Positions[d] = Closed <=> cursor[d] = NULL
    BY StandsPlaced
  <2> QED
    BY <2>1, <2>2 DEF Position
<1>17. Positions' = [d \in Cursors |-> CASE d = c                 -> Contract!After(map2, key)
                                         [] Positions[d] = Closed -> Closed
                                         [] OTHER                 -> Lost]
  <2>1. Positions' = [d \in Cursors |-> Position(d)']
    BY DEF Positions
  <2>2. PICK x : x = Contract!After(map2, key)
    OBVIOUS
  <2>3. Positions[c] # Closed
    BY <1>4, StandsPlaced
  <2>4. ASSUME NEW d \in Cursors PROVE Position(d)' = CASE d = c -> x [] Positions[d] = Closed -> Closed [] OTHER -> Lost
    BY <1>10, <1>15, <1>16, <2>2, <2>3
  <2> QED
    BY <2>1, <2>2, <2>4
<1>18. Contract!Placed(c)
  <2>1. Positions[c] \notin {Lost, Closed}
    BY <1>4, StandsPlaced
  <2> QED
    BY <1>4, <2>1 DEF Contract!Placed
<1>19. map2 = [j \in DOMAIN MapOf(rel) \cup {key} |-> IF j = key THEN record ELSE MapOf(rel)[j]]
  BY <1>1, <1>6, <1>8 DEF Bound
<1> QED
  BY <1>3, <1>12, <1>17, <1>18, <1>19 DEF Contract!Put

LEMMA DeleteImplements ==
    ASSUME RL_DeleteRelation
    PROVE  Contract!Delete \/ UNCHANGED Contract!vars
<1>1. freed = NULL /\ rel' = rel /\ cursor' = cursor /\ synced' = synced
  BY DEF RL_DeleteRelation
<1>2. Positions' = Positions
  <2>1. \A d \in Cursors : Position(d)' = Position(d)
    BY <1>1 DEF Position
  <2> QED
    BY <2>1 DEF Positions
<1>3. MapOf(rel)' = MapOf(rel)
  BY <1>1
<1>4. CASE freed' = NULL
  BY <1>1, <1>2, <1>3, <1>4 DEF Contract!vars
<1>5. CASE freed' # NULL
  BY <1>1, <1>2, <1>3, <1>5 DEF Contract!Delete
<1> QED
  BY <1>4, <1>5

LEMMA StartsEmpty == ASSUME Init PROVE Contract!Init
<1>1. PICK r : r = rel
  OBVIOUS
<1>2. RelInv(r)
  BY <1>1, Initially DEF Inv, StateInv
<1>3. r.numRecords = 0
  BY <1>1 DEF Init
<1>4. DOMAIN MapOf(rel) = {}
  <2>1. LeafKeys(r.node) = {}
    BY <1>2, <1>3, NoRecords
  <2> QED
    BY <1>1, <2>1, DomainIs
<1>5. MapOf(rel) = <<>>
  <2>1. MapOf(rel) = MapTo(LeafEntries(rel.node))
    BY MapIs
  <2>2. PICK S : S = {e.key : e \in LeafEntries(rel.node)}
    OBVIOUS
  <2>3. DOMAIN MapOf(rel) = S
    BY <2>1, <2>2 DEF MapTo
  <2>4. S = {}
    BY <1>4, <2>3
  <2>5. MapOf(rel) = [k \in S |-> (CHOOSE e \in LeafEntries(rel.node) : e.key = k).ptr]
    BY <2>1, <2>2 DEF MapTo
  <2> QED
    BY <2>4, <2>5
<1>6. Positions = [c \in Cursors |-> Closed]
  <2>1. \A c \in Cursors : cursor[c] = NULL
    BY DEF Init
  <2>2. \A c \in Cursors : Position(c) = Closed
    BY <2>1 DEF Position
  <2> QED
    BY <2>2 DEF Positions
<1>7. (freed # NULL) = FALSE
  BY DEF Init
<1> QED
  BY <1>5, <1>6, <1>7 DEF Contract!Init

LEMMA StepImplements == ASSUME Inv, [Next]_vars PROVE [Contract!Next]_Contract!vars
<1>1. ASSUME NEW c \in Cursors, RL_NewCursor(c) PROVE Contract!Next
  BY <1>1, NewImplements DEF Contract!Next
<1>2. ASSUME NEW c \in Cursors, RL_FreeCursor(c) PROVE Contract!Next
  BY <1>2, FreeImplements DEF Contract!Next
<1>3. ASSUME NEW c \in Cursors, NEW key \in Keys, NEW record \in Records, RL_PutRecord(c, key, record)
      PROVE  Contract!Next
  BY <1>3, PutImplements DEF Contract!Next
<1>4. ASSUME NEW c \in Cursors, NEW key \in Keys, RL_MoveToKey(c, key) PROVE Contract!Next
  BY <1>4, KeyImplements DEF Contract!Next
<1>5. ASSUME NEW c \in Cursors, RL_MoveToFirst(c) PROVE Contract!Next
  BY <1>5, FirstImplements DEF Contract!Next
<1>6. ASSUME NEW c \in Cursors, RL_MoveToNext(c) PROVE Contract!Next
  BY <1>6, NextImplements DEF Contract!Next
<1>7. ASSUME NEW c \in Cursors, RL_MoveToPrevious(c) PROVE [Contract!Next]_Contract!vars
  BY <1>7, PreviousImplements DEF Contract!Next
<1>8. ASSUME NEW c \in Cursors, RL_GetRecord(c) PROVE UNCHANGED Contract!vars
  BY <1>8, GetImplements
<1>9. ASSUME RL_DeleteRelation PROVE [Contract!Next]_Contract!vars
  BY <1>9, DeleteImplements DEF Contract!Next
<1>10. ASSUME UNCHANGED vars PROVE UNCHANGED Contract!vars
  <2>1. rel' = rel /\ cursor' = cursor /\ synced' = synced /\ freed' = freed
    BY <1>10 DEF vars
  <2>2. Positions' = Positions
    <3>1. \A d \in Cursors : Position(d)' = Position(d)
      BY <2>1 DEF Position
    <3> QED
      BY <3>1 DEF Positions
  <2> QED
    BY <2>1, <2>2 DEF Contract!vars
<1> QED
  BY <1>1, <1>2, <1>3, <1>4, <1>5, <1>6, <1>7, <1>8, <1>9, <1>10 DEF Next

-----------------------------------------------------------------------------
(* Deleting.  The sequences that the recursions of handleDeleteBtree build up. *)

\* The sequence has the members of S, each once.
Lists(out, S) == out \in Seq(S) /\ IsInjective(out) /\ Range(out) = S

\* The sequence has map's values at the members of S, in order.
Rising(ks)          == \A i, j \in 1 .. Len(ks) : i < j => ks[i] < ks[j]
Ordered(ks, S)      == ks \in Seq(S) /\ Rising(ks) /\ Range(ks) = S
Valued(out, ks, map) == out = [i \in 1 .. Len(ks) |-> map[ks[i]]]
InOrder(out, S, map) == \E ks : Ordered(ks, S) /\ Valued(out, ks, map)

LEMMA SeqTyped ==
    ASSUME NEW n \in Nat, NEW T, NEW s, s \in [1 .. n -> T]
    PROVE  s \in Seq(T) /\ Len(s) = n /\ DOMAIN s = 1 .. n
  OBVIOUS

LEMMA SeqIsFunction == ASSUME NEW T, NEW s \in Seq(T) PROVE s \in [1 .. Len(s) -> T]
  OBVIOUS

LEMMA SeqWider == ASSUME NEW S, NEW T, S \subseteq T, NEW s \in Seq(S) PROVE s \in Seq(T)
  OBVIOUS

\* The sequence c has the members of a and then those of b.
Joins(a, b, c, m, n) ==
    /\ m \in Nat /\ n \in Nat /\ DOMAIN a = 1 .. m /\ DOMAIN b = 1 .. n
    /\ \A i \in 1 .. m : i \in DOMAIN c /\ c[i] = a[i]
    /\ \A i \in 1 .. n : m + i \in DOMAIN c /\ c[m + i] = b[i]
    /\ \A i \in DOMAIN c : i \in 1 .. m \/ (i - m \in 1 .. n /\ i = m + (i - m))

\* Two sequences over S, of lengths m and n, and their concatenation.
AreJoined(S, a, b, c, m, n) == a \in Seq(S) /\ b \in Seq(S) /\ m = Len(a) /\ n = Len(b) /\ c = a \o b
IsJoined(S, a, b, c, m, n)  == c \in Seq(S) /\ Len(c) = m + n /\ DOMAIN c = 1 .. m + n /\ Joins(a, b, c, m, n)

\* Where the concatenation of two sequences has its members.
LEMMA ConcatIs ==
    ASSUME NEW S, NEW a, NEW b, NEW c, NEW m, NEW n, AreJoined(S, a, b, c, m, n)
    PROVE  IsJoined(S, a, b, c, m, n)
<1> USE DEF AreJoined
<1>1. /\ m \in Nat /\ n \in Nat /\ c \in Seq(S) /\ Len(c) = m + n
      /\ \A i \in 1 .. m + n : c[i] = IF i <= m THEN a[i] ELSE b[i - m]
  BY ConcatProperties
<1>2. DOMAIN c = 1 .. m + n
  BY <1>1
<1>3. ASSUME NEW i \in 1 .. n PROVE m + i \in DOMAIN c /\ c[m + i] = b[i]
  <2>1. m + i \in 1 .. m + n /\ ~(m + i <= m) /\ (m + i) - m = i
    BY <1>1
  <2> QED
    BY <1>1, <1>2, <2>1
<1>4. ASSUME NEW i \in 1 .. m PROVE i \in DOMAIN c /\ c[i] = a[i]
  BY <1>1, <1>2
<1>5. ASSUME NEW i \in DOMAIN c PROVE i \in 1 .. m \/ (i - m \in 1 .. n /\ i = m + (i - m))
  BY <1>1, <1>2
<1> QED
  BY <1>1, <1>2, <1>3, <1>4, <1>5 DEF Joins, IsJoined

LEMMA RangeOfConcat ==
    ASSUME NEW a, NEW b, NEW c, NEW m, NEW n, Joins(a, b, c, m, n)
    PROVE  Range(c) = Range(a) \cup Range(b)
<1>1. Range(a) \subseteq Range(c) /\ Range(b) \subseteq Range(c)
  BY DEF Range, Joins
<1>2. ASSUME NEW x \in Range(c) PROVE x \in Range(a) \cup Range(b)
  <2>1. PICK i \in DOMAIN c : x = c[i]
    BY DEF Range
  <2>2. CASE i \in 1 .. m
    BY <2>1, <2>2 DEF Range, Joins
  <2>3. CASE i - m \in 1 .. n /\ i = m + (i - m)
    <3>1. PICK j \in 1 .. n : i = m + j
      BY <2>3
    <3> QED
      BY <2>1, <3>1 DEF Range, Joins
  <2> QED
    BY <2>1, <2>2, <2>3 DEF Joins
<1> QED
  BY <1>1, <1>2

LEMMA ListsBoth ==
    ASSUME NEW a, NEW S, Lists(a, S), NEW b, NEW T, Lists(b, T), S \cap T = {}, NEW c, c = a \o b
    PROVE  Lists(c, S \cup T)
<1>1. PICK U : U = S \cup T
  OBVIOUS
<1>2. a \in Seq(U) /\ b \in Seq(U)
  BY <1>1, SeqWider DEF Lists
<1>3. PICK m, n : m = Len(a) /\ n = Len(b)
  OBVIOUS
<1>4. c \in Seq(U) /\ Joins(a, b, c, m, n)
  BY <1>2, <1>3, ConcatIs DEF AreJoined, IsJoined
<1>5. /\ m \in Nat /\ n \in Nat /\ DOMAIN a = 1 .. m /\ DOMAIN b = 1 .. n
      /\ \A i \in 1 .. m : i \in DOMAIN c /\ c[i] = a[i]
      /\ \A i \in 1 .. n : m + i \in DOMAIN c /\ c[m + i] = b[i]
      /\ \A i \in DOMAIN c : i \in 1 .. m \/ (i - m \in 1 .. n /\ i = m + (i - m))
  BY <1>4 DEF Joins
<1>6. Range(c) = U
  <2>1. Range(c) = Range(a) \cup Range(b)
    BY <1>4, RangeOfConcat
  <2> QED
    BY <1>1, <2>1 DEF Lists
<1>7. (\A i \in 1 .. m : a[i] \in S) /\ (\A i \in 1 .. n : b[i] \in T)
  BY <1>5 DEF Lists, Range
<1>8. ASSUME NEW i \in DOMAIN c, NEW j \in DOMAIN c, c[i] = c[j] PROVE i = j
  <2>1. CASE i \in 1 .. m /\ j \in 1 .. m
    <3>1. a[i] = a[j] /\ i \in DOMAIN a /\ j \in DOMAIN a
      BY <1>5, <1>8, <2>1
    <3> QED
      BY <3>1 DEF Lists, IsInjective
  <2>2. CASE i \notin 1 .. m /\ j \notin 1 .. m
    <3>1. i - m \in 1 .. n /\ i = m + (i - m) /\ j - m \in 1 .. n /\ j = m + (j - m)
      BY <1>5, <2>2
    <3>2. PICK x \in 1 .. n, y \in 1 .. n : i = m + x /\ j = m + y
      BY <3>1
    <3>3. b[x] = b[y] /\ x \in DOMAIN b /\ y \in DOMAIN b
      BY <1>5, <1>8, <3>2
    <3> QED
      BY <3>2, <3>3 DEF Lists, IsInjective
  <2>3. ASSUME NEW x \in DOMAIN c, NEW y \in DOMAIN c, x \in 1 .. m, y \notin 1 .. m PROVE c[x] # c[y]
    <3>1. y - m \in 1 .. n /\ y = m + (y - m)
      BY <1>5, <2>3
    <3>2. PICK z \in 1 .. n : y = m + z
      BY <3>1
    <3>3. c[x] \in S /\ c[y] \in T
      BY <1>5, <1>7, <2>3, <3>2
    <3> QED
      BY <3>3
  <2> QED
    BY <1>8, <2>1, <2>2, <2>3
<1> QED
  BY <1>1, <1>4, <1>6, <1>8 DEF Lists, IsInjective

LEMMA ListsOne == ASSUME NEW x PROVE Lists(<<x>>, {x})
<1>1. <<x>> \in Seq({x}) /\ DOMAIN <<x>> = {1} /\ <<x>>[1] = x
  OBVIOUS
<1> QED
  BY <1>1 DEF Lists, IsInjective, Range

LEMMA ListsNone == Lists(<< >>, {})
<1>1. << >> \in Seq({}) /\ DOMAIN << >> = {}
  OBVIOUS
<1> QED
  BY <1>1 DEF Lists, IsInjective, Range

LEMMA ListsMore ==
    ASSUME NEW a, NEW S, Lists(a, S), NEW x, x \notin S
    PROVE  Lists(Append(a, x), S \cup {x})
<1>1. Append(a, x) = a \o <<x>>
  <2>1. a \in Seq(S \cup {x})
    BY SeqWider DEF Lists
  <2> QED
    BY <2>1
<1>2. S \cap {x} = {}
  OBVIOUS
<1> QED
  BY <1>1, <1>2, ListsOne, ListsBoth

LEMMA OrderedBoth ==
    ASSUME NEW ka, NEW S, Ordered(ka, S), NEW kb, NEW T, Ordered(kb, T), Below(S, T), NEW U, U = S \cup T,
           NEW ks, NEW m, NEW n, AreJoined(U, ka, kb, ks, m, n)
    PROVE  Ordered(ks, U)
<1>1. ks \in Seq(U) /\ Len(ks) = m + n /\ DOMAIN ks = 1 .. m + n /\ Joins(ka, kb, ks, m, n)
  BY ConcatIs DEF IsJoined
<1>2. /\ m \in Nat /\ n \in Nat /\ DOMAIN ka = 1 .. m /\ DOMAIN kb = 1 .. n
      /\ \A i \in 1 .. m : i \in DOMAIN ks /\ ks[i] = ka[i]
      /\ \A i \in 1 .. n : m + i \in DOMAIN ks /\ ks[m + i] = kb[i]
      /\ \A i \in DOMAIN ks : i \in 1 .. m \/ (i - m \in 1 .. n /\ i = m + (i - m))
  BY <1>1 DEF Joins
<1>3. m = Len(ka) /\ n = Len(kb)
  BY DEF AreJoined
<1>4. Range(ks) = U
  <2>1. Range(ks) = Range(ka) \cup Range(kb)
    BY <1>1, RangeOfConcat
  <2> QED
    BY <2>1 DEF Ordered
<1>5. (\A i \in 1 .. m : ka[i] \in S) /\ (\A i \in 1 .. n : kb[i] \in T)
  BY <1>2 DEF Ordered, Range
<1>6. ASSUME NEW i \in DOMAIN ks, NEW j \in DOMAIN ks, i < j PROVE ks[i] < ks[j]
  <2>1. CASE j \in 1 .. m
    <3>1. i \in 1 .. m
      BY <1>1, <1>2, <1>6, <2>1
    <3>2. ka[i] < ka[j]
      BY <1>3, <1>6, <2>1, <3>1 DEF Ordered, Rising
    <3> QED
      BY <1>2, <2>1, <3>1, <3>2
  <2>2. CASE j \notin 1 .. m
    <3>1. PICK y \in 1 .. n : j = m + y
      BY <1>2, <2>2
    <3>2. CASE i \in 1 .. m
      <4>1. ka[i] < kb[y]
        BY <1>5, <3>1, <3>2 DEF Below
      <4> QED
        BY <1>2, <3>1, <3>2, <4>1
    <3>3. CASE i \notin 1 .. m
      <4>1. PICK x \in 1 .. n : i = m + x
        BY <1>2, <3>3
      <4>2. x < y
        BY <1>2, <1>6, <3>1, <4>1
      <4>3. kb[x] < kb[y]
        BY <1>3, <4>2 DEF Ordered, Rising
      <4> QED
        BY <1>2, <3>1, <4>1, <4>3
    <3> QED
      BY <3>2, <3>3
  <2> QED
    BY <2>1, <2>2
<1>7. Rising(ks)
  BY <1>1, <1>6 DEF Rising
<1> QED
  BY <1>1, <1>4, <1>7 DEF Ordered

ValuesIn(ks, map, m, V) == m \in Nat /\ m = Len(ks) /\ \A i \in 1 .. m : map[ks[i]] \in V

\* What a sequence of values has at each place.
LEMMA ValuedIs ==
    ASSUME NEW a, NEW ks, NEW map, Valued(a, ks, map), NEW m, NEW V, ValuesIn(ks, map, m, V)
    PROVE  a \in Seq(V) /\ Len(a) = m /\ \A i \in 1 .. m : a[i] = map[ks[i]]
<1>1. a = [i \in 1 .. m |-> map[ks[i]]]
  BY DEF Valued, ValuesIn
<1>2. a \in [1 .. m -> V] /\ m \in Nat /\ \A i \in 1 .. m : a[i] = map[ks[i]]
  BY <1>1 DEF ValuesIn
<1> QED
  BY <1>2, SeqTyped

LEMMA ValuedBoth ==
    ASSUME NEW a, NEW ka, NEW b, NEW kb, NEW map, Valued(a, ka, map), Valued(b, kb, map), NEW c, c = a \o b,
           NEW U, NEW ks, NEW m, NEW n, AreJoined(U, ka, kb, ks, m, n)
    PROVE  Valued(c, ks, map)
<1>1. ks \in Seq(U) /\ Len(ks) = m + n /\ DOMAIN ks = 1 .. m + n /\ Joins(ka, kb, ks, m, n)
  BY ConcatIs DEF IsJoined
<1>2. /\ m \in Nat /\ n \in Nat /\ DOMAIN ka = 1 .. m /\ DOMAIN kb = 1 .. n
      /\ \A i \in 1 .. m : i \in DOMAIN ks /\ ks[i] = ka[i]
      /\ \A i \in 1 .. n : m + i \in DOMAIN ks /\ ks[m + i] = kb[i]
      /\ \A i \in DOMAIN ks : i \in 1 .. m \/ (i - m \in 1 .. n /\ i = m + (i - m))
  BY <1>1 DEF Joins
<1>3. m = Len(ka) /\ n = Len(kb)
  BY DEF AreJoined
<1>4. PICK V : V = {map[ka[i]] : i \in 1 .. m} \cup {map[kb[i]] : i \in 1 .. n}
  OBVIOUS
<1>5. a \in Seq(V) /\ Len(a) = m /\ \A i \in 1 .. m : a[i] = map[ka[i]]
  <2>1. ValuesIn(ka, map, m, V)
    BY <1>2, <1>3, <1>4 DEF ValuesIn
  <2> QED
    BY <2>1, ValuedIs
<1>6. b \in Seq(V) /\ Len(b) = n /\ \A i \in 1 .. n : b[i] = map[kb[i]]
  <2>1. ValuesIn(kb, map, n, V)
    BY <1>2, <1>3, <1>4 DEF ValuesIn
  <2> QED
    BY <2>1, ValuedIs
<1>7. c \in Seq(V) /\ Len(c) = m + n /\ DOMAIN c = 1 .. m + n /\ Joins(a, b, c, m, n)
  <2>1. AreJoined(V, a, b, c, m, n)
    BY <1>5, <1>6 DEF AreJoined
  <2>2. IsJoined(V, a, b, c, m, n)
    BY <2>1, ConcatIs
  <2> QED
    BY <2>2 DEF IsJoined
<1>8. /\ \A i \in 1 .. m : c[i] = a[i]
      /\ \A i \in 1 .. n : c[m + i] = b[i]
  BY <1>7 DEF Joins
<1>9. ASSUME NEW i \in 1 .. m + n PROVE c[i] = map[ks[i]]
  <2>1. CASE i \in 1 .. m
    BY <1>2, <1>5, <1>8, <2>1
  <2>2. CASE i \notin 1 .. m
    <3>1. PICK y \in 1 .. n : i = m + y
      BY <1>1, <1>2, <2>2
    <3>2. c[m + y] = b[y] /\ ks[m + y] = kb[y] /\ b[y] = map[kb[y]]
      BY <1>2, <1>6, <1>8, <3>1
    <3> QED
      BY <3>1, <3>2
  <2> QED
    BY <2>1, <2>2
<1>10. c = [i \in 1 .. m + n |-> c[i]]
  <2>1. c \in [1 .. Len(c) -> V]
    BY <1>7, SeqIsFunction
  <2> QED
    BY <1>7, <2>1
<1>11. c = [i \in 1 .. m + n |-> map[ks[i]]]
  BY <1>9, <1>10
<1> QED
  BY <1>1, <1>11 DEF Valued

LEMMA OrderBoth ==
    ASSUME NEW a, NEW S, NEW map, InOrder(a, S, map), NEW b, NEW T, InOrder(b, T, map), Below(S, T),
           NEW c, c = a \o b
    PROVE  InOrder(c, S \cup T, map)
<1>1. PICK ka : Ordered(ka, S) /\ Valued(a, ka, map)
  BY DEF InOrder
<1>2. PICK kb : Ordered(kb, T) /\ Valued(b, kb, map)
  BY DEF InOrder
<1>3. PICK U : U = S \cup T
  OBVIOUS
<1>4. PICK ks, m, n : AreJoined(U, ka, kb, ks, m, n)
  <2>1. ka \in Seq(U) /\ kb \in Seq(U)
    BY <1>1, <1>2, <1>3, SeqWider DEF Ordered
  <2> QED
    BY <2>1 DEF AreJoined
<1>5. Ordered(ks, U)
  BY <1>1, <1>2, <1>3, <1>4, OrderedBoth
<1>6. Valued(c, ks, map)
  BY <1>1, <1>2, <1>4, ValuedBoth
<1>7. InOrder(c, U, map)
  BY <1>5, <1>6 DEF InOrder
<1> QED
  BY <1>3, <1>7

LEMMA OrderNone == ASSUME NEW map PROVE InOrder(<< >>, {}, map)
<1>1. << >> \in Seq({}) /\ DOMAIN << >> = {} /\ Len(<< >>) = 0
  OBVIOUS
<1>2. Rising(<< >>) /\ Range(<< >>) = {}
  BY <1>1 DEF Rising, Range
<1>3. << >> = [i \in 1 .. Len(<< >>) |-> map[<< >>[i]]]
  BY <1>1
<1> QED
  BY <1>1, <1>2, <1>3 DEF InOrder, Ordered, Valued

\* What FlattenSeq does with one sequence after the other.
Flattens(f, s, n) == FlattenSeq(s) = f[n] /\ f[1] = s[1] /\ \A i \in 1 .. n : i # n => f[i + 1] = f[i] \o s[i + 1]

LEMMA FlattenIs ==
    ASSUME NEW n \in Nat, n # 0, NEW s, Len(s) = n
    PROVE  \E f : Flattens(f, s, n)
<1> DEFINE Is(f, k) == f = [i \in 1 .. k |-> IF i = 1 THEN s[i] ELSE f[i - 1] \o s[i]]
           T == {k \in Nat : \E f : Is(f, k)}
<1>1. 0 \in T
  <2>1. 1 .. 0 = {}
    OBVIOUS
  <2>2. PICK f : f = [i \in 1 .. 0 |-> s[i]]
    OBVIOUS
  <2>3. Is(f, 0)
    BY <2>1, <2>2
  <2> HIDE DEF Is
  <2> QED
    BY <2>3
<1>2. ASSUME NEW k \in Nat, k \in T PROVE k + 1 \in T
  <2>1. PICK f : Is(f, k)
    BY <1>2
  <2>2. PICK x : x = IF k + 1 = 1 THEN s[k + 1] ELSE f[k] \o s[k + 1]
    OBVIOUS
  <2>3. PICK g : g = [i \in 1 .. k + 1 |-> IF i = k + 1 THEN x ELSE f[i]]
    OBVIOUS
  <2>4. ASSUME NEW i \in 1 .. k + 1 PROVE g[i] = IF i = 1 THEN s[i] ELSE g[i - 1] \o s[i]
    <3>1. CASE i = k + 1
      <4>1. i # 1 => k \in 1 .. k + 1 /\ k # k + 1 /\ i - 1 = k
        BY <3>1
      <4>2. i # 1 => g[i - 1] = f[k]
        BY <2>3, <4>1
      <4> QED
        BY <2>2, <2>3, <3>1, <4>1, <4>2
    <3>2. CASE i # k + 1
      <4>1. i \in 1 .. k /\ (i # 1 => i - 1 \in 1 .. k + 1 /\ i - 1 # k + 1)
        BY <3>2
      <4>2. g[i] = f[i] /\ (i # 1 => g[i - 1] = f[i - 1])
        BY <2>3, <3>2, <4>1
      <4>3. f[i] = IF i = 1 THEN s[i] ELSE f[i - 1] \o s[i]
        BY <2>1, <4>1
      <4> QED
        BY <4>2, <4>3
    <3> QED
      BY <3>1, <3>2
  <2>5. Is(g, k + 1)
    BY <2>3, <2>4
  <2> HIDE DEF Is
  <2> QED
    BY <2>5
<1> HIDE DEF T
<1>3. n \in T
  BY <1>1, <1>2, SetInduction
<1>4. \E f : Is(f, n)
  BY <1>3 DEF T
<1>5. PICK f : f = CHOOSE g : Is(g, n)
  OBVIOUS
<1>6. Is(f, n)
  <2> HIDE DEF Is
  <2> QED
    BY <1>4, <1>5
<1>7. FlattenSeq(s) = f[n]
  BY <1>5 DEF FlattenSeq
<1>8. f[1] = s[1]
  BY <1>6
<1>9. ASSUME NEW i \in 1 .. n, i # n PROVE f[i + 1] = f[i] \o s[i + 1]
  <2>1. i + 1 \in 1 .. n /\ i + 1 # 1 /\ (i + 1) - 1 = i
    BY <1>9
  <2> QED
    BY <1>6, <2>1
<1> QED
  BY <1>7, <1>8, <1>9 DEF Flattens

\* The union of the first parts.
First(part, i) == UNION {part[j] : j \in 1 .. i}

LEMMA FirstAll ==
    ASSUME NEW part, NEW i \in Nat
    PROVE  First(part, 1) = part[1] /\ First(part, i + 1) = First(part, i) \cup part[i + 1]
<1>1. 1 .. 1 = {1} /\ 1 .. i + 1 = (1 .. i) \cup {i + 1}
  OBVIOUS
<1> QED
  BY <1>1 DEF First

LEMMA FlattenLists ==
    ASSUME NEW n \in Nat, n # 0, NEW s, Len(s) = n, NEW part, \A i \in 1 .. n : Lists(s[i], part[i]),
           \A i, j \in 1 .. n : i # j => part[i] \cap part[j] = {}
    PROVE  Lists(FlattenSeq(s), First(part, n))
<1>f. PICK f : Flattens(f, s, n)
  BY FlattenIs
<1>1. FlattenSeq(s) = f[n] /\ f[1] = s[1] /\ \A i \in 1 .. n : i # n => f[i + 1] = f[i] \o s[i + 1]
  BY <1>f DEF Flattens
<1> DEFINE T == {i \in 1 .. n : Lists(f[i], First(part, i))}
<1>2. 1 \in 1 .. n /\ n \in Int /\ n \in 1 .. n
  OBVIOUS
<1>3. 1 \in T
  <2>1. First(part, 1) = part[1]
    BY <1>2, FirstAll
  <2> QED
    BY <1>1, <1>2, <2>1
<1>4. ASSUME NEW i \in 1 .. n, i \in T, i # n PROVE i + 1 \in T
  <2>1. i \in Nat /\ i + 1 \in 1 .. n
    BY <1>4
  <2>2. First(part, i) \cap part[i + 1] = {}
    <3>1. \A j \in 1 .. i : j \in 1 .. n /\ j # i + 1
      BY <2>1
    <3>2. \A j \in 1 .. i : part[j] \cap part[i + 1] = {}
      BY <2>1, <3>1
    <3> QED
      BY <3>2 DEF First
  <2>3. Lists(f[i], First(part, i)) /\ Lists(s[i + 1], part[i + 1])
    BY <1>4, <2>1
  <2>4. Lists(f[i] \o s[i + 1], First(part, i) \cup part[i + 1])
    BY <2>2, <2>3, ListsBoth
  <2>5. First(part, i + 1) = First(part, i) \cup part[i + 1]
    BY <2>1, FirstAll
  <2> QED
    BY <1>1, <1>4, <2>1, <2>4, <2>5
<1> HIDE DEF T
<1>5. \A i \in 1 .. n : i \in T
  <2>1. 1 \in Int /\ \A i \in 1 .. n : i \in T /\ i # n => i + 1 \in T
    BY <1>4
  <2> QED
    BY <1>2, <1>3, <2>1, UpTo
<1> QED
  BY <1>1, <1>2, <1>5 DEF T

LEMMA FlattenOrder ==
    ASSUME NEW n \in Nat, n # 0, NEW s, Len(s) = n, NEW part, NEW map,
           \A i \in 1 .. n : InOrder(s[i], part[i], map),
           \A i, j \in 1 .. n : i < j => Below(part[i], part[j])
    PROVE  InOrder(FlattenSeq(s), First(part, n), map)
<1>f. PICK f : Flattens(f, s, n)
  BY FlattenIs
<1>1. FlattenSeq(s) = f[n] /\ f[1] = s[1] /\ \A i \in 1 .. n : i # n => f[i + 1] = f[i] \o s[i + 1]
  BY <1>f DEF Flattens
<1> DEFINE T == {i \in 1 .. n : InOrder(f[i], First(part, i), map)}
<1>2. 1 \in 1 .. n /\ n \in Int /\ n \in 1 .. n
  OBVIOUS
<1>3. 1 \in T
  <2>1. First(part, 1) = part[1]
    BY <1>2, FirstAll
  <2> QED
    BY <1>1, <1>2, <2>1
<1>4. ASSUME NEW i \in 1 .. n, i \in T, i # n PROVE i + 1 \in T
  <2>1. i \in Nat /\ i + 1 \in 1 .. n
    BY <1>4
  <2>2. Below(First(part, i), part[i + 1])
    <3>1. \A j \in 1 .. i : j \in 1 .. n /\ j < i + 1
      BY <2>1
    <3>2. \A j \in 1 .. i : Below(part[j], part[i + 1])
      BY <2>1, <3>1
    <3> QED
      BY <3>2 DEF First, Below
  <2>3. InOrder(f[i], First(part, i), map) /\ InOrder(s[i + 1], part[i + 1], map)
    BY <1>4, <2>1
  <2>4. InOrder(f[i] \o s[i + 1], First(part, i) \cup part[i + 1], map)
    BY <2>2, <2>3, OrderBoth
  <2>5. First(part, i + 1) = First(part, i) \cup part[i + 1]
    BY <2>1, FirstAll
  <2> QED
    BY <1>1, <1>4, <2>1, <2>4, <2>5
<1> HIDE DEF T
<1>5. \A i \in 1 .. n : i \in T
  <2>1. 1 \in Int /\ \A i \in 1 .. n : i \in T /\ i # n => i + 1 \in T
    BY <1>4
  <2> QED
    BY <1>2, <1>3, <2>1, UpTo
<1> QED
  BY <1>1, <1>2, <1>5 DEF T

-----------------------------------------------------------------------------
(* What is below a node. *)

LEMMA PiecesBelow ==
    ASSUME NEW nd, HasKeys(nd), Sorted(nd), NEW S, S \subseteq Int, NEW i \in Kids(nd), NEW j \in Kids(nd), i < j
    PROVE  Below(Piece(nd, S, i), Piece(nd, S, j))
<1>1. nd.numKeys \in Nat /\ i \in Int /\ j \in Int
  BY DEF HasKeys, Kids
<1>2. i + 1 \in 0 .. nd.numKeys - 1 /\ j \in 0 .. nd.numKeys - 1 /\ i < nd.numKeys - 1 /\ j # -1
  BY <1>1 DEF Kids
<1>3. nd.entries[i + 1].key \in Nat /\ nd.entries[j].key \in Nat
  BY <1>2 DEF HasKeys
<1>4. nd.entries[i + 1].key <= nd.entries[j].key
  <2>1. CASE i + 1 = j
    BY <1>3, <2>1
  <2>2. CASE i + 1 < j
    BY <1>2, <1>3, <2>2 DEF Sorted
  <2> QED
    BY <1>1, <2>1, <2>2
<1>5. ASSUME NEW x \in Piece(nd, S, i), NEW y \in Piece(nd, S, j) PROVE x < y
  <2>1. x < nd.entries[i + 1].key /\ nd.entries[j].key <= y /\ x \in Int /\ y \in Int
    BY <1>2 DEF Piece, Between
  <2> QED
    BY <1>3, <1>4, <2>1
<1> QED
  BY <1>5 DEF Below

\* The K children of n, which share its region out among them in order.
KidsOf(node, reg, lev, n, kids, K) ==
    /\ K \in Nat /\ K # 0 /\ DOMAIN kids = 1 .. K
    /\ \A i \in 1 .. K : kids[i] \in DOMAIN node /\ lev[kids[i]] = lev[n] + 1 /\ reg[kids[i]] \subseteq reg[n]
    /\ \A k \in reg[n] : \E i \in 1 .. K : k \in reg[kids[i]]
    /\ \A i, j \in 1 .. K : i < j => Below(reg[kids[i]], reg[kids[j]])

LEMMA KidsAre ==
    ASSUME NEW node, NEW root, NEW depth, NEW reg, NEW lev, Whole(node, root, depth, reg, lev),
           NEW n \in DOMAIN node, ~node[n].isLeaf, NEW kids, kids = Children(node[n]),
           NEW K, K = node[n].numKeys + 1
    PROVE  KidsOf(node, reg, lev, n, kids, K)
<1>1. /\ HasKeys(node[n]) /\ Sorted(node[n]) /\ node[n].numKeys \in Nat
      /\ reg[n] \subseteq Int
  BY DEF Whole, Tree, NodeRight, Placed, HasKeys
<1>2. DOMAIN kids = 1 .. K /\ \A i \in 1 .. K : i - 2 \in Kids(node[n]) /\ kids[i] = Child(node[n], i - 2)
  BY <1>1, ChildrenAre
<1>3. ASSUME NEW i \in 1 .. K
      PROVE  kids[i] \in DOMAIN node /\ lev[kids[i]] = lev[n] + 1 /\ reg[kids[i]] = Piece(node[n], reg[n], i - 2)
  <2>1. PICK j : j = i - 2
    OBVIOUS
  <2>2. j \in Kids(node[n]) /\ kids[i] = Child(node[n], j)
    BY <1>2, <2>1
  <2>3. kids[i] \in DOMAIN node /\ lev[kids[i]] = lev[n] + 1 /\ reg[kids[i]] = Piece(node[n], reg[n], j)
    BY <2>2 DEF Whole, Tree, Parts
  <2> QED
    BY <2>1, <2>3
<1>4. ASSUME NEW i \in 1 .. K PROVE reg[kids[i]] \subseteq reg[n]
  BY <1>3 DEF Piece
<1>5. ASSUME NEW k \in reg[n] PROVE \E i \in 1 .. K : k \in reg[kids[i]]
  <2>1. PICK t : t = findChildIndex(node[n], k)
    OBVIOUS
  <2>2. t \in -1 .. node[n].numKeys - 1 /\ Between(node[n], t, k)
    BY <1>1, <2>1, ChildIndex
  <2>3. PICK i : i = t + 2
    OBVIOUS
  <2>4. i \in 1 .. K /\ i - 2 = t
    BY <1>1, <2>2, <2>3
  <2>5. k \in Piece(node[n], reg[n], i - 2)
    BY <2>2, <2>4 DEF Piece
  <2> QED
    BY <1>3, <2>4, <2>5
<1>6. ASSUME NEW i \in 1 .. K, NEW j \in 1 .. K, i < j PROVE Below(reg[kids[i]], reg[kids[j]])
  <2>1. PICK a, b : a = i - 2 /\ b = j - 2
    OBVIOUS
  <2>2. a \in Kids(node[n]) /\ b \in Kids(node[n]) /\ a < b
    BY <1>2, <1>6, <2>1
  <2>3. Below(Piece(node[n], reg[n], a), Piece(node[n], reg[n], b))
    BY <1>1, <2>2, PiecesBelow
  <2> QED
    BY <1>3, <2>1, <2>3
<1> QED
  BY <1>1, <1>2, <1>3, <1>4, <1>5, <1>6 DEF KidsOf

\* A key of a node's region tells the nodes it is below from those it is not.
Mark(reg, m) == CHOOSE k : k \in reg[m]

Under(node, reg, lev, n) == {m \in DOMAIN node : lev[n] < lev[m] /\ Mark(reg, m) \in reg[n]}

LEMMA MarkIs ==
    ASSUME NEW node, NEW root, NEW depth, NEW reg, NEW lev, Whole(node, root, depth, reg, lev)
    PROVE  /\ \A m \in DOMAIN node : Mark(reg, m) \in reg[m] /\ Mark(reg, m) \in Int /\ lev[m] \in Int /\ lev[m] <= depth
           /\ \A m, n \in DOMAIN node : lev[m] = lev[n] /\ Mark(reg, m) \in reg[n] => m = n
<1>1. \A m \in DOMAIN node : lev[m] \in 0 .. depth /\ depth \in Nat /\ reg[m] \subseteq Int /\ reg[m] # {}
  BY DEF Whole, Tree, Placed
<1>2. \A m \in DOMAIN node : Mark(reg, m) \in reg[m] /\ Mark(reg, m) \in Int
  BY <1>1 DEF Mark
<1>3. RegionsApart(DOMAIN node, reg, lev)
  BY DEF Whole, Tree
<1>4. \A m, n \in DOMAIN node : lev[m] = lev[n] /\ Mark(reg, m) \in reg[n] => m = n
  BY <1>2, <1>3 DEF RegionsApart
<1> QED
  BY <1>1, <1>2, <1>4

LEMMA UnderLeaf ==
    ASSUME NEW node, NEW root, NEW depth, NEW reg, NEW lev, Whole(node, root, depth, reg, lev),
           NEW n \in DOMAIN node, lev[n] = depth
    PROVE  Under(node, reg, lev, n) = {}
<1>1. depth \in Int /\ \A m \in DOMAIN node : lev[m] \in Int /\ lev[m] <= depth
  BY MarkIs DEF Whole, Tree
<1> QED
  BY <1>1 DEF Under

LEMMA UnderRoot ==
    ASSUME NEW node, NEW root, NEW depth, NEW reg, NEW lev, Whole(node, root, depth, reg, lev)
    PROVE  Under(node, reg, lev, root) = DOMAIN node \ {root}
<1>1. root \in DOMAIN node /\ lev[root] = 0 /\ reg[root] = Int
  BY DEF Whole, Tree
<1>2. \A m \in DOMAIN node : Mark(reg, m) \in reg[root] /\ lev[m] \in Int /\ lev[m] >= 0
  <2>1. \A m \in DOMAIN node : Mark(reg, m) \in Int
    BY MarkIs
  <2>2. \A m \in DOMAIN node : lev[m] \in 0 .. depth /\ depth \in Nat
    BY DEF Whole, Tree, Placed
  <2> QED
    BY <1>1, <2>1, <2>2
<1>3. ASSUME NEW m \in DOMAIN node, m # root PROVE 0 < lev[m]
  <2>1. lev[m] = lev[root] => m = root
    BY <1>1, <1>2, MarkIs
  <2> QED
    BY <1>1, <1>2, <1>3, <2>1
<1> QED
  BY <1>1, <1>2, <1>3 DEF Under

\* The child number i of n and what is below it.
Branch(node, reg, lev, kids, i) == Under(node, reg, lev, kids[i]) \cup {kids[i]}

LEMMA BranchesAre ==
    ASSUME NEW node, NEW root, NEW depth, NEW reg, NEW lev, Whole(node, root, depth, reg, lev),
           NEW n \in DOMAIN node, NEW kids, NEW K, KidsOf(node, reg, lev, n, kids, K)
    PROVE  /\ \A i \in 1 .. K : kids[i] \notin Under(node, reg, lev, kids[i])
           /\ \A i, j \in 1 .. K : i # j => Branch(node, reg, lev, kids, i) \cap Branch(node, reg, lev, kids, j) = {}
           /\ \A m : m \in Under(node, reg, lev, n) <=> \E i \in 1 .. K : m \in Branch(node, reg, lev, kids, i)
<1>1. /\ \A m \in DOMAIN node : Mark(reg, m) \in reg[m] /\ Mark(reg, m) \in Int /\ lev[m] \in Int
      /\ \A m, x \in DOMAIN node : lev[m] = lev[x] /\ Mark(reg, m) \in reg[x] => m = x
  BY MarkIs
<1>2. /\ K \in Nat
      /\ \A i \in 1 .. K : kids[i] \in DOMAIN node /\ lev[kids[i]] = lev[n] + 1 /\ reg[kids[i]] \subseteq reg[n]
      /\ \A k \in reg[n] : \E i \in 1 .. K : k \in reg[kids[i]]
      /\ \A i, j \in 1 .. K : i < j => Below(reg[kids[i]], reg[kids[j]])
  BY DEF KidsOf
<1>3. ASSUME NEW i \in 1 .. K PROVE kids[i] \notin Under(node, reg, lev, kids[i])
  BY <1>1, <1>2 DEF Under
<1>4. ASSUME NEW i \in 1 .. K, NEW j \in 1 .. K, i < j, NEW k \in Int, k \in reg[kids[i]], k \in reg[kids[j]] PROVE FALSE
  <2>1. k < k
    BY <1>2, <1>4 DEF Below
  <2> QED
    BY <2>1
<1>5. ASSUME NEW i \in 1 .. K, NEW m \in Branch(node, reg, lev, kids, i)
      PROVE  m \in DOMAIN node /\ Mark(reg, m) \in reg[kids[i]] /\ Mark(reg, m) \in Int /\ m \in Under(node, reg, lev, n)
  <2>1. PICK c : c = kids[i] /\ c \in DOMAIN node /\ lev[c] = lev[n] + 1 /\ reg[c] \subseteq reg[n]
    BY <1>2
  <2>2. m \in Under(node, reg, lev, c) \/ m = c
    BY <1>5, <2>1 DEF Branch
  <2>3. m \in DOMAIN node /\ Mark(reg, m) \in reg[c] /\ (lev[c] < lev[m] \/ lev[c] = lev[m])
    BY <1>1, <2>1, <2>2 DEF Under
  <2>4. lev[n] < lev[m]
    BY <1>1, <2>1, <2>3
  <2> QED
    BY <1>1, <2>1, <2>3, <2>4 DEF Under
<1>6. ASSUME NEW i \in 1 .. K, NEW j \in 1 .. K, i # j, NEW m \in Branch(node, reg, lev, kids, i),
             m \in Branch(node, reg, lev, kids, j)
      PROVE  FALSE
  <2>1. PICK k \in Int : k = Mark(reg, m)
    BY <1>5, <1>6
  <2>2. k \in reg[kids[i]] /\ k \in reg[kids[j]]
    BY <1>5, <1>6, <2>1
  <2>3. i < j \/ j < i
    BY <1>6
  <2> QED
    BY <1>4, <2>2, <2>3
<1>7. ASSUME NEW m \in Under(node, reg, lev, n) PROVE \E i \in 1 .. K : m \in Branch(node, reg, lev, kids, i)
  <2>1. m \in DOMAIN node /\ lev[n] < lev[m] /\ Mark(reg, m) \in reg[n]
    BY DEF Under
  <2>2. PICK i \in 1 .. K : Mark(reg, m) \in reg[kids[i]]
    BY <1>2, <2>1
  <2>3. kids[i] \in DOMAIN node /\ lev[kids[i]] = lev[n] + 1
    BY <1>2
  <2>4. CASE lev[m] = lev[kids[i]]
    <3>1. m = kids[i]
      BY <1>1, <2>1, <2>2, <2>3, <2>4
    <3> QED
      BY <3>1 DEF Branch
  <2>5. CASE lev[kids[i]] < lev[m]
    BY <2>1, <2>2, <2>5 DEF Under, Branch
  <2> QED
    BY <1>1, <2>1, <2>3, <2>4, <2>5
<1> QED
  BY <1>3, <1>5, <1>6, <1>7

\* The keys of the leaves below n, or of n itself.
KeysIn(node, reg, n) == LeafKeys(node) \cap reg[n]

LEMMA KeysOfLeaf ==
    ASSUME NEW node, NEW root, NEW depth, NEW reg, NEW lev, Whole(node, root, depth, reg, lev),
           NEW n \in DOMAIN node, node[n].isLeaf
    PROVE  KeysIn(node, reg, n) = NodeKeys(node[n])
<1>1. /\ \A m \in DOMAIN node : node[m].isLeaf => lev[m] = depth
      /\ \A m \in DOMAIN node : NodeKeys(node[m]) \subseteq reg[m]
      /\ RegionsApart(DOMAIN node, reg, lev)
  BY DEF Whole, Tree, Placed
<1>2. ASSUME NEW k \in KeysIn(node, reg, n) PROVE k \in NodeKeys(node[n])
  <2>1. k \in LeafKeys(node) /\ k \in reg[n]
    BY DEF KeysIn
  <2>2. PICK m \in DOMAIN node : node[m].isLeaf /\ k \in NodeKeys(node[m])
    BY <2>1, InLeaf
  <2>3. m = n
    BY <1>1, <2>1, <2>2 DEF RegionsApart
  <2> QED
    BY <2>2, <2>3
<1>3. ASSUME NEW k \in NodeKeys(node[n]) PROVE k \in KeysIn(node, reg, n)
  BY <1>1, InLeaf DEF KeysIn
<1> QED
  BY <1>2, <1>3

LEMMA KeysOfKids ==
    ASSUME NEW node, NEW reg, NEW lev, NEW n, NEW kids, NEW K, KidsOf(node, reg, lev, n, kids, K)
    PROVE  /\ \A i, j \in 1 .. K : i < j => Below(KeysIn(node, reg, kids[i]), KeysIn(node, reg, kids[j]))
           /\ \A k : k \in KeysIn(node, reg, n) <=> \E i \in 1 .. K : k \in KeysIn(node, reg, kids[i])
<1>1. /\ \A i \in 1 .. K : reg[kids[i]] \subseteq reg[n]
      /\ \A k \in reg[n] : \E i \in 1 .. K : k \in reg[kids[i]]
      /\ \A i, j \in 1 .. K : i < j => Below(reg[kids[i]], reg[kids[j]])
  BY DEF KidsOf
<1>2. ASSUME NEW i \in 1 .. K, NEW j \in 1 .. K, i < j
      PROVE  Below(KeysIn(node, reg, kids[i]), KeysIn(node, reg, kids[j]))
  BY <1>1, <1>2 DEF KeysIn, Below
<1>3. ASSUME NEW k, k \in KeysIn(node, reg, n) PROVE \E i \in 1 .. K : k \in KeysIn(node, reg, kids[i])
  BY <1>1, <1>3 DEF KeysIn
<1>4. ASSUME NEW k, NEW i \in 1 .. K, k \in KeysIn(node, reg, kids[i]) PROVE k \in KeysIn(node, reg, n)
  BY <1>1, <1>4 DEF KeysIn
<1> QED
  BY <1>2, <1>3, <1>4

\* The records of one leaf.
LeafRecords(nd) == [i \in 1 .. nd.numKeys |-> nd.entries[i - 1].ptr]

LEMMA LeafOrder ==
    ASSUME NEW r, NEW reg, NEW lev, Sound(r, reg, lev), NEW n \in DOMAIN r.node, r.node[n].isLeaf,
           NEW map, map = MapOf(r)
    PROVE  InOrder(LeafRecords(r.node[n]), NodeKeys(r.node[n]), map)
<1>1. PICK nd, K, S : nd = r.node[n] /\ K = nd.numKeys /\ S = NodeKeys(nd)
  OBVIOUS
<1>2. HasKeys(nd) /\ Sorted(nd) /\ K \in Nat
  BY <1>1 DEF Sound, Whole, Tree, NodeRight, HasKeys
<1>3. PICK ks : ks = [i \in 1 .. K |-> nd.entries[i - 1].key]
  OBVIOUS
<1>4. \A i \in 1 .. K : i - 1 \in 0 .. nd.numKeys - 1 /\ ks[i] = nd.entries[i - 1].key
  BY <1>1, <1>2, <1>3
<1>5. \A i \in 1 .. K : ks[i] \in S
  BY <1>1, <1>4 DEF NodeKeys
<1>6. ks \in Seq(S) /\ Len(ks) = K /\ DOMAIN ks = 1 .. K
  <2>1. ks \in [1 .. K -> S]
    BY <1>3, <1>5
  <2> QED
    BY <1>2, <2>1, SeqTyped
<1>7. Rising(ks)
  <2>1. ASSUME NEW i \in 1 .. K, NEW j \in 1 .. K, i < j PROVE ks[i] < ks[j]
    <3>1. PICK a, b : a = i - 1 /\ b = j - 1
      OBVIOUS
    <3>2. a \in 0 .. nd.numKeys - 1 /\ b \in 0 .. nd.numKeys - 1 /\ a < b
      BY <1>4, <2>1, <3>1
    <3>3. nd.entries[a].key < nd.entries[b].key
      BY <1>2, <3>2 DEF Sorted
    <3> QED
      BY <1>4, <3>1, <3>3
  <2> QED
    BY <1>6, <2>1 DEF Rising
<1>8. Range(ks) = S
  <2>1. ASSUME NEW k \in S PROVE k \in Range(ks)
    <3>1. PICK a \in 0 .. nd.numKeys - 1 : k = nd.entries[a].key
      BY <1>1 DEF NodeKeys
    <3>2. PICK i : i = a + 1
      OBVIOUS
    <3>3. i \in 1 .. K /\ i - 1 = a
      BY <1>1, <1>2, <3>1, <3>2
    <3> QED
      BY <1>4, <1>6, <3>1, <3>3 DEF Range
  <2>2. ASSUME NEW k \in Range(ks) PROVE k \in S
    BY <1>5, <1>6 DEF Range
  <2> QED
    BY <2>1, <2>2
<1>9. ASSUME NEW i \in 1 .. K PROVE nd.entries[i - 1].ptr = map[ks[i]]
  <2>1. PICK a, e : a = i - 1 /\ e = nd.entries[a]
    OBVIOUS
  <2>2. a \in 0 .. nd.numKeys - 1 /\ ks[i] = e.key
    BY <1>4, <2>1
  <2>3. e \in LeafEntries(r.node)
    BY <1>1, <2>1, <2>2, InLeaves DEF NodeEntries
  <2>4. map[e.key] = e.ptr
    BY <2>3, MapsTo
  <2> QED
    BY <2>1, <2>2, <2>4
<1>10. LeafRecords(nd) = [i \in 1 .. Len(ks) |-> map[ks[i]]]
  BY <1>1, <1>6, <1>9 DEF LeafRecords
<1>11. InOrder(LeafRecords(nd), S, map)
  BY <1>6, <1>7, <1>8, <1>10 DEF InOrder, Ordered, Valued
<1> QED
  BY <1>1, <1>11

-----------------------------------------------------------------------------
(* The recursions, whose levels are numbers. *)

NodesAt(node, B, h, m) ==
    IF h = 0 THEN << >>
    ELSE FlattenSeq([i \in DOMAIN Children(node[m]) |->
                        Append(B[h - 1][Children(node[m])[i]], Children(node[m])[i])])

IsNodesTo(B, node, k) == B = [h \in 0 .. k |-> [m \in DOMAIN node |-> NodesAt(node, B, h, m)]]

LEMMA NodesAtSame ==
    ASSUME NEW node, NEW B, NEW C, NEW h, NEW m, h # 0 => B[h - 1] = C[h - 1]
    PROVE  NodesAt(node, B, h, m) = NodesAt(node, C, h, m)
BY DEF NodesAt

LEMMA NodesToAre ==
    ASSUME NEW node, NEW k, NEW B, IsNodesTo(B, node, k), NEW h \in 0 .. k, NEW m \in DOMAIN node
    PROVE  B[h][m] = NodesAt(node, B, h, m)
<1>1. PICK C : C = [x \in 0 .. k |-> [y \in DOMAIN node |-> NodesAt(node, B, x, y)]]
  OBVIOUS
<1>2. B = C
  BY <1>1 DEF IsNodesTo
<1>3. C[h][m] = NodesAt(node, B, h, m)
  BY <1>1
<1> QED
  BY <1>2, <1>3

LEMMA NodesToExist ==
    ASSUME NEW node, NEW d \in Nat
    PROVE  \E B : IsNodesTo(B, node, d)
<1> DEFINE T == {k \in Nat : \E B : IsNodesTo(B, node, k)}
<1>1. 0 \in T
  <2>1. PICK B : B = [h \in 0 .. 0 |-> [m \in DOMAIN node |-> << >>]]
    OBVIOUS
  <2>2. \A h \in 0 .. 0 : \A m \in DOMAIN node : NodesAt(node, B, h, m) = << >>
    BY DEF NodesAt
  <2>3. IsNodesTo(B, node, 0)
    BY <2>1, <2>2 DEF IsNodesTo
  <2> QED
    BY <2>3
<1>2. ASSUME NEW k \in Nat, k \in T PROVE k + 1 \in T
  <2>1. PICK B : IsNodesTo(B, node, k)
    BY <1>2
  <2>2. PICK C : C = [h \in 0 .. k + 1 |-> [m \in DOMAIN node |-> NodesAt(node, B, h, m)]]
    OBVIOUS
  <2>3. ASSUME NEW h \in 0 .. k PROVE C[h] = B[h]
    <3>1. h \in 0 .. k + 1
      OBVIOUS
    <3>2. B[h] = [m \in DOMAIN node |-> NodesAt(node, B, h, m)]
      BY <2>1 DEF IsNodesTo
    <3> QED
      BY <2>2, <3>1, <3>2
  <2>4. ASSUME NEW h \in 0 .. k + 1, NEW m \in DOMAIN node PROVE NodesAt(node, B, h, m) = NodesAt(node, C, h, m)
    <3>1. h # 0 => B[h - 1] = C[h - 1]
      <4>1. h # 0 => h - 1 \in 0 .. k
        OBVIOUS
      <4> QED
        BY <2>3, <4>1
    <3> QED
      BY <3>1, NodesAtSame
  <2>5. IsNodesTo(C, node, k + 1)
    <3>1. ASSUME NEW h \in 0 .. k + 1
          PROVE  [m \in DOMAIN node |-> NodesAt(node, B, h, m)] = [m \in DOMAIN node |-> NodesAt(node, C, h, m)]
      BY <2>4
    <3> QED
      BY <2>2, <3>1 DEF IsNodesTo
  <2> QED
    BY <2>5
<1> HIDE DEF T
<1>3. d \in T
  BY <1>1, <1>2, SetInduction
<1> QED
  BY <1>3 DEF T

LEMMA NodesBelowAre ==
    ASSUME NEW r, r.depth \in Nat, NEW n
    PROVE  \E B : IsNodesTo(B, r.node, r.depth) /\ nodesBelow(r, n) = B[r.depth][n]
<1> DEFINE Is(B) == B = [h \in 0 .. r.depth |-> [m \in DOMAIN r.node |->
                        LET kids == Children(r.node[m])
                        IN  IF h = 0 THEN << >>
                            ELSE FlattenSeq([i \in DOMAIN kids |-> Append(B[h - 1][kids[i]], kids[i])])]]
<1>1. PICK B : B = CHOOSE C : Is(C)
  OBVIOUS
<1>2. \A C : Is(C) <=> IsNodesTo(C, r.node, r.depth)
  BY Zenon DEF IsNodesTo, NodesAt
<1>3. nodesBelow(r, n) = B[r.depth][n]
  BY <1>1, Zenon DEF nodesBelow
<1> HIDE DEF Is
<1>4. \E C : Is(C)
  BY <1>2, NodesToExist
<1>5. Is(B)
  BY <1>1, <1>4
<1> QED
  BY <1>2, <1>3, <1>5

RecordsAt(node, B, h, m) ==
    IF node[m].isLeaf THEN LeafRecords(node[m])
    ELSE IF h = 0 THEN << >>
    ELSE FlattenSeq([i \in DOMAIN Children(node[m]) |-> B[h - 1][Children(node[m])[i]]])

IsRecordsTo(B, node, k) == B = [h \in 0 .. k |-> [m \in DOMAIN node |-> RecordsAt(node, B, h, m)]]

LEMMA RecordsAtSame ==
    ASSUME NEW node, NEW B, NEW C, NEW h, NEW m, h # 0 => B[h - 1] = C[h - 1]
    PROVE  RecordsAt(node, B, h, m) = RecordsAt(node, C, h, m)
BY DEF RecordsAt

LEMMA RecordsToAre ==
    ASSUME NEW node, NEW k, NEW B, IsRecordsTo(B, node, k), NEW h \in 0 .. k, NEW m \in DOMAIN node
    PROVE  B[h][m] = RecordsAt(node, B, h, m)
<1>1. PICK C : C = [x \in 0 .. k |-> [y \in DOMAIN node |-> RecordsAt(node, B, x, y)]]
  OBVIOUS
<1>2. B = C
  BY <1>1 DEF IsRecordsTo
<1>3. C[h][m] = RecordsAt(node, B, h, m)
  BY <1>1
<1> QED
  BY <1>2, <1>3

LEMMA RecordsToExist ==
    ASSUME NEW node, NEW d \in Nat
    PROVE  \E B : IsRecordsTo(B, node, d)
<1> DEFINE T == {k \in Nat : \E B : IsRecordsTo(B, node, k)}
<1>1. 0 \in T
  <2>1. PICK B : B = [h \in 0 .. 0 |-> [m \in DOMAIN node |-> IF node[m].isLeaf THEN LeafRecords(node[m]) ELSE << >>]]
    OBVIOUS
  <2>2. \A h \in 0 .. 0 : \A m \in DOMAIN node :
           RecordsAt(node, B, h, m) = IF node[m].isLeaf THEN LeafRecords(node[m]) ELSE << >>
    BY DEF RecordsAt
  <2>3. IsRecordsTo(B, node, 0)
    BY <2>1, <2>2 DEF IsRecordsTo
  <2> QED
    BY <2>3
<1>2. ASSUME NEW k \in Nat, k \in T PROVE k + 1 \in T
  <2>1. PICK B : IsRecordsTo(B, node, k)
    BY <1>2
  <2>2. PICK C : C = [h \in 0 .. k + 1 |-> [m \in DOMAIN node |-> RecordsAt(node, B, h, m)]]
    OBVIOUS
  <2>3. ASSUME NEW h \in 0 .. k PROVE C[h] = B[h]
    <3>1. h \in 0 .. k + 1
      OBVIOUS
    <3>2. B[h] = [m \in DOMAIN node |-> RecordsAt(node, B, h, m)]
      BY <2>1 DEF IsRecordsTo
    <3> QED
      BY <2>2, <3>1, <3>2
  <2>4. ASSUME NEW h \in 0 .. k + 1, NEW m \in DOMAIN node PROVE RecordsAt(node, B, h, m) = RecordsAt(node, C, h, m)
    <3>1. h # 0 => B[h - 1] = C[h - 1]
      <4>1. h # 0 => h - 1 \in 0 .. k
        OBVIOUS
      <4> QED
        BY <2>3, <4>1
    <3> QED
      BY <3>1, RecordsAtSame
  <2>5. IsRecordsTo(C, node, k + 1)
    <3>1. ASSUME NEW h \in 0 .. k + 1
          PROVE  [m \in DOMAIN node |-> RecordsAt(node, B, h, m)] = [m \in DOMAIN node |-> RecordsAt(node, C, h, m)]
      BY <2>4
    <3> QED
      BY <2>2, <3>1 DEF IsRecordsTo
  <2> QED
    BY <2>5
<1> HIDE DEF T
<1>3. d \in T
  BY <1>1, <1>2, SetInduction
<1> QED
  BY <1>3 DEF T

LEMMA RecordsBelowAre ==
    ASSUME NEW r, r.depth \in Nat, NEW n
    PROVE  \E B : IsRecordsTo(B, r.node, r.depth) /\ recordsBelow(r, n) = B[r.depth][n]
<1> DEFINE Is(B) == B = [h \in 0 .. r.depth |-> [m \in DOMAIN r.node |->
                        LET node == r.node[m]
                            kids == Children(node)
                        IN  IF node.isLeaf THEN [i \in 1 .. node.numKeys |-> node.entries[i - 1].ptr]
                            ELSE IF h = 0 THEN << >>
                            ELSE FlattenSeq([i \in DOMAIN kids |-> B[h - 1][kids[i]]])]]
<1>1. PICK B : B = CHOOSE C : Is(C)
  OBVIOUS
<1>2. \A C : Is(C) <=> IsRecordsTo(C, r.node, r.depth)
  BY Zenon DEF IsRecordsTo, RecordsAt, LeafRecords
<1>3. recordsBelow(r, n) = B[r.depth][n]
  BY <1>1, Zenon DEF recordsBelow
<1> HIDE DEF Is
<1>4. \E C : Is(C)
  BY <1>2, RecordsToExist
<1>5. Is(B)
  BY <1>1, <1>4
<1> QED
  BY <1>2, <1>3, <1>5

-----------------------------------------------------------------------------
(* What the recursions give. *)

LEMMA LenIs == ASSUME NEW K \in Nat, NEW s, DOMAIN s = 1 .. K, s = [i \in 1 .. K |-> s[i]] PROVE Len(s) = K
<1>1. PICK V : V = {s[i] : i \in 1 .. K}
  OBVIOUS
<1>2. s \in [1 .. K -> V]
  BY <1>1
<1> QED
  BY <1>2, SeqTyped

LEMMA FlattenNone == ASSUME NEW s, Len(s) = 0 PROVE FlattenSeq(s) = s
BY DEF FlattenSeq

LEMMA NoNodes ==
    ASSUME NEW node, NEW B, NEW h, NEW m, node[m].isLeaf
    PROVE  NodesAt(node, B, h, m) = << >>
<1>1. Children(node[m]) = << >> /\ DOMAIN Children(node[m]) = {}
  BY DEF Children
<1>2. PICK s : s = [i \in DOMAIN Children(node[m]) |-> Append(B[h - 1][Children(node[m])[i]], Children(node[m])[i])]
  OBVIOUS
<1>3. s = << >> /\ Len(s) = 0
  BY <1>1, <1>2
<1>4. FlattenSeq(s) = << >>
  BY <1>3, FlattenNone
<1> QED
  BY <1>2, <1>4 DEF NodesAt

LEMMA NodesOfKids ==
    ASSUME NEW node, NEW root, NEW depth, NEW reg, NEW lev, Whole(node, root, depth, reg, lev),
           NEW n \in DOMAIN node, NEW kids, kids = Children(node[n]), NEW K, KidsOf(node, reg, lev, n, kids, K),
           NEW B, NEW h, h # 0, \A i \in 1 .. K : Lists(B[h - 1][kids[i]], Under(node, reg, lev, kids[i]))
    PROVE  Lists(NodesAt(node, B, h, n), Under(node, reg, lev, n))
<1>1. K \in Nat /\ K # 0 /\ DOMAIN kids = 1 .. K
  BY DEF KidsOf
<1>2. /\ \A i \in 1 .. K : kids[i] \notin Under(node, reg, lev, kids[i])
      /\ \A i, j \in 1 .. K : i # j => Branch(node, reg, lev, kids, i) \cap Branch(node, reg, lev, kids, j) = {}
      /\ \A m : m \in Under(node, reg, lev, n) <=> \E i \in 1 .. K : m \in Branch(node, reg, lev, kids, i)
  BY BranchesAre
<1>3. PICK s : s = [i \in 1 .. K |-> Append(B[h - 1][kids[i]], kids[i])]
  OBVIOUS
<1>4. PICK part : part = [i \in 1 .. K |-> Branch(node, reg, lev, kids, i)]
  OBVIOUS
<1>5. Len(s) = K
  BY <1>1, <1>3, LenIs
<1>6. NodesAt(node, B, h, n) = FlattenSeq(s)
  BY <1>1, <1>3 DEF NodesAt
<1>7. \A i \in 1 .. K : Lists(s[i], part[i])
  <2>1. ASSUME NEW i \in 1 .. K PROVE Lists(s[i], part[i])
    <3>1. PICK a, S, x : a = B[h - 1][kids[i]] /\ S = Under(node, reg, lev, kids[i]) /\ x = kids[i]
      OBVIOUS
    <3>2. Lists(a, S) /\ x \notin S
      BY <1>2, <3>1
    <3>3. Lists(Append(a, x), S \cup {x})
      BY <3>2, ListsMore
    <3>4. s[i] = Append(a, x) /\ part[i] = S \cup {x}
      BY <1>3, <1>4, <3>1 DEF Branch
    <3> QED
      BY <3>3, <3>4
  <2> QED
    BY <2>1
<1>8. \A i, j \in 1 .. K : i # j => part[i] \cap part[j] = {}
  BY <1>2, <1>4
<1>9. Lists(FlattenSeq(s), First(part, K))
  BY <1>1, <1>5, <1>7, <1>8, FlattenLists
<1>10. First(part, K) = Under(node, reg, lev, n)
  <2>1. \A m : m \in First(part, K) <=> \E i \in 1 .. K : m \in part[i]
    BY DEF First
  <2>2. \A m : m \in First(part, K) <=> \E i \in 1 .. K : m \in Branch(node, reg, lev, kids, i)
    BY <1>4, <2>1
  <2> QED
    BY <1>2, <2>2
<1> QED
  BY <1>6, <1>9, <1>10

LEMMA NodesListed ==
    ASSUME NEW node, NEW root, NEW depth, NEW reg, NEW lev, Whole(node, root, depth, reg, lev),
           NEW B, IsNodesTo(B, node, depth)
    PROVE  Lists(B[depth][root], DOMAIN node \ {root})
<1> DEFINE T == {h \in Nat : h <= depth => \A m \in DOMAIN node : depth - h <= lev[m] =>
                                              Lists(B[h][m], Under(node, reg, lev, m))}
<1>1. depth \in Nat /\ root \in DOMAIN node /\ lev[root] = 0
  BY DEF Whole, Tree
<1>2. \A m \in DOMAIN node : lev[m] \in Nat /\ lev[m] <= depth /\ (node[m].isLeaf <=> lev[m] = depth)
  <2>1. \A m \in DOMAIN node : lev[m] \in 0 .. depth /\ (node[m].isLeaf <=> lev[m] = depth)
    BY DEF Whole, Tree, Placed
  <2> QED
    BY <1>1, <2>1
<1>3. \A h \in 0 .. depth : \A m \in DOMAIN node : B[h][m] = NodesAt(node, B, h, m)
  BY NodesToAre
<1>4. ASSUME NEW h \in 0 .. depth, NEW m \in DOMAIN node, node[m].isLeaf
      PROVE  Lists(B[h][m], Under(node, reg, lev, m))
  <2>1. B[h][m] = << >>
    BY <1>3, <1>4, NoNodes
  <2>2. Under(node, reg, lev, m) = {}
    BY <1>2, <1>4, UnderLeaf
  <2> QED
    BY <2>1, <2>2, ListsNone
<1>5. 0 \in T
  <2>1. ASSUME NEW m \in DOMAIN node, depth - 0 <= lev[m] PROVE Lists(B[0][m], Under(node, reg, lev, m))
    <3>1. node[m].isLeaf /\ 0 \in 0 .. depth
      BY <1>1, <1>2, <2>1
    <3> QED
      BY <1>4, <3>1
  <2> QED
    BY <2>1
<1>6. ASSUME NEW h \in Nat, h \in T PROVE h + 1 \in T
  <2>1. SUFFICES ASSUME h + 1 <= depth, NEW m \in DOMAIN node, depth - (h + 1) <= lev[m]
                 PROVE  Lists(B[h + 1][m], Under(node, reg, lev, m))
    OBVIOUS
  <2>2. PICK g : g = h + 1 /\ g \in 0 .. depth /\ g # 0 /\ g - 1 = h /\ h <= depth
    BY <1>1, <2>1
  <2>3. CASE node[m].isLeaf
    BY <1>4, <2>2, <2>3
  <2>4. CASE ~node[m].isLeaf
    <3>1. PICK kids, K : kids = Children(node[m]) /\ K = node[m].numKeys + 1
      OBVIOUS
    <3>2. KidsOf(node, reg, lev, m, kids, K)
      BY <2>4, <3>1, KidsAre
    <3>3. ASSUME NEW i \in 1 .. K PROVE Lists(B[g - 1][kids[i]], Under(node, reg, lev, kids[i]))
      <4>1. kids[i] \in DOMAIN node /\ lev[kids[i]] = lev[m] + 1
        BY <3>2 DEF KidsOf
      <4>2. depth - h <= lev[kids[i]]
        BY <1>1, <1>2, <2>1, <4>1
      <4> QED
        BY <1>6, <2>2, <4>1, <4>2
    <3>4. Lists(NodesAt(node, B, g, m), Under(node, reg, lev, m))
      BY <2>2, <3>1, <3>2, <3>3, NodesOfKids
    <3> QED
      BY <1>3, <2>2, <3>4
  <2> QED
    BY <2>3, <2>4
<1> HIDE DEF T
<1>7. depth \in T
  BY <1>1, <1>5, <1>6, SetInduction
<1>8. Lists(B[depth][root], Under(node, reg, lev, root))
  BY <1>1, <1>7 DEF T
<1> QED
  BY <1>8, UnderRoot

LEMMA RecordsOfKids ==
    ASSUME NEW node, NEW reg, NEW lev, NEW n, ~node[n].isLeaf, NEW kids, kids = Children(node[n]), NEW K,
           KidsOf(node, reg, lev, n, kids, K), NEW map,
           NEW B, NEW h, h # 0, \A i \in 1 .. K : InOrder(B[h - 1][kids[i]], KeysIn(node, reg, kids[i]), map)
    PROVE  InOrder(RecordsAt(node, B, h, n), KeysIn(node, reg, n), map)
<1>1. K \in Nat /\ K # 0 /\ DOMAIN kids = 1 .. K
  BY DEF KidsOf
<1>2. /\ \A i, j \in 1 .. K : i < j => Below(KeysIn(node, reg, kids[i]), KeysIn(node, reg, kids[j]))
      /\ \A k : k \in KeysIn(node, reg, n) <=> \E i \in 1 .. K : k \in KeysIn(node, reg, kids[i])
  BY KeysOfKids
<1>3. PICK s : s = [i \in 1 .. K |-> B[h - 1][kids[i]]]
  OBVIOUS
<1>4. PICK part : part = [i \in 1 .. K |-> KeysIn(node, reg, kids[i])]
  OBVIOUS
<1>5. Len(s) = K
  BY <1>1, <1>3, LenIs
<1>6. RecordsAt(node, B, h, n) = FlattenSeq(s)
  BY <1>1, <1>3 DEF RecordsAt
<1>7. \A i \in 1 .. K : InOrder(s[i], part[i], map)
  BY <1>3, <1>4
<1>8. \A i, j \in 1 .. K : i < j => Below(part[i], part[j])
  BY <1>2, <1>4
<1>9. InOrder(FlattenSeq(s), First(part, K), map)
  BY <1>1, <1>5, <1>7, <1>8, FlattenOrder
<1>10. First(part, K) = KeysIn(node, reg, n)
  <2>1. \A m : m \in First(part, K) <=> \E i \in 1 .. K : m \in part[i]
    BY DEF First
  <2>2. \A m : m \in First(part, K) <=> \E i \in 1 .. K : m \in KeysIn(node, reg, kids[i])
    BY <1>4, <2>1
  <2> QED
    BY <1>2, <2>2
<1> QED
  BY <1>6, <1>9, <1>10

LEMMA RecordsOrdered ==
    ASSUME NEW r, NEW reg, NEW lev, Sound(r, reg, lev), NEW map, map = MapOf(r),
           NEW B, IsRecordsTo(B, r.node, r.depth)
    PROVE  InOrder(B[r.depth][r.root], LeafKeys(r.node), map)
<1>1. PICK node, depth, root : node = r.node /\ depth = r.depth /\ root = r.root
  OBVIOUS
<1> DEFINE T == {h \in Nat : h <= depth => \A m \in DOMAIN node : depth - h <= lev[m] =>
                                              InOrder(B[h][m], KeysIn(node, reg, m), map)}
<1>2. Whole(node, root, depth, reg, lev) /\ depth \in Nat /\ root \in DOMAIN node /\ lev[root] = 0 /\ reg[root] = Int
  BY <1>1, SoundIs
<1>3. \A m \in DOMAIN node : lev[m] \in Nat /\ lev[m] <= depth /\ (node[m].isLeaf <=> lev[m] = depth)
  <2>1. \A m \in DOMAIN node : lev[m] \in 0 .. depth /\ (node[m].isLeaf <=> lev[m] = depth)
    BY <1>2 DEF Whole, Tree, Placed
  <2> QED
    BY <1>2, <2>1
<1>4. \A h \in 0 .. depth : \A m \in DOMAIN node : B[h][m] = RecordsAt(node, B, h, m)
  BY <1>1, RecordsToAre
<1>5. ASSUME NEW h \in 0 .. depth, NEW m \in DOMAIN node, node[m].isLeaf
      PROVE  InOrder(B[h][m], KeysIn(node, reg, m), map)
  <2>1. B[h][m] = LeafRecords(node[m])
    BY <1>4, <1>5 DEF RecordsAt
  <2>2. KeysIn(node, reg, m) = NodeKeys(node[m])
    BY <1>2, <1>5, KeysOfLeaf
  <2>3. InOrder(LeafRecords(node[m]), NodeKeys(node[m]), map)
    BY <1>1, <1>5, LeafOrder
  <2> QED
    BY <2>1, <2>2, <2>3
<1>6. 0 \in T
  <2>1. ASSUME NEW m \in DOMAIN node, depth - 0 <= lev[m] PROVE InOrder(B[0][m], KeysIn(node, reg, m), map)
    <3>1. node[m].isLeaf /\ 0 \in 0 .. depth
      BY <1>2, <1>3, <2>1
    <3> QED
      BY <1>5, <3>1
  <2> QED
    BY <2>1
<1>7. ASSUME NEW h \in Nat, h \in T PROVE h + 1 \in T
  <2>1. SUFFICES ASSUME h + 1 <= depth, NEW m \in DOMAIN node, depth - (h + 1) <= lev[m]
                 PROVE  InOrder(B[h + 1][m], KeysIn(node, reg, m), map)
    OBVIOUS
  <2>2. PICK g : g = h + 1 /\ g \in 0 .. depth /\ g # 0 /\ g - 1 = h /\ h <= depth
    BY <1>2, <2>1
  <2>3. CASE node[m].isLeaf
    BY <1>5, <2>2, <2>3
  <2>4. CASE ~node[m].isLeaf
    <3>1. PICK kids, K : kids = Children(node[m]) /\ K = node[m].numKeys + 1
      OBVIOUS
    <3>2. KidsOf(node, reg, lev, m, kids, K)
      BY <1>2, <2>4, <3>1, KidsAre
    <3>3. ASSUME NEW i \in 1 .. K PROVE InOrder(B[g - 1][kids[i]], KeysIn(node, reg, kids[i]), map)
      <4>1. kids[i] \in DOMAIN node /\ lev[kids[i]] = lev[m] + 1
        BY <3>2 DEF KidsOf
      <4>2. depth - h <= lev[kids[i]]
        BY <1>2, <1>3, <2>1, <4>1
      <4> QED
        BY <1>7, <2>2, <4>1, <4>2
    <3>4. InOrder(RecordsAt(node, B, g, m), KeysIn(node, reg, m), map)
      BY <2>2, <2>4, <3>1, <3>2, <3>3, RecordsOfKids
    <3> QED
      BY <1>4, <2>2, <3>4
  <2> QED
    BY <2>3, <2>4
<1> HIDE DEF T
<1>8. depth \in T
  BY <1>2, <1>6, <1>7, SetInduction
<1>9. InOrder(B[depth][root], KeysIn(node, reg, root), map)
  BY <1>2, <1>8 DEF T
<1>10. KeysIn(node, reg, root) = LeafKeys(node)
  <2>1. LeafKeys(node) \subseteq Int
    BY <1>1, LeafKeysNat
  <2> QED
    BY <1>2, <2>1 DEF KeysIn
<1> QED
  BY <1>1, <1>9, <1>10

-----------------------------------------------------------------------------
(* The place of a key in order. *)

LEMMA OrderedAt ==
    ASSUME NEW S, NEW ks, Ordered(ks, S), S \subseteq Nat, NEW x, x \in 1 .. Len(ks)
    PROVE  ks[x] \in S /\ ks[x] \in Nat
<1>1. DOMAIN ks = 1 .. Len(ks) /\ Range(ks) = S
  BY DEF Ordered
<1> QED
  BY <1>1 DEF Range

LEMMA CountFirst ==
    ASSUME NEW S, NEW ks, Ordered(ks, S), S \subseteq Nat, NEW i \in 0 .. Len(ks)
    PROVE  Cardinality({ks[x] : x \in 1 .. i}) = i
<1>1. ks \in Seq(S) /\ Rising(ks) /\ Len(ks) \in Nat /\ i \in Nat
  BY DEF Ordered
<1>2. PICK R : R = {ks[x] : x \in 1 .. i}
  OBVIOUS
<1>3. PICK f : f = [x \in 1 .. i |-> ks[x]]
  OBVIOUS
<1>4. ASSUME NEW x \in 1 .. i PROVE x \in 1 .. Len(ks) /\ ks[x] \in Nat
  <2>1. x \in 1 .. Len(ks)
    BY <1>1
  <2> QED
    BY <2>1, OrderedAt
<1>5. ASSUME NEW a \in 1 .. i, NEW b \in 1 .. i, f[a] = f[b] PROVE a = b
  <2>1. ks[a] = ks[b] /\ ks[a] \in Nat
    BY <1>3, <1>4, <1>5
  <2>2. a < b => ks[a] < ks[b]
    BY <1>1, <1>4 DEF Rising
  <2>3. b < a => ks[b] < ks[a]
    BY <1>1, <1>4 DEF Rising
  <2> QED
    BY <2>1, <2>2, <2>3
<1>6. f \in [1 .. i -> R] /\ \A t \in R : \E x \in 1 .. i : f[x] = t
  BY <1>2, <1>3
<1>7. f \in Bijection(1 .. i, R)
  BY <1>5, <1>6 DEF Bijection, Injection, Surjection, IsInjective
<1>8. ExistsBijection(1 .. i, R)
  BY <1>7 DEF ExistsBijection
<1>9. Cardinality(R) = i
  BY <1>1, <1>8, FS_CountingElements
<1> QED
  BY <1>2, <1>9

Rank(S, k) == Cardinality({j \in S : j <= k})

LEMMA RankIs ==
    ASSUME NEW S, NEW ks, Ordered(ks, S), S \subseteq Nat, NEW i, i \in 1 .. Len(ks)
    PROVE  ks[i] \in S /\ Rank(S, ks[i]) = i
<1>1. ks \in Seq(S) /\ Rising(ks) /\ Range(ks) = S /\ Len(ks) \in Nat /\ DOMAIN ks = 1 .. Len(ks)
  BY DEF Ordered
<1>2. \A x \in 1 .. Len(ks) : ks[x] \in S /\ ks[x] \in Nat
  BY OrderedAt
<1>3. ASSUME NEW j \in S, j <= ks[i] PROVE \E x \in 1 .. i : j = ks[x]
  <2>1. PICK x \in 1 .. Len(ks) : j = ks[x]
    BY <1>1 DEF Range
  <2>2. i < x => ks[i] < ks[x]
    BY <1>1, <2>1 DEF Rising
  <2>3. x <= i
    BY <1>2, <1>3, <2>1, <2>2
  <2>4. x \in 1 .. i
    BY <2>1, <2>3
  <2> QED
    BY <2>1, <2>4
<1>4. ASSUME NEW x \in 1 .. i PROVE ks[x] \in S /\ ks[x] <= ks[i]
  <2>1. x \in 1 .. Len(ks)
    OBVIOUS
  <2>2. x < i => ks[x] < ks[i]
    BY <1>1, <2>1 DEF Rising
  <2> QED
    BY <1>2, <2>1, <2>2
<1>5. {j \in S : j <= ks[i]} = {ks[x] : x \in 1 .. i}
  BY <1>3, <1>4
<1>6. i \in 0 .. Len(ks)
  OBVIOUS
<1>7. Cardinality({ks[x] : x \in 1 .. i}) = i
  BY <1>6, CountFirst
<1> QED
  BY <1>2, <1>5, <1>7 DEF Rank

\* The values in order are those of the first key, of the second, and so on.
Ranked(S, map) == [i \in 1 .. Cardinality(S) |-> map[CHOOSE k \in S : Rank(S, k) = i]]

LEMMA OrderRanks ==
    ASSUME NEW out, NEW S, NEW map, InOrder(out, S, map), S \subseteq Nat
    PROVE  out = Ranked(S, map)
<1>1. PICK ks : Ordered(ks, S) /\ Valued(out, ks, map)
  BY DEF InOrder
<1>2. PICK n : n = Len(ks)
  OBVIOUS
<1>3. n \in Nat /\ ks \in Seq(S) /\ Range(ks) = S /\ DOMAIN ks = 1 .. n
  BY <1>1, <1>2 DEF Ordered
<1>4. Cardinality(S) = n
  <2>1. S = {ks[x] : x \in 1 .. n}
    BY <1>3 DEF Range
  <2>2. n \in 0 .. Len(ks)
    BY <1>2, <1>3
  <2> QED
    BY <1>1, <2>1, <2>2, CountFirst
<1>5. ASSUME NEW i \in 1 .. n PROVE ks[i] = CHOOSE k \in S : Rank(S, k) = i
  <2>1. ks[i] \in S /\ Rank(S, ks[i]) = i
    BY <1>1, <1>2, RankIs
  <2>2. PICK c : c = CHOOSE k \in S : Rank(S, k) = i
    OBVIOUS
  <2>3. c \in S /\ Rank(S, c) = i
    BY <2>1, <2>2
  <2>4. PICK x \in 1 .. n : c = ks[x]
    BY <1>3, <2>3 DEF Range
  <2>5. Rank(S, ks[x]) = x
    BY <1>1, <1>2, RankIs
  <2>6. x = i
    BY <2>3, <2>4, <2>5
  <2> QED
    BY <2>2, <2>4, <2>6
<1>6. out = [i \in 1 .. n |-> map[ks[i]]]
  BY <1>1, <1>2 DEF Valued
<1> QED
  BY <1>4, <1>5, <1>6 DEF Ranked

LEMMA DeletesAll ==
    ASSUME NEW r, RelInv(r), r.depth \in Levels, NEW map, map = MapOf(r)
    PROVE  /\ recordsBelow(r, r.root) = Ranked(LeafKeys(r.node), map)
           /\ Lists(nodesBelow(r, r.root), DOMAIN r.node \ {r.root})
<1>1. PICK reg, lev : Whole(r.node, r.root, r.depth, reg, lev)
  BY DEF RelInv
<1>2. Sound(r, reg, lev)
  BY <1>1, RelSound
<1>3. r.depth \in Nat
  BY <1>2, SoundIs
<1>4. LeafKeys(r.node) \subseteq Nat
  BY <1>2, LeafKeysNat
<1>5. recordsBelow(r, r.root) = Ranked(LeafKeys(r.node), map)
  <2>1. PICK B : IsRecordsTo(B, r.node, r.depth) /\ recordsBelow(r, r.root) = B[r.depth][r.root]
    BY <1>3, RecordsBelowAre
  <2>2. InOrder(B[r.depth][r.root], LeafKeys(r.node), map)
    BY <1>2, <2>1, RecordsOrdered
  <2> QED
    BY <1>4, <2>1, <2>2, OrderRanks
<1>6. Lists(nodesBelow(r, r.root), DOMAIN r.node \ {r.root})
  <2>1. PICK B : IsNodesTo(B, r.node, r.depth) /\ nodesBelow(r, r.root) = B[r.depth][r.root]
    BY <1>3, NodesBelowAre
  <2>2. Lists(B[r.depth][r.root], DOMAIN r.node \ {r.root})
    BY <1>1, <2>1, NodesListed
  <2> QED
    BY <2>1, <2>2
<1> QED
  BY <1>5, <1>6

\* What has been freed is what deleting the relation as it stands frees: no call changes a deleted one.
FreedAsItStands ==
    freed # NULL => freed = [records |-> recordsBelow(rel, rel.root), nodes |-> nodesBelow(rel, rel.root)]

LEMMA FreedStays == ASSUME FreedAsItStands, [Next]_vars PROVE FreedAsItStands'
<1>1. ASSUME rel' = rel, freed' = freed PROVE FreedAsItStands'
  BY <1>1 DEF FreedAsItStands
<1>2. CASE UNCHANGED vars
  BY <1>1, <1>2 DEF vars
<1>3. ASSUME NEW c \in Cursors, RL_NewCursor(c) PROVE FreedAsItStands'
  BY <1>1, <1>3 DEF RL_NewCursor
<1>4. ASSUME NEW c \in Cursors, RL_FreeCursor(c) PROVE FreedAsItStands'
  BY <1>1, <1>4 DEF RL_FreeCursor
<1>5. ASSUME NEW c \in Cursors, NEW key \in Keys, NEW record \in Records, RL_PutRecord(c, key, record)
      PROVE  FreedAsItStands'
  <2>1. freed' = NULL
    BY <1>5 DEF RL_PutRecord, Usable, Open
  <2> QED
    BY <2>1 DEF FreedAsItStands
<1>6. ASSUME NEW c \in Cursors, NEW key \in Keys, RL_MoveToKey(c, key) PROVE FreedAsItStands'
  BY <1>1, <1>6 DEF RL_MoveToKey, MoveCursor
<1>7. ASSUME NEW c \in Cursors, RL_MoveToFirst(c) PROVE FreedAsItStands'
  BY <1>1, <1>7 DEF RL_MoveToFirst
<1>8. ASSUME NEW c \in Cursors, RL_MoveToNext(c) \/ RL_MoveToPrevious(c) \/ RL_GetRecord(c) PROVE FreedAsItStands'
  BY <1>1, <1>8 DEF RL_MoveToNext, RL_MoveToPrevious, RL_GetRecord, MoveCursor
<1>9. CASE RL_DeleteRelation
  BY <1>9 DEF RL_DeleteRelation, FreedAsItStands
<1> QED
  BY <1>2, <1>3, <1>4, <1>5, <1>6, <1>7, <1>8, <1>9 DEF Next

-----------------------------------------------------------------------------
(* The theorems. *)

\* relation.h:33-86.  The relation of relation_mem.c is the map relation.h describes: a put binds
\* its key and no other, whatever splits it takes; RL_MoveToFirst, RL_MoveToKey and RL_MoveToNext
\* leave a cursor at the least key, the least key not below one, the next key; RL_MoveToPrevious
\* at some key before, or where it is; and no other call moves a cursor or changes the map.
THEOREM ImplementsContract == Spec => Implements
<1>1. Init => Contract!Init
  BY StartsEmpty
<1>2. Inv /\ [Next]_vars => [Contract!Next]_Contract!vars
  BY StepImplements
<1> QED
  BY <1>1, <1>2, RelationInvariance, PTL DEF Spec, Implements, Contract!Spec

\* relation.h:47, :62-69.  Wherever its moves have left a cursor, in a leaf or past the end of one,
\* RL_MoveToKey finds the keys that are present and no others, RL_CursorIsValid says whether a key
\* is left, and RL_GetKey and RL_GetRecord read that key and the record put last with it.
THEOREM AnswersStay == Spec => []AnswersAsDocumented
<1>1. Inv => AnswersAsDocumented
  <2>1. SUFFICES ASSUME Inv, NEW c \in synced, NEW cur, cur = cursor[c], NEW p, p = PosOf(rel, cur),
                        NEW map, map = MapOf(rel)
                 PROVE  /\ \A k \in Keys : foundByMoveToKey(rel, cur, k) <=> k \in DOMAIN map
                        /\ isValid(rel, cur) <=> p # End
                        /\ isValid(rel, cur) => entryRead(rel, cur) = [key |-> p, ptr |-> map[p]]
    BY DEF AnswersAsDocumented
  <2>2. PICK r : r = rel
    OBVIOUS
  <2>3. PICK reg, lev : Stands(r, reg, lev, cur)
    BY <2>1, <2>2, SyncedStands
  <2>4. /\ \A k \in Keys : foundByMoveToKey(r, cur, k) <=> k \in DOMAIN map
        /\ isValid(r, cur) <=> p # End
        /\ isValid(r, cur) => entryRead(r, cur) = [key |-> p, ptr |-> map[p]]
    BY <2>1, <2>2, <2>3, Answers
  <2> QED
    BY <2>2, <2>4
<1> QED
  BY <1>1, RelationInvariance, PTL

\* relation.h:86, relation_mem.c:454-490.  Inside a leaf, and in a tree whose root's children are
\* leaves, RL_MoveToPrevious goes to the key just before the cursor's, or stays if there is none.
THEOREM PreviousStaysNear == Spec => []PreviousIsAdjacentNearby
<1>1. Inv => PreviousIsAdjacentNearby
  <2>1. SUFFICES ASSUME Inv, NEW c \in synced, rel.depth <= 1 \/ entryIndex(cursor[c]) > 0
                 PROVE  GoesToPrevious(c)
    BY DEF PreviousIsAdjacentNearby
  <2>2. PICK r, cur : r = rel /\ cur = cursor[c]
    OBVIOUS
  <2>3. PICK reg, lev : Stands(r, reg, lev, cur)
    BY <2>1, <2>2, SyncedStands
  <2>4. r.depth <= 1 \/ IndexOf(r, cur) # 0
    <3>1. entryIndex(cur) = IndexOf(r, cur)
      BY <2>3, StandsAt
    <3> QED
      BY <2>1, <2>2, <3>1
  <2>5. PICK out, p, before : /\ out = afterPrevious(r, cur) /\ p = PosOf(r, cur)
                              /\ before = {k \in LeafKeys(r.node) : p = End \/ k < p}
    OBVIOUS
  <2>6. PosOf(r, out) = IF before = {} THEN p ELSE CHOOSE k \in before : \A j \in before : j <= k
    BY <2>3, <2>4, <2>5, PreviousIs
  <2>7. before = Contract!Before(MapOf(rel), p)
    BY <2>2, <2>5, DomainIs DEF Contract!Before
  <2> QED
    BY <2>2, <2>5, <2>6, <2>7 DEF GoesToPrevious
<1> QED
  BY <1>1, RelationInvariance, PTL

\* relation.h:33-36, relation_mem.c:1169-1196.  However the tree has grown, RL_DeleteRelation gives
\* each record it holds to freeRecord once, in key order, and frees every node but the root once.
THEOREM DeletedOnce == Spec => []DeleteFreesOnce
<1>1. Init => FreedAsItStands
  BY DEF Init, FreedAsItStands
<1>2. Inv /\ FreedAsItStands => DeleteFreesOnce
  <2>1. SUFFICES ASSUME Inv, FreedAsItStands, freed # NULL, NEW map, map = MapOf(rel)
                 PROVE  /\ freed.records = Ranked(DOMAIN map, map)
                        /\ IsInjective(freed.nodes)
                        /\ Range(freed.nodes) = DOMAIN rel.node \ {rel.root}
    BY DEF DeleteFreesOnce, Ranked, Rank
  <2>2. RelInv(rel) /\ rel.depth \in Levels
    BY <2>1 DEF Inv, StateInv
  <2>3. freed.records = recordsBelow(rel, rel.root) /\ freed.nodes = nodesBelow(rel, rel.root)
    BY <2>1 DEF FreedAsItStands
  <2>4. DOMAIN map = LeafKeys(rel.node)
    BY <2>1, MapKeys
  <2>5. /\ recordsBelow(rel, rel.root) = Ranked(LeafKeys(rel.node), map)
        /\ Lists(nodesBelow(rel, rel.root), DOMAIN rel.node \ {rel.root})
    BY <2>1, <2>2, DeletesAll
  <2> QED
    BY <2>3, <2>4, <2>5 DEF Lists
<1>3. FreedAsItStands /\ [Next]_vars => FreedAsItStands'
  BY FreedStays
<1> QED
  BY <1>1, <1>2, <1>3, RelationInvariance, PTL DEF Spec

=============================================================================
