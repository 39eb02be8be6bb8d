-------------------------- MODULE BstHelpingProofs --------------------------
(***************************************************************************)
(* For any threads that add and look up any keys, and help each other      *)
(* whenever they meet: the tree stays a search tree, no add that has       *)
(* returned is lost, no answer is wrong, and no thread reads through NULL. *)
(*                                                                         *)
(* The argument: a node's op only ever grows, a link that holds a node     *)
(* keeps it, and while a record is at a node, its link holds what the      *)
(* record expects or has been swung.  So a helper that comes late finds    *)
(* the link swung and changes nothing, and a compare-and-swap that finds   *)
(* the op that find has read finds the links it has read, too.  reg[n] are *)
(* the keys that a walk takes to node n: nowhere in the program.           *)
(***************************************************************************)
EXTENDS BstHelping, SequenceTheorems, TLAPS

Sides == {"left", "right"}
Nulls == {NULL, Nil}

NodeRecords == [key : Int, op : Nat, left : Nat \cup Nulls, right : Nat \cup Nulls]
OpRecords ==
    [type : {"NONE"}] \cup [type : {"CHILDCAS"}, isLeft : BOOLEAN, expected : Nulls, update : Nat]

Side(isLeft) == IF isLeft THEN "left" ELSE "right"
SideOf(n, k) == IF k < node[n].key THEN "left" ELSE "right"

Half(reg, n, side) == {k \in reg[n] : IF side = "left" THEN k < node[n].key ELSE k > node[n].key}

WorkIs ==
    work \in [first : Seq(Keys), ops : [Threads -> SUBSET {"add", "find", "delete"}],
              keys : [Threads -> SUBSET Keys], calls : [Threads -> Nat]]

Types ==
    /\ node \in Seq(NodeRecords) /\ op \in Seq(OpRecords)
    /\ 1 \in DOMAIN node /\ node[1].key = -1
    /\ \A n \in DOMAIN node :
          /\ node[n].op \in DOMAIN op /\ (n # 1 => node[n].key \in Keys)
          /\ \A s \in Sides : node[n][s] \in DOMAIN node \cup Nulls
    /\ DOMAIN loc = Threads

Tree(reg) ==
    /\ reg[1] = Int
    /\ \A n \in DOMAIN node : reg[n] \subseteq Int /\ node[n].key \in reg[n]
    /\ \A n \in DOMAIN node : \A s \in Sides : IsNode(node[n][s]) => reg[node[n][s]] = Half(reg, n, s)

\* The record o is or was at the node n; its link has been swung or waits for it.
Swung(n, o) == node[n][Side(op[o].isLeft)] = op[o].update
Waits(n, o) == node[n].op = o /\ node[n][Side(op[o].isLeft)] = op[o].expected
Published(reg, n, o) ==
    /\ n \in DOMAIN node /\ o \in DOMAIN op /\ o <= node[n].op /\ Flag(o) = "CHILDCAS"
    /\ op[o].update \in DOMAIN node /\ reg[op[o].update] = Half(reg, n, Side(op[o].isLeft))
    /\ Swung(n, o) \/ Waits(n, o)

Pending(reg) == \A n \in DOMAIN node : Flag(node[n].op) # "NONE" => Published(reg, n, node[n].op)

\* Any walk to k goes through n.
On(n, k) == \A S \in SUBSET DOMAIN node : WalkStaysIn(S, k) => n \in S
HasKey(k) == \E n \in DOMAIN node : node[n].key = k /\ On(n, k)

LeadsTo(link, n) ==
    \/ link = baseRoot /\ n = 1
    \/ \E m \in DOMAIN node, s \in Sides : link = <<m, s>> /\ node[m][s] = n

-----------------------------------------------------------------------------
(* What a thread knows. *)

Fields == {"pc", "call", "key", "pred", "predOp", "curr", "currOp", "result", "auxRoot", "next", "then"}

\* The key belongs at a side of n.
Belongs(l, n) ==
    /\ n \in DOMAIN node /\ On(n, l.key) /\ node[n].key # l.key
    /\ (l.result = "NOTFOUND_L") <=> (l.key < node[n].key)

\* If the op that find has read is still there, so is the empty link.
Free(l, n) ==
    /\ n \in DOMAIN node /\ l.currOp \in Nat /\ l.currOp <= node[n].op
    /\ l.currOp = node[n].op =>
          Belongs(l, n) /\ Flag(l.currOp) = "NONE" /\ ~IsNode(node[n][SideOf(n, l.key)])

InLink(l) ==
    /\ l.result # "FOUND"
    /\ \/ l.next = baseRoot /\ l.result = "NOTFOUND_R"
       \/ \E n \in DOMAIN node :
             /\ l.next = <<n, SideOf(n, l.key)>> /\ Belongs(l, n) /\ LeadsTo(l.curr, n)
             /\ l.currOp \in DOMAIN op /\ l.currOp <= node[n].op /\ Flag(l.currOp) = "NONE"

InOp(l) ==
    /\ l.result # "FOUND" /\ "tp" \in DOMAIN l
    /\ l.tp \in DOMAIN node /\ LeadsTo(l.next, l.tp) /\ On(l.tp, l.key)
    /\ l.next = baseRoot => l.result = "NOTFOUND_R"

InKey(l) ==
    /\ l.result # "FOUND" /\ "tp" \in DOMAIN l
    /\ l.tp \in DOMAIN node /\ LeadsTo(l.curr, l.tp) /\ On(l.tp, l.key)
    /\ l.currOp \in DOMAIN op /\ l.currOp <= node[l.tp].op /\ Flag(l.currOp) = "NONE"

InAdd(l) == IF l.result = "FOUND" THEN HasKey(l.key) ELSE \E n \in DOMAIN node : LeadsTo(l.curr, n) /\ Free(l, n)

InAddCas(l) ==
    /\ Free(l, l.tp)
    /\ l.currOp = node[l.tp].op => l.old = node[l.tp][SideOf(l.tp, l.key)]

\* Where a thread goes on that has helped.
HelpFields == {"hop", "hnode", "back"}
Back(l) ==
    \/ l.back = "link" /\ l.next = baseRoot /\ l.result = "NOTFOUND_R"
    \/ /\ l.back = l.then /\ l.result # "FOUND" /\ LeadsTo(l.curr, l.hnode) /\ l.currOp = l.hop
    \/ /\ l.back = "return" /\ l.call = "add" /\ Belongs(l, l.hnode)
       /\ op[l.hop].isLeft <=> (l.key < node[l.hnode].key)
       /\ node[op[l.hop].update].key = l.key

PCs == {"idle", "link", "op", "key", "find", "helpPred", "casLink", "casClear", "add", "addChild", "addCas", "return"}

Knows(reg, l) ==
    /\ "pc" \in DOMAIN l /\ l.pc \in PCs
    /\ l.pc # "idle" =>
          /\ Fields \subseteq DOMAIN l /\ l.call \in {"add", "find"} /\ l.key \in Keys
          /\ l.auxRoot = baseRoot /\ l.then = l.call /\ l.result \in {"FOUND", "NOTFOUND_L", "NOTFOUND_R"}
    /\ l.pc \in {"add", "addChild", "addCas", "return"} => l.call = "add"
    /\ l.pc = "link" => InLink(l)
    /\ l.pc = "op" => InOp(l)
    /\ l.pc = "key" => InKey(l)
    /\ l.pc = "find" => l.call = "find" /\ (l.result = "FOUND" => HasKey(l.key))
    /\ l.pc = "add" => InAdd(l)
    /\ l.pc = "addChild" => l.result # "FOUND" /\ "tp" \in DOMAIN l /\ Free(l, l.tp)
    /\ l.pc = "addCas" => l.result # "FOUND" /\ {"tp", "old"} \subseteq DOMAIN l /\ InAddCas(l)
    /\ l.pc \in {"helpPred", "casLink", "casClear"} =>
          HelpFields \subseteq DOMAIN l /\ Published(reg, l.hnode, l.hop) /\ Back(l)
    /\ l.pc = "casClear" => Swung(l.hnode, l.hop)
    /\ l.pc = "return" => HasKey(l.key)

Good(reg) ==
    /\ Types /\ Tree(reg) /\ Pending(reg)
    /\ \A t \in Threads : Knows(reg, loc[t])
    /\ \A k \in held : HasKey(k)
    /\ \A n \in DOMAIN node : n # 1 => node[n].key \in held \cup Adding

Inv == WorkIs /\ (NoDeletes => \E reg : Good(reg))

-----------------------------------------------------------------------------
(* The tree only grows. *)

LEMMA NullIsNoNode ==
    /\ NULL # Nil /\ NULL \notin Nat /\ Nil \notin Nat /\ \A v \in Nulls : v \notin Nat
    /\ \A k \in Keys : k \in Nat
BY HelpingAssumption DEF Nulls

LEMMA NodesAre ==
    ASSUME Types
    PROVE  /\ DOMAIN node \subseteq Nat \ {0} /\ DOMAIN op \subseteq Nat \ {0}
           /\ DOMAIN node = 1 .. Len(node) /\ DOMAIN op = 1 .. Len(op)
           /\ \A v \in Nulls : ~IsNode(v)
           /\ \A o \in DOMAIN op : op[o] \in OpRecords
           /\ \A n \in DOMAIN node :
                 /\ node[n] \in NodeRecords /\ node[n].key \in Int /\ node[n].op \in DOMAIN op
                 /\ node[n].op \in Nat
<1>1. DOMAIN node = 1 .. Len(node) /\ Len(node) \in Nat /\ DOMAIN op = 1 .. Len(op) /\ Len(op) \in Nat
  BY LenProperties DEF Types
<1>2. (\A n \in DOMAIN node : node[n] \in NodeRecords) /\ (\A o \in DOMAIN op : op[o] \in OpRecords)
  BY <1>1, ElementOfSeq DEF Types
<1>3. \A n \in DOMAIN node : node[n].key \in Int /\ node[n].op \in Nat
  BY <1>2 DEF NodeRecords
<1> QED
  BY <1>1, <1>2, <1>3, NullIsNoNode DEF Types, IsNode

\* What a step may change of the nodes: it adds some, swings the link that a record is
\* for, publishes a record where there is none, or clears one whose link has been swung.
GrowsAt(n) ==
    /\ node'[n].key = node[n].key
    /\ \A s \in Sides : IsNode(node[n][s]) => node'[n][s] = node[n][s]
    /\ \/ /\ node'[n].op = node[n].op
          /\ \A s \in Sides :
                \/ node'[n][s] = node[n][s]
                \/ /\ Flag(node[n].op) = "CHILDCAS" /\ s = Side(op[node[n].op].isLeft)
                   /\ node'[n][s] = op[node[n].op].update
       \/ /\ node'[n].op \in Nat /\ node'[n].op > node[n].op
          /\ \A s \in Sides : node'[n][s] = node[n][s]
          /\ Flag(node[n].op) = "CHILDCAS" => Swung(n, node[n].op)

Grows(reg, reg2) ==
    /\ DOMAIN node \subseteq DOMAIN node' /\ DOMAIN node' \subseteq Nat /\ DOMAIN op \subseteq DOMAIN op'
    /\ \A o \in DOMAIN op : op'[o] = op[o]
    /\ \A n \in DOMAIN node : GrowsAt(n) /\ reg2[n] = reg[n]

LEMMA SideIsASide == \A b : Side(b) \in Sides
BY DEF Side, Sides

LEMMA SideOfIsASide == \A n, k : SideOf(n, k) \in Sides
BY DEF SideOf, Sides

LEMMA OnGrows ==
    ASSUME NEW reg, NEW reg2, Types, Grows(reg, reg2), NEW k, NEW n \in DOMAIN node, On(n, k)
    PROVE  On(n, k)'
<1> SUFFICES ASSUME NEW S \in SUBSET DOMAIN node', WalkStaysIn(S, k)'
             PROVE  n \in S
  BY DEF On
<1>1. PICK T : T = S \cap DOMAIN node
  OBVIOUS
<1>2. 1 \in T
  BY <1>1 DEF WalkStaysIn, Types
<1>3. ASSUME NEW m \in T, node[m].key # k, IsNode(NextTo(k, m))
      PROVE  NextTo(k, m) \in T
  <2>1. m \in DOMAIN node /\ m \in S /\ node'[m].key = node[m].key
    BY <1>1 DEF Grows, GrowsAt
  <2>2. PICK s \in Sides : s = IF k < node[m].key THEN "left" ELSE "right"
    BY DEF Sides
  <2>3. NextTo(k, m) = node[m][s] /\ NextTo(k, m)' = node'[m][s]
    BY <2>1, <2>2 DEF NextTo
  <2>4. node'[m][s] = node[m][s] /\ node[m][s] \in DOMAIN node /\ node[m][s] \in DOMAIN node'
    BY <1>3, <2>1, <2>3 DEF Grows, GrowsAt, IsNode
  <2>5. node'[m][s] \in S
    BY <1>3, <2>1, <2>3, <2>4 DEF WalkStaysIn, IsNode
  <2> QED
    BY <1>1, <2>3, <2>4, <2>5
<1>4. WalkStaysIn(T, k) /\ T \in SUBSET DOMAIN node
  BY <1>1, <1>2, <1>3 DEF WalkStaysIn
<1> QED
  BY <1>1, <1>4 DEF On

LEMMA HasKeyGrows ==
    ASSUME NEW reg, NEW reg2, Types, Grows(reg, reg2), NEW k, HasKey(k)
    PROVE  HasKey(k)'
<1>1. PICK n \in DOMAIN node : node[n].key = k /\ On(n, k)
  BY DEF HasKey
<1>2. On(n, k)' /\ n \in DOMAIN node' /\ node'[n].key = k
  BY <1>1, OnGrows DEF Grows, GrowsAt
<1> QED
  BY <1>2 DEF HasKey

LEMMA LeadsToGrows ==
    ASSUME NEW reg, NEW reg2, Types, Grows(reg, reg2), NEW link, NEW n \in DOMAIN node, LeadsTo(link, n)
    PROVE  LeadsTo(link, n)'
<1>1. CASE link = baseRoot /\ n = 1
  BY <1>1 DEF LeadsTo, baseRoot
<1>2. CASE \E m \in DOMAIN node, s \in Sides : link = <<m, s>> /\ node[m][s] = n
  <2>1. PICK m \in DOMAIN node, s \in Sides : link = <<m, s>> /\ node[m][s] = n
    BY <1>2
  <2>2. node'[m][s] = n /\ m \in DOMAIN node'
    BY <2>1 DEF Grows, GrowsAt, IsNode
  <2> QED
    BY <2>1, <2>2 DEF LeadsTo
<1> QED
  BY <1>1, <1>2 DEF LeadsTo

LEMMA BelongsGrows ==
    ASSUME NEW reg, NEW reg2, Types, Grows(reg, reg2), NEW l, NEW n, Belongs(l, n)
    PROVE  Belongs(l, n)' /\ SideOf(n, l.key)' = SideOf(n, l.key)
<1>1. PICK k : k = l.key
  OBVIOUS
<1>2. n \in DOMAIN node /\ On(n, k) /\ node'[n].key = node[n].key /\ n \in DOMAIN node'
  BY <1>1 DEF Belongs, Grows, GrowsAt
<1>3. On(n, k)'
  BY <1>2, OnGrows
<1> QED
  BY <1>1, <1>2, <1>3 DEF Belongs, SideOf

LEMMA FreeGrows ==
    ASSUME NEW reg, NEW reg2, Types, Grows(reg, reg2), NEW l, NEW n, Free(l, n)
    PROVE  /\ Free(l, n)'
           /\ l.currOp = node'[n].op =>
                 l.currOp = node[n].op /\ node'[n][SideOf(n, l.key)'] = node[n][SideOf(n, l.key)]
<1>1. n \in DOMAIN node /\ l.currOp \in Nat /\ l.currOp <= node[n].op /\ node[n].op \in Nat /\ GrowsAt(n)
      /\ n \in DOMAIN node' /\ node[n].op \in DOMAIN op
  BY NodesAre DEF Free, Grows
<1>2. node'[n].op \in Nat /\ l.currOp <= node'[n].op
  BY <1>1 DEF GrowsAt
<1>3. ASSUME l.currOp = node'[n].op
      PROVE  /\ l.currOp = node[n].op /\ Belongs(l, n)' /\ Flag(l.currOp)' = "NONE"
             /\ node'[n][SideOf(n, l.key)'] = node[n][SideOf(n, l.key)]
             /\ ~IsNode(node[n][SideOf(n, l.key)])'
  <2>1. l.currOp = node[n].op
    BY <1>1, <1>3 DEF GrowsAt
  <2>2. Belongs(l, n) /\ Flag(l.currOp) = "NONE" /\ ~IsNode(node[n][SideOf(n, l.key)])
    BY <2>1 DEF Free
  <2>3. Belongs(l, n)' /\ SideOf(n, l.key)' = SideOf(n, l.key)
    BY <2>2, BelongsGrows
  <2>4. Flag(l.currOp)' = "NONE"
    BY <1>1, <2>1, <2>2 DEF Flag, Grows
  <2>5. PICK s \in Sides : s = SideOf(n, l.key)
    BY SideOfIsASide
  <2>6. node'[n][s] = node[n][s]
    BY <1>1, <1>3, <2>1, <2>2 DEF GrowsAt
  <2>7. node[n][s] \in Nulls
    BY <1>1, <2>2, <2>5 DEF Types, IsNode
  <2>8. node[n][s] \notin DOMAIN node'
    BY <2>7, NullIsNoNode DEF Grows
  <2> QED
    BY <2>1, <2>3, <2>4, <2>5, <2>6, <2>8 DEF IsNode
<1> QED
  BY <1>1, <1>2, <1>3 DEF Free

LEMMA PublishedGrows ==
    ASSUME NEW reg, NEW reg2, Types, Grows(reg, reg2), NEW n, NEW o, Published(reg, n, o)
    PROVE  Published(reg2, n, o)'
<1>1. /\ n \in DOMAIN node /\ o \in DOMAIN op /\ o <= node[n].op /\ Flag(o) = "CHILDCAS"
      /\ op[o].update \in DOMAIN node /\ reg[op[o].update] = Half(reg, n, Side(op[o].isLeft))
      /\ Swung(n, o) \/ Waits(n, o)
  BY DEF Published
<1>2. op'[o] = op[o] /\ GrowsAt(n) /\ reg2[n] = reg[n] /\ n \in DOMAIN node' /\ o \in DOMAIN op'
      /\ node[n].op \in Nat /\ o \in Nat
  BY <1>1, NodesAre DEF Grows
<1>3. PICK s \in Sides : s = Side(op[o].isLeft)
  BY SideIsASide
<1>4. PICK m \in DOMAIN node : m = op[o].update
  BY <1>1
<1>5. m \in DOMAIN node' /\ reg2[m] = reg[m]
  BY DEF Grows
<1>6. Flag(o)' = "CHILDCAS" /\ o <= node'[n].op
  BY <1>1, <1>2 DEF Flag, GrowsAt
<1>7. Half(reg2, n, s)' = Half(reg, n, s)
  BY <1>2 DEF Half, GrowsAt
<1>8. Swung(n, o)' \/ Waits(n, o)'
  <2>1. CASE Swung(n, o)
    <3>1. node[n][s] = m
      BY <1>3, <1>4, <2>1 DEF Swung
    <3>2. node'[n][s] = m
      BY <1>2, <3>1 DEF GrowsAt, IsNode
    <3> QED
      BY <1>2, <1>3, <1>4, <3>2 DEF Swung
  <2>2. CASE Waits(n, o) /\ ~Swung(n, o)
    <3>1. node[n].op = o /\ node[n][s] = op[o].expected
      BY <1>3, <2>2 DEF Waits
    <3>2. node'[n].op = o
      BY <1>1, <1>2, <2>2, <3>1 DEF GrowsAt
    <3>3. node'[n][s] = node[n][s] \/ node'[n][s] = m
      BY <1>1, <1>2, <1>3, <1>4, <3>1, <3>2 DEF GrowsAt
    <3> QED
      BY <1>2, <1>3, <1>4, <3>1, <3>2, <3>3 DEF Swung, Waits
  <2> QED
    BY <1>1, <2>1, <2>2
<1> QED
  BY <1>1, <1>2, <1>3, <1>4, <1>5, <1>6, <1>7, <1>8 DEF Published

LEMMA SwungGrows ==
    ASSUME NEW reg, NEW reg2, Types, Grows(reg, reg2), NEW n, NEW o, Published(reg, n, o), Swung(n, o)
    PROVE  Swung(n, o)'
<1>1. /\ n \in DOMAIN node /\ o \in DOMAIN op /\ op[o].update \in DOMAIN node /\ op'[o] = op[o] /\ GrowsAt(n)
  BY DEF Published, Grows
<1>2. PICK s \in Sides : s = Side(op[o].isLeft)
  BY SideIsASide
<1>3. node'[n][s] = node[n][s]
  BY <1>1, <1>2 DEF Swung, GrowsAt, IsNode
<1> QED
  BY <1>1, <1>2, <1>3 DEF Swung

LEMMA BackGrows ==
    ASSUME NEW reg, NEW reg2, Types, Grows(reg, reg2), NEW l, Published(reg, l.hnode, l.hop), Back(l)
    PROVE  Back(l)'
<1>1. /\ l.hnode \in DOMAIN node /\ l.hop \in DOMAIN op /\ op'[l.hop] = op[l.hop]
      /\ op[l.hop].update \in DOMAIN node
  BY DEF Published, Grows
<1>2. CASE l.back = "link" /\ l.next = baseRoot /\ l.result = "NOTFOUND_R"
  BY <1>2 DEF Back, baseRoot
<1>3. CASE l.back = l.then /\ l.result # "FOUND" /\ LeadsTo(l.curr, l.hnode) /\ l.currOp = l.hop
  <2>1. LeadsTo(l.curr, l.hnode)'
    BY <1>1, <1>3, LeadsToGrows
  <2> QED
    BY <1>3, <2>1 DEF Back
<1>4. CASE /\ l.back = "return" /\ l.call = "add" /\ Belongs(l, l.hnode)
           /\ op[l.hop].isLeft <=> (l.key < node[l.hnode].key)
           /\ node[op[l.hop].update].key = l.key
  <2>1. Belongs(l, l.hnode)'
    BY <1>4, BelongsGrows
  <2>2. node'[l.hnode].key = node[l.hnode].key /\ node'[op[l.hop].update].key = node[op[l.hop].update].key
    BY <1>1 DEF Grows, GrowsAt
  <2> QED
    BY <1>1, <1>4, <2>1, <2>2 DEF Back
<1> QED
  BY <1>2, <1>3, <1>4 DEF Back

\* What a thread knows stays true while others go on.
LEMMA KnowsGrows ==
    ASSUME NEW reg, NEW reg2, Types, Grows(reg, reg2), NEW l, Knows(reg, l)
    PROVE  Knows(reg2, l)'
<1>1. ASSUME l.pc = "link"
      PROVE  InLink(l)'
  <2>1. InLink(l)
    BY <1>1 DEF Knows
  <2>2. CASE l.next = baseRoot /\ l.result = "NOTFOUND_R"
    BY <2>1, <2>2 DEF InLink, baseRoot
  <2>3. CASE ~(l.next = baseRoot /\ l.result = "NOTFOUND_R")
    <3>1. PICK n \in DOMAIN node :
             /\ l.next = <<n, SideOf(n, l.key)>> /\ Belongs(l, n) /\ LeadsTo(l.curr, n)
             /\ l.currOp \in DOMAIN op /\ l.currOp <= node[n].op /\ Flag(l.currOp) = "NONE"
      BY <2>1, <2>3 DEF InLink
    <3>2. Belongs(l, n)' /\ SideOf(n, l.key)' = SideOf(n, l.key) /\ LeadsTo(l.curr, n)'
      BY <3>1, BelongsGrows, LeadsToGrows
    <3>3. node[n].op \in DOMAIN op /\ node[n].op \in Nat /\ GrowsAt(n) /\ n \in DOMAIN node'
      BY NodesAre DEF Grows
    <3>4. l.currOp <= node'[n].op /\ l.currOp \in DOMAIN op'
      BY <3>1, <3>3, NodesAre DEF Grows, GrowsAt
    <3>5. Flag(l.currOp)' = "NONE"
      BY <3>1 DEF Flag, Grows
    <3> QED
      BY <2>1, <3>1, <3>2, <3>3, <3>4, <3>5 DEF InLink
  <2> QED
    BY <2>2, <2>3
<1>2. ASSUME l.pc = "op"
      PROVE  InOp(l)'
  <2>1. InOp(l)
    BY <1>2 DEF Knows
  <2>2. LeadsTo(l.next, l.tp)' /\ On(l.tp, l.key)' /\ l.tp \in DOMAIN node'
    <3>1. PICK n \in DOMAIN node, k \in {l.key}, link \in {l.next} : n = l.tp
      BY <2>1 DEF InOp
    <3>2. LeadsTo(link, n)' /\ On(n, k)' /\ n \in DOMAIN node'
      BY <2>1, <3>1, LeadsToGrows, OnGrows DEF InOp, Grows
    <3> QED
      BY <3>1, <3>2
  <2> QED
    BY <2>1, <2>2 DEF InOp
<1>3. HasKey(l.key) => HasKey(l.key)'
  <2>1. PICK k : k = l.key
    OBVIOUS
  <2>2. HasKey(k) => HasKey(k)'
    BY HasKeyGrows
  <2> QED
    BY <2>1, <2>2
<1>4. ASSUME l.pc = "add"
      PROVE  InAdd(l)'
  <2>1. InAdd(l)
    BY <1>4 DEF Knows
  <2>2. CASE l.result = "FOUND"
    BY <1>3, <2>1, <2>2 DEF InAdd
  <2>3. CASE l.result # "FOUND"
    <3>1. PICK n \in DOMAIN node : LeadsTo(l.curr, n) /\ Free(l, n)
      BY <2>1, <2>3 DEF InAdd
    <3>2. LeadsTo(l.curr, n)' /\ Free(l, n)' /\ n \in DOMAIN node'
      BY <3>1, LeadsToGrows, FreeGrows DEF Grows
    <3> QED
      BY <2>3, <3>2 DEF InAdd
  <2> QED
    BY <2>2, <2>3
<1>5. Free(l, l.tp) => Free(l, l.tp)'
  BY FreeGrows
<1>6. ASSUME l.pc = "addCas"
      PROVE  InAddCas(l)'
  <2>1. Free(l, l.tp) /\ (l.currOp = node[l.tp].op => l.old = node[l.tp][SideOf(l.tp, l.key)])
    BY <1>6 DEF Knows, InAddCas
  <2>2. /\ Free(l, l.tp)'
        /\ l.currOp = node'[l.tp].op =>
              l.currOp = node[l.tp].op /\ node'[l.tp][SideOf(l.tp, l.key)'] = node[l.tp][SideOf(l.tp, l.key)]
    BY <2>1, FreeGrows
  <2> QED
    BY <2>1, <2>2 DEF InAddCas
<1>7. ASSUME l.pc \in {"helpPred", "casLink", "casClear"}
      PROVE  /\ Published(reg2, l.hnode, l.hop)' /\ Back(l)'
             /\ Swung(l.hnode, l.hop) => Swung(l.hnode, l.hop)'
  <2>1. Published(reg, l.hnode, l.hop) /\ Back(l)
    BY <1>7 DEF Knows
  <2> QED
    BY <2>1, PublishedGrows, BackGrows, SwungGrows
<1>8. ASSUME l.pc = "key"
      PROVE  InKey(l)'
  <2>1. InKey(l)
    BY <1>8 DEF Knows
  <2>2. PICK n \in DOMAIN node, k \in {l.key}, link \in {l.curr} : n = l.tp
    BY <2>1 DEF InKey
  <2>3. LeadsTo(link, n)' /\ On(n, k)' /\ n \in DOMAIN node'
    BY <2>1, <2>2, LeadsToGrows, OnGrows DEF InKey, Grows
  <2>4. node[n].op \in Nat /\ GrowsAt(n)
    BY <2>2, NodesAre DEF Grows
  <2>5. l.currOp <= node'[n].op /\ l.currOp \in DOMAIN op' /\ Flag(l.currOp)' = "NONE"
    BY <2>1, <2>2, <2>4, NodesAre DEF InKey, Grows, GrowsAt, Flag
  <2> QED
    BY <2>1, <2>2, <2>3, <2>5 DEF InKey
<1> QED
  BY <1>1, <1>2, <1>3, <1>4, <1>5, <1>6, <1>7, <1>8 DEF Knows, baseRoot

-----------------------------------------------------------------------------
(* Steps of one thread. *)

\* Thread t goes on with the locals l, and the others as they are.
Goes(t, l) == DOMAIN loc = Threads /\ loc' = [loc EXCEPT ![t] = l]

\* What is being added or held before a step is so after it.
Remembers(t, l) ==
    /\ held \subseteq held'
    /\ loc[t].pc # "idle" /\ loc[t].call = "add" =>
          loc[t].key \in held' \/ (l.pc # "idle" /\ l.call = "add" /\ l.key = loc[t].key)

LEMMA StepKeeps ==
    ASSUME NEW reg, NEW reg2, Good(reg), Grows(reg, reg2), NEW t \in Threads, NEW l, Goes(t, l),
           Types', Tree(reg2)', Pending(reg2)', Knows(reg2, l)', Remembers(t, l),
           \A k \in held' : k \in held \/ HasKey(k)',
           \A n \in DOMAIN node' \ DOMAIN node : l.pc # "idle" /\ l.call = "add" /\ l.key = node'[n].key
    PROVE  Good(reg2)'
<1>1. Types /\ DOMAIN loc = Threads /\ loc'[t] = l /\ \A u \in Threads : u # t => loc'[u] = loc[u]
  BY DEF Good, Types, Goes
<1>2. (\A u \in Threads : Knows(reg2, loc[u]))'
  <2>1. ASSUME NEW u \in Threads
        PROVE  Knows(reg2, loc[u])'
    <3>1. PICK m : m = loc'[u]
      OBVIOUS
    <3>2. Knows(reg2, m)'
      <4>1. CASE u = t
        BY <1>1, <3>1, <4>1
      <4>2. CASE u # t
        <5>1. m = loc[u]
          BY <1>1, <3>1, <4>2
        <5>2. Knows(reg, m)
          BY <5>1 DEF Good
        <5> QED
          BY <1>1, <5>2, KnowsGrows
      <4> QED
        BY <4>1, <4>2
    <3> QED
      BY <3>1, <3>2
  <2> QED
    BY <2>1
<1>3. (\A k \in held : HasKey(k))'
  <2>1. ASSUME NEW k \in held'
        PROVE  HasKey(k)'
    <3>1. k \in held => HasKey(k)'
      BY <1>1, HasKeyGrows DEF Good
    <3> QED
      BY <2>1, <3>1
  <2> QED
    BY <2>1
<1>4. ASSUME NEW k \in held \cup Adding
      PROVE  k \in held' \cup Adding'
  <2>1. CASE k \in held
    BY <2>1 DEF Remembers
  <2>2. CASE k \in Adding
    <3>1. PICK u \in Threads : loc[u].pc # "idle" /\ loc[u].call = "add" /\ k = loc[u].key
      BY <2>2 DEF Adding
    <3>2. CASE u = t
      BY <1>1, <3>1, <3>2 DEF Adding, Remembers
    <3>3. CASE u # t
      BY <1>1, <3>1, <3>3 DEF Adding
    <3> QED
      BY <3>2, <3>3
  <2> QED
    BY <2>1, <2>2
<1>5. ASSUME NEW n \in DOMAIN node', n # 1
      PROVE  node'[n].key \in held' \cup Adding'
  <2>1. CASE n \in DOMAIN node
    <3>1. node'[n].key = node[n].key /\ node[n].key \in held \cup Adding
      BY <1>5, <2>1 DEF Good, Grows, GrowsAt
    <3> QED
      BY <1>4, <3>1
  <2>2. CASE n \notin DOMAIN node
    BY <1>1, <2>2 DEF Adding
  <2> QED
    BY <2>1, <2>2
<1> QED
  BY <1>2, <1>3, <1>5 DEF Good

\* A step that only reads.
LEMMA ReadKeeps ==
    ASSUME NEW reg, Good(reg), NEW t \in Threads, NEW l, Goes(t, l), UNCHANGED <<node, op>>,
           Knows(reg, l), Remembers(t, l), \A k \in held' : k \in held \/ HasKey(k)
    PROVE  Good(reg)'
<1>1. node' = node /\ op' = op
  OBVIOUS
<1>2. Types /\ Tree(reg) /\ Pending(reg)
  BY DEF Good
<1>3. Types'
  <2>1. DOMAIN loc' = Threads
    BY DEF Goes
  <2>2. node' \in Seq(NodeRecords) /\ op' \in Seq(OpRecords) /\ 1 \in DOMAIN node' /\ node'[1].key = -1
    BY <1>1, <1>2 DEF Types
  <2>3. \A n \in DOMAIN node' :
           /\ node'[n].op \in DOMAIN op' /\ (n # 1 => node'[n].key \in Keys)
           /\ \A s \in Sides : node'[n][s] \in DOMAIN node' \cup Nulls
    BY <1>1, <1>2 DEF Types
  <2> QED
    BY <2>1, <2>2, <2>3 DEF Types
<1>4. Tree(reg)' /\ Pending(reg)'
  BY <1>1, <1>2 DEF Tree, Half, IsNode, Pending, Published, Swung, Waits, Flag
<1>5. Grows(reg, reg)
  BY <1>1, <1>2, NodesAre DEF Grows, GrowsAt
<1>6. Knows(reg, l)'
  BY <1>2, <1>5, KnowsGrows
<1>7. \A k \in held' : k \in held \/ HasKey(k)'
  BY <1>2, <1>5, HasKeyGrows
<1>8. \A n \in DOMAIN node' \ DOMAIN node : l.pc # "idle" /\ l.call = "add" /\ l.key = node'[n].key
  BY <1>1
<1> QED
  BY <1>3, <1>4, <1>5, <1>6, <1>7, <1>8, StepKeeps

\* Thread t goes on at p with the locals g set.
Went(t, m, p, g) ==
    /\ Goes(t, m) /\ m.pc = p /\ DOMAIN m = DOMAIN loc[t] \cup DOMAIN g
    /\ \A f \in DOMAIN g : m[f] = g[f]
    /\ \A f \in DOMAIN loc[t] \ DOMAIN g : f # "pc" => m[f] = loc[t][f]

LEMMA GotoIs ==
    ASSUME NEW reg, Good(reg), NEW t \in Threads, NEW p, NEW g, "pc" \notin DOMAIN g, Goto(t, p, g)
    PROVE  \E m : Went(t, m, p, g)
<1>1. PICK l : l = loc[t]
  OBVIOUS
<1>2. DOMAIN loc = Threads /\ "pc" \in DOMAIN l
  BY <1>1 DEF Good, Types, Knows
<1>3. PICK m : m = Over(g, [l EXCEPT !.pc = p])
  OBVIOUS
<1>4. Goes(t, m)
  BY <1>1, <1>2, <1>3 DEF Goto, Goes
<1>5. /\ m.pc = p /\ DOMAIN m = DOMAIN l \cup DOMAIN g
      /\ \A f \in DOMAIN g : m[f] = g[f]
      /\ \A f \in DOMAIN l \ DOMAIN g : f # "pc" => m[f] = l[f]
  BY <1>2, <1>3 DEF Over
<1>6. Went(t, m, p, g)
  BY <1>1, <1>4, <1>5 DEF Went
<1> QED
  BY <1>6


LEMMA ThreadKnows ==
    ASSUME NEW reg, Good(reg), NEW t \in Threads, NEW l, l = loc[t]
    PROVE  Knows(reg, l) /\ Types /\ DOMAIN loc = Threads
BY DEF Good, Types

\* What the locals of a call are throughout the call.
InCall(l) ==
    /\ Fields \subseteq DOMAIN l /\ l.call \in {"add", "find"} /\ l.key \in Keys
    /\ l.auxRoot = baseRoot /\ l.then = l.call /\ l.result \in {"FOUND", "NOTFOUND_L", "NOTFOUND_R"}

LEMMA CallGoesOn ==
    ASSUME NEW reg, Good(reg), NEW t \in Threads, NEW l, l = loc[t], l.pc # "idle", NEW m, NEW p, NEW g,
           Went(t, m, p, g), DOMAIN g \cap {"call", "key", "auxRoot", "then"} = {},
           "result" \in DOMAIN g => g.result \in {"FOUND", "NOTFOUND_L", "NOTFOUND_R"}
    PROVE  InCall(m) /\ InCall(l) /\ m.call = l.call /\ m.key = l.key
<1>1. InCall(l)
  BY ThreadKnows DEF Knows, InCall
<1>2. /\ \A f \in DOMAIN g : m[f] = g[f] /\ f \in DOMAIN m
      /\ \A f \in DOMAIN l \ DOMAIN g : f \in DOMAIN m /\ (f # "pc" => m[f] = l[f])
  BY DEF Went
<1>3. Fields \subseteq DOMAIN m
  BY <1>1, <1>2 DEF InCall
<1>4. m.call = l.call /\ m.key = l.key /\ m.auxRoot = l.auxRoot /\ m.then = l.then
  BY <1>1, <1>2 DEF InCall, Fields
<1>5. m.result \in {"FOUND", "NOTFOUND_L", "NOTFOUND_R"}
  BY <1>1, <1>2 DEF InCall, Fields
<1> QED
  BY <1>1, <1>3, <1>4, <1>5 DEF InCall

\* A call goes on and nothing but its locals changes.
LEMMA CallReads ==
    ASSUME NEW reg, Good(reg), NEW t \in Threads, NEW l, l = loc[t], NEW m, Goes(t, m), l.pc # "idle", m.pc # "idle",
           m.call = l.call, m.key = l.key, UNCHANGED <<node, op, held>>, Knows(reg, m)
    PROVE  Good(reg)'
<1>1. Remembers(t, m)
  BY DEF Remembers
<1> QED
  BY <1>1, ReadKeeps

\* The call ends with its key in place.
LEMMA CallEnds ==
    ASSUME NEW reg, Good(reg), NEW t \in Threads, NEW l, l = loc[t], Return(t), UNCHANGED <<node, op>>,
           l.call \in {"add", "find"}, l.call = "add" => HasKey(l.key)
    PROVE  Good(reg)'
<1>1. DOMAIN loc = Threads /\ Goes(t, Idle)
  <2>1. DOMAIN loc = Threads
    BY ThreadKnows
  <2>2. {loc[t].key : u \in {u \in {t} : loc[u].call = "delete"}} \cap held = {}
    OBVIOUS
  <2>3. loc' = [u \in Threads |-> IF u = t THEN Idle ELSE loc[u]]
    BY <2>2 DEF Return
  <2> QED
    BY <2>1, <2>3 DEF Goes
<1>2. held' = IF l.call = "add" THEN held \cup {l.key} ELSE held
  BY DEF Return
<1>3. Remembers(t, Idle)
  BY <1>2 DEF Remembers
<1>4. Knows(reg, Idle)
  BY DEF Knows, Idle, PCs
<1>5. \A k \in held' : k \in held \/ HasKey(k)
  BY <1>2
<1> QED
  BY <1>1, <1>3, <1>4, <1>5, ReadKeeps


LEMMA NoLocals == DOMAIN <<>> = {}
OBVIOUS

\* A link that leads to a node is that node's.
LEMMA LoadLeads ==
    ASSUME Types, NEW link, NEW n \in DOMAIN node, LeadsTo(link, n)
    PROVE  Load(link) = n /\ (link = baseRoot => n = 1)
<1>1. CASE link = baseRoot /\ n = 1
  BY <1>1 DEF Load
<1>2. CASE \E m \in DOMAIN node, s \in Sides : link = <<m, s>> /\ node[m][s] = n
  <2>1. PICK m \in DOMAIN node, s \in Sides : link = <<m, s>> /\ node[m][s] = n
    BY <1>2
  <2>2. m # 0
    BY NodesAre
  <2> QED
    BY <2>1, <2>2 DEF Load, baseRoot
<1> QED
  BY <1>1, <1>2 DEF LeadsTo

\* A walk that comes to a node goes on at the side where the key belongs.
LEMMA WalkGoesOn ==
    ASSUME NEW n \in DOMAIN node, NEW k, On(n, k), node[n].key # k, NEW m, m = node[n][SideOf(n, k)], IsNode(m)
    PROVE  On(m, k)
<1> SUFFICES ASSUME NEW S \in SUBSET DOMAIN node, WalkStaysIn(S, k)
             PROVE  m \in S
  BY DEF On
<1>1. n \in S /\ m = NextTo(k, n)
  BY DEF On, NextTo, SideOf
<1> QED
  BY <1>1 DEF WalkStaysIn

LEMMA BeginKeeps ==
    ASSUME NEW reg, Good(reg), NEW t \in Threads, NEW c \in {"add", "find"}, NEW k \in Keys, Begin(t, c, k)
    PROVE  Good(reg)'
<1>1. PICK g : g = Over([call |-> c, key |-> k, late |-> FALSE, pred |-> baseRoot, predOp |-> NULL,
                         curr |-> baseRoot, currOp |-> NULL], StartFind(baseRoot, c))
  OBVIOUS
<1>2. /\ DOMAIN g = (Fields \ {"pc"}) \cup {"late"} /\ g.call = c /\ g.key = k /\ g.result = "NOTFOUND_R"
      /\ g.auxRoot = baseRoot /\ g.next = baseRoot /\ g.then = c
  BY <1>1 DEF Over, StartFind, Fields
<1>3. loc[t].pc = "idle" /\ Goto(t, "link", g) /\ UNCHANGED <<node, op, held>>
  BY <1>1 DEF Begin, At
<1>4. PICK m : Went(t, m, "link", g)
  BY <1>2, <1>3, GotoIs DEF Fields
<1>5. Goes(t, m) /\ m.pc = "link" /\ DOMAIN g \subseteq DOMAIN m /\ \A f \in DOMAIN g : m[f] = g[f]
  BY <1>4 DEF Went
<1>6. "pc" \in DOMAIN m
  BY <1>4, ThreadKnows DEF Went, Knows
<1>7. InCall(m) /\ m.next = baseRoot /\ m.result = "NOTFOUND_R"
  BY <1>2, <1>5, <1>6 DEF InCall, Fields
<1>8. Knows(reg, m)
  BY <1>5, <1>6, <1>7 DEF Knows, InCall, InLink, PCs
<1>9. Remembers(t, m)
  BY <1>3 DEF Remembers
<1> QED
  BY <1>3, <1>5, <1>8, <1>9, ReadKeeps

LEMMA FindLinkKeeps ==
    ASSUME NEW reg, Good(reg), NEW t \in Threads, FindLink(t)
    PROVE  Good(reg)'
<1>1. PICK l : l = loc[t]
  OBVIOUS
<1>2. Knows(reg, l) /\ Types /\ l.pc = "link" /\ InLink(l) /\ InCall(l) /\ UNCHANGED <<node, op, held>>
  BY <1>1, ThreadKnows DEF FindLink, At, Knows, InCall
<1>3. PICK n : n = Load(l.next)
  OBVIOUS
<1>4. CASE IsNode(n)
  <2>1. Goto(t, "op", [tp |-> n])
    BY <1>1, <1>3, <1>4 DEF FindLink
  <2>2. PICK m : Went(t, m, "op", [tp |-> n])
    BY <2>1, GotoIs
  <2>3. InCall(m) /\ m.call = l.call /\ m.key = l.key
    BY <1>1, <1>2, <2>2, CallGoesOn
  <2>4. /\ Goes(t, m) /\ m.pc = "op" /\ m.tp = n /\ "tp" \in DOMAIN m /\ "pc" \in DOMAIN m
        /\ m.next = l.next /\ m.result = l.result
    BY <1>1, <1>2, <2>2 DEF Went, InCall, Fields
  <2>5. LeadsTo(l.next, n) /\ On(n, l.key)
    <3>1. CASE l.next = baseRoot
      BY <1>2, <1>3, <3>1 DEF Load, LeadsTo, On, WalkStaysIn, Types
    <3>2. CASE l.next # baseRoot
      <4>1. PICK a \in DOMAIN node : l.next = <<a, SideOf(a, l.key)>> /\ Belongs(l, a)
        BY <1>2, <3>2 DEF InLink
      <4> DEFINE k == l.key
      <4>2. PICK s \in Sides : s = SideOf(a, k)
        BY SideOfIsASide
      <4>3. n = node[a][s]
        BY <1>3, <3>2, <4>1, <4>2 DEF Load
      <4>4. On(n, k)
        BY <1>4, <4>1, <4>2, <4>3, WalkGoesOn DEF Belongs
      <4> QED
        BY <4>1, <4>2, <4>3, <4>4 DEF LeadsTo
    <3> QED
      BY <3>1, <3>2
  <2>6. InOp(m)
    <3>1. l.next = baseRoot => l.result = "NOTFOUND_R"
      BY <1>2, NodesAre DEF InLink, baseRoot
    <3> QED
      BY <1>2, <1>4, <2>3, <2>4, <2>5, <3>1 DEF InOp, InLink, IsNode
  <2>7. Knows(reg, m)
    BY <2>3, <2>4, <2>6 DEF Knows, InCall, PCs
  <2> QED
    BY <1>1, <1>2, <2>3, <2>4, <2>7, CallReads
<1>5. CASE ~IsNode(n)
  <2>1. l.next # baseRoot
    BY <1>2, <1>3, <1>5 DEF Load, IsNode, Types
  <2>2. l.auxRoot = baseRoot /\ l.then = l.call /\ l.call \in {"add", "find"}
    BY <1>2 DEF InCall
  <2>3. Goto(t, l.then, <<>>)
    BY <1>1, <1>3, <1>5, <2>1, <2>2 DEF FindLink
  <2>4. PICK m : Went(t, m, l.then, <<>>)
    BY <2>3, GotoIs, NoLocals
  <2>5. InCall(m) /\ m.call = l.call /\ m.key = l.key
    BY <1>1, <1>2, <2>4, CallGoesOn, NoLocals
  <2>6. /\ Goes(t, m) /\ m.pc = m.call /\ "pc" \in DOMAIN m
        /\ m.curr = l.curr /\ m.currOp = l.currOp /\ m.result = l.result
    BY <1>1, <1>2, <2>2, <2>4, <2>5, NoLocals DEF Went, InCall, Fields
  <2>7. PICK a \in DOMAIN node :
           /\ l.next = <<a, SideOf(a, l.key)>> /\ Belongs(l, a) /\ LeadsTo(l.curr, a)
           /\ l.currOp \in DOMAIN op /\ l.currOp <= node[a].op /\ Flag(l.currOp) = "NONE"
    BY <1>2, <2>1 DEF InLink
  <2>8. n = node[a][SideOf(a, l.key)]
    BY <1>3, <2>1, <2>7 DEF Load
  <2>9. Free(m, a)
    BY <1>2, <1>5, <2>5, <2>6, <2>7, <2>8, NodesAre DEF Free, Belongs
  <2>10. InAdd(m) /\ m.result # "FOUND"
    BY <1>2, <2>6, <2>7, <2>9 DEF InAdd, InLink
  <2>11. Knows(reg, m)
    BY <2>5, <2>6, <2>10 DEF Knows, InCall, PCs
  <2> QED
    BY <1>1, <1>2, <2>2, <2>5, <2>6, <2>11, CallReads
<1> QED
  BY <1>4, <1>5


\* At the root there is no comparison: every key belongs at its right.
LEMMA FindOpAtRoot ==
    ASSUME NEW reg, Good(reg), NEW t \in Threads, FindOp(t), loc[t].next = baseRoot
    PROVE  Good(reg)'
<1>1. PICK l : l = loc[t]
  OBVIOUS
<1>2. Knows(reg, l) /\ Types /\ Pending(reg) /\ l.pc = "op" /\ InOp(l) /\ InCall(l) /\ UNCHANGED <<node, op, held>>
  BY <1>1, ThreadKnows DEF FindOp, At, Knows, InCall, Good
<1>3. l.next = baseRoot /\ l.next = l.auxRoot /\ l.auxRoot = baseRoot /\ l.tp = 1 /\ l.result = "NOTFOUND_R"
  BY <1>1, <1>2, LoadLeads DEF InOp, InCall
<1>4. PICK o : o = node[1].op
  OBVIOUS
<1>5. o \in DOMAIN op /\ op[o] \in OpRecords /\ 1 \in DOMAIN node /\ node[1].key = -1 /\ l.key > -1
  BY <1>2, <1>4, NodesAre, NullIsNoNode DEF Types, InCall
<1>6. CASE Flag(o) = "NONE"
  <2>1. PICK g : g = Over([next |-> Link(1, FALSE)], [curr |-> l.next, currOp |-> o])
    OBVIOUS
  <2>2. DOMAIN g = {"next", "curr", "currOp"} /\ g.next = <<1, "right">> /\ g.curr = baseRoot /\ g.currOp = o
    BY <1>3, <2>1 DEF Over, Link
  <2>3. Goto(t, "link", g)
    BY <1>1, <1>3, <1>4, <1>6, <2>1 DEF FindOp
  <2>4. PICK m : Went(t, m, "link", g)
    BY <2>2, <2>3, GotoIs
  <2>5. InCall(m) /\ m.call = l.call /\ m.key = l.key
    BY <1>1, <1>2, <2>2, <2>4, CallGoesOn
  <2>6. /\ Goes(t, m) /\ m.pc = "link" /\ "pc" \in DOMAIN m /\ m.next = <<1, "right">> /\ m.curr = baseRoot
        /\ m.currOp = o /\ m.result = l.result
    BY <1>1, <1>2, <2>2, <2>4 DEF Went, InCall, Fields
  <2>7. SideOf(1, m.key) = "right" /\ Belongs(m, 1)
    BY <1>2, <1>3, <1>5, <2>5, <2>6, NullIsNoNode DEF SideOf, Belongs, InOp, InCall
  <2>8. LeadsTo(m.curr, 1) /\ o <= node[1].op
    BY <1>2, <1>4, <1>5, <2>6, NodesAre DEF LeadsTo
  <2>9. InLink(m)
    BY <1>3, <1>5, <1>6, <2>6, <2>7, <2>8 DEF InLink
  <2>10. Knows(reg, m)
    BY <2>5, <2>6, <2>9 DEF Knows, InCall, PCs
  <2> QED
    BY <1>1, <1>2, <2>5, <2>6, <2>10, CallReads
<1>7. CASE Flag(o) # "NONE"
  <2>1. PICK g : g = Over([hop |-> o, hnode |-> 1, back |-> "link"], [curr |-> l.next, currOp |-> o])
    OBVIOUS
  <2>2. DOMAIN g = {"hop", "hnode", "back", "curr", "currOp"} /\ g.hop = o /\ g.hnode = 1 /\ g.back = "link"
    BY <2>1 DEF Over
  <2>3. Goto(t, "casLink", g)
    BY <1>1, <1>3, <1>4, <1>7, <2>1 DEF FindOp
  <2>4. PICK m : Went(t, m, "casLink", g)
    BY <2>2, <2>3, GotoIs
  <2>5. InCall(m) /\ m.call = l.call /\ m.key = l.key
    BY <1>1, <1>2, <2>2, <2>4, CallGoesOn
  <2>6. /\ Goes(t, m) /\ m.pc = "casLink" /\ "pc" \in DOMAIN m /\ HelpFields \subseteq DOMAIN m
        /\ m.hop = o /\ m.hnode = 1 /\ m.back = "link" /\ m.next = l.next /\ m.result = l.result
    BY <1>1, <1>2, <2>2, <2>4 DEF Went, InCall, Fields, HelpFields
  <2>7. Published(reg, 1, o)
    BY <1>2, <1>4, <1>5, <1>7 DEF Pending
  <2>8. Back(m)
    BY <1>3, <2>6 DEF Back
  <2>9. Knows(reg, m)
    BY <2>5, <2>6, <2>7, <2>8 DEF Knows, InCall, PCs
  <2> QED
    BY <1>1, <1>2, <2>5, <2>6, <2>9, CallReads
<1> QED
  BY <1>6, <1>7

\* Below it, find compares the keys next, or helps.
LEMMA FindOpBelow ==
    ASSUME NEW reg, Good(reg), NEW t \in Threads, FindOp(t), loc[t].next # baseRoot
    PROVE  Good(reg)'
<1>1. PICK l : l = loc[t]
  OBVIOUS
<1>2. Knows(reg, l) /\ Types /\ Pending(reg) /\ l.pc = "op" /\ InOp(l) /\ InCall(l) /\ UNCHANGED <<node, op, held>>
  BY <1>1, ThreadKnows DEF FindOp, At, Knows, InCall, Good
<1>3. l.next # l.auxRoot /\ l.auxRoot = baseRoot /\ l.tp \in DOMAIN node /\ LeadsTo(l.next, l.tp) /\ On(l.tp, l.key)
      /\ l.result # "FOUND" /\ l.then = l.call /\ l.call \in {"add", "find"}
  BY <1>1, <1>2 DEF InOp, InCall
<1>4. PICK o : o = node[l.tp].op
  OBVIOUS
<1>5. o \in DOMAIN op /\ op[o] \in OpRecords /\ o \in Nat
  BY <1>2, <1>3, <1>4, NodesAre
<1>6. CASE Flag(o) # "NONE"
  <2>1. PICK g : g = Over([pred |-> l.curr, predOp |-> l.currOp, curr |-> l.next, currOp |-> o],
                          [hop |-> o, hnode |-> l.tp, hpredOp |-> l.currOp, back |-> l.then])
    OBVIOUS
  <2>2. /\ DOMAIN g = {"pred", "predOp", "curr", "currOp", "hop", "hnode", "hpredOp", "back"}
        /\ g.curr = l.next /\ g.currOp = o /\ g.hop = o /\ g.hnode = l.tp /\ g.back = l.then
    BY <2>1 DEF Over
  <2>3. Goto(t, "helpPred", g)
    BY <1>1, <1>3, <1>4, <1>6, <2>1 DEF FindOp, FindHelps
  <2>4. PICK m : Went(t, m, "helpPred", g)
    BY <2>2, <2>3, GotoIs
  <2>5. InCall(m) /\ m.call = l.call /\ m.key = l.key
    BY <1>1, <1>2, <2>2, <2>4, CallGoesOn
  <2>6. /\ Goes(t, m) /\ m.pc = "helpPred" /\ "pc" \in DOMAIN m /\ HelpFields \subseteq DOMAIN m
        /\ m.hop = o /\ m.hnode = l.tp /\ m.back = l.then /\ m.then = l.then
        /\ m.curr = l.next /\ m.currOp = o /\ m.result = l.result
    BY <1>1, <1>2, <2>2, <2>4 DEF Went, InCall, Fields, HelpFields
  <2>7. Published(reg, l.tp, o)
    BY <1>2, <1>3, <1>4, <1>6 DEF Pending
  <2>8. Back(m)
    BY <1>3, <2>6 DEF Back
  <2>9. Knows(reg, m)
    BY <2>5, <2>6, <2>7, <2>8 DEF Knows, InCall, PCs
  <2> QED
    BY <1>1, <1>2, <2>5, <2>6, <2>9, CallReads
<1>7. CASE Flag(o) = "NONE"
  <2>1. PICK g : g = Over([pred |-> l.curr, predOp |-> l.currOp], [curr |-> l.next, currOp |-> o])
    OBVIOUS
  <2>2. DOMAIN g = {"pred", "predOp", "curr", "currOp"} /\ g.curr = l.next /\ g.currOp = o
    BY <2>1 DEF Over
  <2>3. Goto(t, "key", g)
    BY <1>1, <1>3, <1>4, <1>7, <2>1 DEF FindOp
  <2>4. PICK m : Went(t, m, "key", g)
    BY <2>2, <2>3, GotoIs
  <2>5. InCall(m) /\ m.call = l.call /\ m.key = l.key
    BY <1>1, <1>2, <2>2, <2>4, CallGoesOn
  <2>6. /\ Goes(t, m) /\ m.pc = "key" /\ "pc" \in DOMAIN m /\ "tp" \in DOMAIN m /\ m.tp = l.tp
        /\ m.curr = l.next /\ m.currOp = o /\ m.result = l.result
    BY <1>1, <1>2, <2>2, <2>4 DEF Went, InCall, InOp, Fields
  <2>7. InKey(m)
    BY <1>3, <1>4, <1>5, <1>7, <2>5, <2>6 DEF InKey
  <2>8. Knows(reg, m)
    BY <2>5, <2>6, <2>7 DEF Knows, InCall, PCs
  <2> QED
    BY <1>1, <1>2, <2>5, <2>6, <2>8, CallReads
<1> QED
  BY <1>6, <1>7

\* The key of a node does not change while nobody deletes: find goes on at the side where
\* its own belongs, or has found it.
LEMMA FindKeyKeeps ==
    ASSUME NEW reg, Good(reg), NEW t \in Threads, FindKey(t)
    PROVE  Good(reg)'
<1>1. PICK l : l = loc[t]
  OBVIOUS
<1>2. Knows(reg, l) /\ Types /\ l.pc = "key" /\ InKey(l) /\ InCall(l) /\ UNCHANGED <<node, op, held>>
  BY <1>1, ThreadKnows DEF FindKey, At, Knows, InCall
<1>3. PICK k : k = node[l.tp].key
  OBVIOUS
<1>4. k \in Int /\ l.key \in Int /\ l.auxRoot = baseRoot /\ l.then = l.call /\ l.call \in {"add", "find"}
  BY <1>2, <1>3, NodesAre, NullIsNoNode DEF InKey, InCall
<1>5. CASE l.key # k
  <2>1. PICK r, s : r = (IF l.key < k THEN "NOTFOUND_L" ELSE "NOTFOUND_R") /\ s = SideOf(l.tp, l.key)
    OBVIOUS
  <2>2. PICK g : g = [result |-> r, next |-> <<l.tp, s>>]
    OBVIOUS
  <2>3. DOMAIN g = {"result", "next"} /\ g.result = r /\ g.next = <<l.tp, s>>
    BY <2>2
  <2>4. Goto(t, "link", g)
    <3>1. CASE l.key < k
      <4>1. r = "NOTFOUND_L" /\ <<l.tp, s>> = Link(l.tp, TRUE)
        BY <1>3, <2>1, <3>1 DEF Link, SideOf
      <4>2. loc[t].key < node[loc[t].tp].key /\ ~(loc[t].key > node[loc[t].tp].key) /\ loc[t].key # node[loc[t].tp].key
        BY <1>1, <1>3, <1>4, <3>1
      <4> QED
        BY <1>1, <2>2, <4>1, <4>2 DEF FindKey
    <3>2. CASE l.key > k
      <4>1. r = "NOTFOUND_R" /\ <<l.tp, s>> = Link(l.tp, FALSE)
        BY <1>3, <1>4, <2>1, <3>2 DEF Link, SideOf
      <4>2. loc[t].key > node[loc[t].tp].key /\ ~(loc[t].key < node[loc[t].tp].key) /\ loc[t].key # node[loc[t].tp].key
        BY <1>1, <1>3, <1>4, <3>2
      <4> QED
        BY <1>1, <2>2, <4>1, <4>2 DEF FindKey
    <3> QED
      BY <1>4, <1>5, <3>1, <3>2
  <2>5. PICK m : Went(t, m, "link", g)
    BY <2>3, <2>4, GotoIs
  <2>6. InCall(m) /\ m.call = l.call /\ m.key = l.key
    BY <1>1, <1>2, <2>1, <2>3, <2>5, CallGoesOn
  <2>7. /\ Goes(t, m) /\ m.pc = "link" /\ "pc" \in DOMAIN m /\ m.next = <<l.tp, s>> /\ m.curr = l.curr
        /\ m.currOp = l.currOp /\ m.result = r
    BY <1>1, <1>2, <2>3, <2>5 DEF Went, InCall, Fields
  <2>8. s = SideOf(l.tp, m.key) /\ Belongs(m, l.tp)
    BY <1>2, <1>3, <1>4, <1>5, <2>1, <2>6, <2>7 DEF Belongs, InKey
  <2>9. InLink(m)
    BY <1>2, <2>1, <2>7, <2>8 DEF InLink, InKey
  <2>10. Knows(reg, m)
    BY <2>6, <2>7, <2>9 DEF Knows, InCall, PCs
  <2> QED
    BY <1>1, <1>2, <2>6, <2>7, <2>10, CallReads
<1>6. CASE l.key = k
  <2>1. PICK g : g = [result |-> "FOUND"]
    OBVIOUS
  <2>2. DOMAIN g = {"result"} /\ g.result = "FOUND"
    BY <2>1
  <2>3. Goto(t, l.then, g)
    BY <1>1, <1>3, <1>4, <1>6, <2>1 DEF FindKey
  <2>4. PICK m : Went(t, m, l.then, g)
    BY <2>2, <2>3, GotoIs
  <2>5. InCall(m) /\ m.call = l.call /\ m.key = l.key
    BY <1>1, <1>2, <2>2, <2>4, CallGoesOn
  <2>6. Goes(t, m) /\ m.pc = m.call /\ "pc" \in DOMAIN m /\ m.result = "FOUND"
    BY <1>1, <1>2, <1>4, <2>2, <2>4, <2>5 DEF Went, InCall, Fields
  <2>7. HasKey(m.key)
    BY <1>2, <1>3, <1>6, <2>5 DEF HasKey, InKey
  <2>8. Knows(reg, m)
    BY <2>5, <2>6, <2>7 DEF Knows, InCall, InAdd, PCs
  <2> QED
    BY <1>1, <1>2, <1>4, <2>5, <2>6, <2>8, CallReads
<1> QED
  BY <1>5, <1>6

LEMMA FindKeeps ==
    ASSUME NEW reg, Good(reg), NEW t \in Threads, Find(t)
    PROVE  Good(reg)'
<1>1. PICK l : l = loc[t]
  OBVIOUS
<1>2. Return(t) /\ UNCHANGED <<node, op>> /\ l.call = "find"
  BY <1>1, ThreadKnows DEF Find, At, Knows
<1> QED
  BY <1>1, <1>2, CallEnds


-----------------------------------------------------------------------------
(* Helping. *)

\* A thread that helps goes on with the record it has met.
Helping(reg, l) ==
    /\ InCall(l) /\ "pc" \in DOMAIN l /\ HelpFields \subseteq DOMAIN l
    /\ Published(reg, l.hnode, l.hop) /\ Back(l)

LEMMA HelperGoesOn ==
    ASSUME NEW reg, Good(reg), NEW t \in Threads, NEW l, l = loc[t], l.pc \in {"helpPred", "casLink", "casClear"},
           NEW m, NEW p, NEW g, Went(t, m, p, g),
           DOMAIN g \cap (HelpFields \cup (Fields \ {"pc", "pred", "predOp"})) = {}
    PROVE  /\ Helping(reg, l) /\ Helping(reg, m)
           /\ m.hnode = l.hnode /\ m.hop = l.hop /\ m.back = l.back /\ m.call = l.call /\ m.key = l.key
           /\ m.result = l.result /\ m.next = l.next /\ m.curr = l.curr /\ m.currOp = l.currOp
<1>1. Knows(reg, l)
  BY ThreadKnows
<1>2. HelpFields \subseteq DOMAIN l /\ Published(reg, l.hnode, l.hop) /\ Back(l) /\ "pc" \in DOMAIN l
  BY <1>1 DEF Knows
<1>3. InCall(m) /\ InCall(l) /\ m.call = l.call /\ m.key = l.key
  BY CallGoesOn DEF Fields
<1>4. /\ \A f \in DOMAIN g : m[f] = g[f] /\ f \in DOMAIN m
      /\ \A f \in DOMAIN l \ DOMAIN g : f \in DOMAIN m /\ (f # "pc" => m[f] = l[f])
      /\ DOMAIN m = DOMAIN l \cup DOMAIN g
  BY DEF Went
<1>5. m.hnode = l.hnode /\ m.hop = l.hop /\ m.back = l.back
  BY <1>2, <1>4 DEF HelpFields
<1>6. m.result = l.result /\ m.next = l.next /\ m.curr = l.curr /\ m.currOp = l.currOp /\ m.then = l.then
  BY <1>3, <1>4 DEF InCall, Fields
<1>7. Published(reg, m.hnode, m.hop)
  BY <1>2, <1>5
<1>8. Back(m)
  BY <1>2, <1>3, <1>5, <1>6 DEF Back, Belongs
<1>9. "pc" \in DOMAIN m /\ HelpFields \subseteq DOMAIN m
  BY <1>2, <1>4
<1> QED
  BY <1>2, <1>3, <1>5, <1>6, <1>7, <1>8, <1>9 DEF Helping

LEMMA HelpPredKeeps ==
    ASSUME NEW reg, Good(reg), NEW t \in Threads, HelpPred(t)
    PROVE  Good(reg)'
<1>1. PICK l : l = loc[t]
  OBVIOUS
<1>2. Published(reg, l.hnode, l.hop) /\ l.pc = "helpPred" /\ UNCHANGED <<node, op, held>>
  BY <1>1, ThreadKnows DEF HelpPred, At, Knows
<1>3. Goto(t, "casLink", [hpred |-> Load(l.pred)])
  BY <1>1, <1>2 DEF HelpPred, Published
<1>4. PICK m : Went(t, m, "casLink", [hpred |-> Load(l.pred)])
  BY <1>3, GotoIs
<1>5. Helping(reg, m) /\ m.call = l.call /\ m.key = l.key
  BY <1>1, <1>2, <1>4, HelperGoesOn DEF Fields, HelpFields
<1>6. Goes(t, m) /\ m.pc = "casLink"
  BY <1>4 DEF Went
<1>7. Knows(reg, m)
  BY <1>5, <1>6 DEF Knows, Helping, InCall, PCs
<1> QED
  BY <1>1, <1>2, <1>5, <1>6, <1>7, CallReads

\* A thread that is done helping, at a node whose op is not the record any more.
LEMMA HelpedKnows ==
    ASSUME NEW reg, Types, NEW l, Helping(reg, l), l.hop < node[l.hnode].op, Swung(l.hnode, l.hop), l.pc = l.back
    PROVE  Knows(reg, l)
<1>1. l.hnode \in DOMAIN node /\ l.hop \in Nat /\ op[l.hop].update \in DOMAIN node
  BY NodesAre DEF Helping, Published
<1>2. CASE l.back = "link" /\ l.next = baseRoot /\ l.result = "NOTFOUND_R"
  BY <1>2 DEF Helping, InCall, Knows, InLink, PCs
<1>3. CASE l.back = l.then /\ l.result # "FOUND" /\ LeadsTo(l.curr, l.hnode) /\ l.currOp = l.hop
  <2>1. Free(l, l.hnode)
    BY <1>1, <1>3, NodesAre DEF Free
  <2>2. InAdd(l)
    BY <1>1, <1>3, <2>1 DEF InAdd
  <2> QED
    BY <1>3, <2>2 DEF Helping, InCall, Knows, PCs
<1>4. CASE /\ l.back = "return" /\ l.call = "add" /\ Belongs(l, l.hnode)
           /\ op[l.hop].isLeft <=> (l.key < node[l.hnode].key)
           /\ node[op[l.hop].update].key = l.key
  <2>1. PICK k, n, m : k = l.key /\ n = l.hnode /\ m = op[l.hop].update
    OBVIOUS
  <2>2. n \in DOMAIN node /\ On(n, k) /\ node[n].key # k /\ m \in DOMAIN node /\ node[m].key = k
    BY <1>1, <1>4, <2>1 DEF Belongs
  <2>3. m = node[n][SideOf(n, k)]
    BY <1>4, <2>1 DEF Swung, Side, SideOf
  <2>4. On(m, k)
    BY <2>2, <2>3, WalkGoesOn DEF IsNode
  <2>5. HasKey(l.key)
    BY <2>1, <2>2, <2>4 DEF HasKey
  <2> QED
    BY <1>4, <2>5 DEF Helping, InCall, Knows, PCs
<1> QED
  BY <1>2, <1>3, <1>4 DEF Helping, Back


\* A call goes on and the tree grows.
LEMMA CallSteps ==
    ASSUME NEW reg, NEW reg2, Good(reg), Grows(reg, reg2), NEW t \in Threads, NEW l, l = loc[t], NEW m, Goes(t, m),
           l.pc # "idle", m.pc # "idle", m.call = l.call, m.key = l.key, held' = held,
           Types', Tree(reg2)', Pending(reg2)', Knows(reg2, m)',
           \A n \in DOMAIN node' \ DOMAIN node : m.call = "add" /\ node'[n].key = m.key
    PROVE  Good(reg2)'
<1>1. Remembers(t, m)
  BY DEF Remembers
<1> QED
  BY <1>1, StepKeeps

LEMMA HelpingGrows ==
    ASSUME NEW reg, NEW reg2, Types, Grows(reg, reg2), NEW l, Helping(reg, l)
    PROVE  Helping(reg2, l)'
<1>1. InCall(l)'
  BY DEF Helping, InCall, baseRoot
<1>2. Published(reg2, l.hnode, l.hop)' /\ Back(l)'
  BY PublishedGrows, BackGrows DEF Helping
<1> QED
  BY <1>1, <1>2 DEF Helping

\* helpChildCAS swings the link, as the record says.
LEMMA SwingsLink ==
    ASSUME NEW reg, Types, Tree(reg), Pending(reg), NEW n \in DOMAIN node, NEW o, o = node[n].op, Published(reg, n, o),
           Waits(n, o), NEW s, s = Side(op[o].isLeft), op' = op, DOMAIN loc' = Threads,
           node' = [node EXCEPT ![n][s] = op[o].update]
    PROVE  Grows(reg, reg) /\ Types' /\ Tree(reg)' /\ Pending(reg)' /\ Swung(n, o)'
<1>1. s \in Sides /\ node[n] \in NodeRecords /\ DOMAIN node = 1 .. Len(node) /\ DOMAIN node \subseteq Nat \ {0}
  BY SideIsASide, NodesAre
<1>2. PICK u \in DOMAIN node : u = op[o].update
  BY DEF Published
<1>3. PICK r : r = [node[n] EXCEPT ![s] = u]
  OBVIOUS
<1>4. r \in NodeRecords /\ r.key = node[n].key /\ r.op = node[n].op
      /\ \A z \in Sides : r[z] = IF z = s THEN u ELSE node[n][z]
  BY <1>1, <1>3 DEF NodeRecords, Sides
<1>5. node' = [node EXCEPT ![n] = r]
  BY <1>2, <1>3
<1>6. node' \in Seq(NodeRecords) /\ DOMAIN node' = DOMAIN node
  <2>1. node \in Seq(NodeRecords) /\ n \in 1 .. Len(node)
    BY <1>1 DEF Types
  <2>2. [node EXCEPT ![n] = r] \in Seq(NodeRecords)
    BY <1>4, <2>1, ExceptSeq
  <2> QED
    BY <1>5, <2>2
<1>7. /\ \A a \in DOMAIN node : node'[a].key = node[a].key /\ node'[a].op = node[a].op
      /\ \A a \in DOMAIN node : \A z \in Sides :
            node'[a][z] = IF a = n /\ z = s THEN u ELSE node[a][z]
  BY <1>4, <1>5
<1>8. ~IsNode(node[n][s]) /\ Flag(o) = "CHILDCAS" /\ reg[u] = Half(reg, n, s)
  <2>1. o \in DOMAIN op /\ Flag(o) = "CHILDCAS" /\ op[o].update \in DOMAIN node /\ reg[u] = Half(reg, n, s)
    BY <1>2 DEF Published
  <2>2. op[o].expected \in Nulls
    BY <2>1, NodesAre DEF OpRecords, Flag
  <2> QED
    BY <2>1, <2>2, NodesAre DEF Waits
<1>9. \A a \in DOMAIN node : GrowsAt(a)
  BY <1>2, <1>7, <1>8 DEF GrowsAt
<1>10. Grows(reg, reg)
  BY <1>1, <1>6, <1>9 DEF Grows
<1>11. Types'
  <2>1. \A a \in DOMAIN node' : node'[a].op \in DOMAIN op' /\ (a # 1 => node'[a].key \in Keys)
    BY <1>6, <1>7 DEF Types
  <2>2. \A a \in DOMAIN node' : \A z \in Sides : node'[a][z] \in DOMAIN node' \cup Nulls
    BY <1>6, <1>7 DEF Types
  <2>3. 1 \in DOMAIN node' /\ node'[1].key = -1 /\ op' \in Seq(OpRecords)
    BY <1>6, <1>7 DEF Types
  <2> QED
    BY <1>6, <2>1, <2>2, <2>3 DEF Types
<1>12. Tree(reg)'
  <2>1. \A a \in DOMAIN node : \A z : Half(reg, a, z)' = Half(reg, a, z)
    BY <1>7 DEF Half
  <2>2. reg[1] = Int /\ \A a \in DOMAIN node' : reg[a] \subseteq Int /\ node'[a].key \in reg[a]
    BY <1>6, <1>7 DEF Tree
  <2>3. ASSUME NEW a \in DOMAIN node', NEW z \in Sides, IsNode(node[a][z])'
        PROVE  reg[node'[a][z]] = Half(reg, a, z)'
    BY <1>6, <1>7, <1>8, <2>1, <2>3 DEF Tree, IsNode
  <2> QED
    BY <2>2, <2>3 DEF Tree
<1>13. Pending(reg)'
  <2> SUFFICES ASSUME NEW a \in DOMAIN node', Flag(node[a].op)' # "NONE"
               PROVE  Published(reg, a, node[a].op)'
    BY DEF Pending
  <2>1. a \in DOMAIN node /\ Flag(node[a].op) # "NONE" /\ node'[a].op = node[a].op
    BY <1>6, <1>7 DEF Flag
  <2>2. Published(reg, a, node[a].op)
    BY <2>1 DEF Pending
  <2>3. PICK q : q = node[a].op
    OBVIOUS
  <2>4. Published(reg, a, q)'
    BY <1>10, <2>2, <2>3, PublishedGrows
  <2> QED
    BY <2>1, <2>3, <2>4
<1>14. Swung(n, o)'
  BY <1>1, <1>2, <1>7 DEF Swung
<1> QED
  BY <1>10, <1>11, <1>12, <1>13, <1>14

LEMMA CasLinkKeeps ==
    ASSUME NEW reg, Good(reg), NEW t \in Threads, CasLink(t)
    PROVE  Good(reg)'
<1>1. PICK l : l = loc[t]
  OBVIOUS
<1>2. /\ Published(reg, l.hnode, l.hop) /\ l.pc = "casLink" /\ UNCHANGED <<op, held>> /\ Goto(t, "casClear", <<>>)
      /\ Types /\ Tree(reg) /\ Pending(reg)
  BY <1>1, ThreadKnows DEF CasLink, At, Knows, Good
<1>3. PICK n, o, s : n = l.hnode /\ o = l.hop /\ s = Side(op[o].isLeft)
  OBVIOUS
<1>4. node' = IF node[n][s] = op[o].expected THEN [node EXCEPT ![n][s] = op[o].update] ELSE node
  BY <1>1, <1>3 DEF CasLink, Link, Side
<1>5. PICK m : Went(t, m, "casClear", <<>>)
  BY <1>2, GotoIs, NoLocals
<1>6. Helping(reg, m) /\ m.call = l.call /\ m.key = l.key /\ m.hnode = n /\ m.hop = o
  BY <1>1, <1>2, <1>3, <1>5, HelperGoesOn, NoLocals
<1>7. Goes(t, m) /\ m.pc = "casClear" /\ DOMAIN loc' = Threads
  BY <1>5 DEF Went, Goes
<1>8. CASE Swung(n, o)
  <2>1. op[o].expected \in Nulls /\ op[o].update \in DOMAIN node
    BY <1>2, <1>3, NodesAre DEF Published, OpRecords, Flag
  <2>2. node' = node
    BY <1>2, <1>3, <1>4, <1>8, <2>1, NodesAre DEF Swung, IsNode
  <2>3. Knows(reg, m)
    BY <1>6, <1>7, <1>8 DEF Knows, Helping, InCall, PCs
  <2> QED
    BY <1>1, <1>2, <1>6, <1>7, <2>2, <2>3, CallReads
<1>9. CASE Waits(n, o)
  <2>1. n \in DOMAIN node /\ o = node[n].op /\ node[n][s] = op[o].expected
    BY <1>2, <1>3, <1>9 DEF Published, Waits
  <2>2. Grows(reg, reg) /\ Types' /\ Tree(reg)' /\ Pending(reg)' /\ Swung(n, o)'
    BY <1>2, <1>3, <1>4, <1>7, <1>9, <2>1, SwingsLink
  <2>3. Helping(reg, m)'
    BY <1>2, <1>6, <2>2, HelpingGrows
  <2>4. Knows(reg, m)'
    BY <1>6, <1>7, <2>2, <2>3 DEF Knows, Helping, InCall, PCs
  <2>5. DOMAIN node' \subseteq DOMAIN node
    BY <1>4
  <2> QED
    BY <1>1, <1>2, <1>6, <1>7, <2>2, <2>4, <2>5, CallSteps
<1> QED
  BY <1>2, <1>3, <1>8, <1>9 DEF Published


\* helpChildCAS clears the node's op when the link has been swung.
LEMMA ClearsOp ==
    ASSUME NEW reg, Types, Tree(reg), Pending(reg), NEW n \in DOMAIN node, NEW o, o = node[n].op, Swung(n, o),
           Swing(n, op, Plain("NONE")), DOMAIN loc' = Threads
    PROVE  Grows(reg, reg) /\ Types' /\ Tree(reg)' /\ Pending(reg)' /\ DOMAIN node' = DOMAIN node /\ o < node'[n].op
<1>1. /\ node[n] \in NodeRecords /\ DOMAIN node = 1 .. Len(node) /\ DOMAIN node \subseteq Nat \ {0}
      /\ DOMAIN op = 1 .. Len(op) /\ Len(op) \in Nat
  BY NodesAre, LenProperties DEF Types
<1>2. PICK c : c = Len(op) + 1
  OBVIOUS
<1>3. PICK r : r = [node[n] EXCEPT !.op = c]
  OBVIOUS
<1>4. r \in NodeRecords /\ r.key = node[n].key /\ r.op = c /\ \A z \in Sides : r[z] = node[n][z]
  BY <1>1, <1>2, <1>3 DEF NodeRecords, Sides
<1>5. node' = [node EXCEPT ![n] = r] /\ op' = Append(op, Plain("NONE"))
  BY <1>2, <1>3 DEF Swing
<1>6. node' \in Seq(NodeRecords) /\ DOMAIN node' = DOMAIN node
  <2>1. node \in Seq(NodeRecords) /\ n \in 1 .. Len(node)
    BY <1>1 DEF Types
  <2>2. [node EXCEPT ![n] = r] \in Seq(NodeRecords)
    BY <1>4, <2>1, ExceptSeq
  <2> QED
    BY <1>5, <2>2
<1>7. /\ op' \in Seq(OpRecords) /\ DOMAIN op' = DOMAIN op \cup {c} /\ op'[c] = Plain("NONE")
      /\ \A q \in DOMAIN op : op'[q] = op[q]
  <2>1. op \in Seq(OpRecords) /\ Plain("NONE") \in OpRecords
    BY DEF Types, Plain, OpRecords
  <2>2. /\ Append(op, Plain("NONE")) \in Seq(OpRecords) /\ Len(Append(op, Plain("NONE"))) = c
        /\ \A q \in 1 .. Len(op) : Append(op, Plain("NONE"))[q] = op[q]
        /\ Append(op, Plain("NONE"))[c] = Plain("NONE")
    BY <1>2, <2>1, AppendProperties
  <2>3. DOMAIN op' = 1 .. c
    BY <1>5, <2>2, LenProperties
  <2> QED
    BY <1>1, <1>2, <1>5, <2>2, <2>3
<1>8. /\ \A a \in DOMAIN node : node'[a].key = node[a].key /\ node'[a].op = IF a = n THEN c ELSE node[a].op
      /\ \A a \in DOMAIN node : \A z \in Sides : node'[a][z] = node[a][z]
  BY <1>4, <1>5
<1>9. o \in Nat /\ c \in Nat /\ o < c
  BY <1>1, <1>2, NodesAre
<1>10. \A a \in DOMAIN node : GrowsAt(a)
  BY <1>8, <1>9 DEF GrowsAt
<1>11. Grows(reg, reg)
  BY <1>1, <1>6, <1>7, <1>10 DEF Grows
<1>12. Types'
  <2>1. \A a \in DOMAIN node' : node'[a].op \in DOMAIN op' /\ (a # 1 => node'[a].key \in Keys)
    BY <1>6, <1>7, <1>8 DEF Types
  <2>2. \A a \in DOMAIN node' : \A z \in Sides : node'[a][z] \in DOMAIN node' \cup Nulls
    BY <1>6, <1>8 DEF Types
  <2>3. 1 \in DOMAIN node' /\ node'[1].key = -1
    BY <1>6, <1>8 DEF Types
  <2> QED
    BY <1>6, <1>7, <2>1, <2>2, <2>3 DEF Types
<1>13. Tree(reg)'
  <2>1. \A a \in DOMAIN node : \A z : Half(reg, a, z)' = Half(reg, a, z)
    BY <1>8 DEF Half
  <2>2. reg[1] = Int /\ \A a \in DOMAIN node' : reg[a] \subseteq Int /\ node'[a].key \in reg[a]
    BY <1>6, <1>8 DEF Tree
  <2>3. ASSUME NEW a \in DOMAIN node', NEW z \in Sides, IsNode(node[a][z])'
        PROVE  reg[node'[a][z]] = Half(reg, a, z)'
    BY <1>6, <1>8, <2>1, <2>3 DEF Tree, IsNode
  <2> QED
    BY <2>2, <2>3 DEF Tree
<1>14. Pending(reg)'
  <2> SUFFICES ASSUME NEW a \in DOMAIN node', Flag(node[a].op)' # "NONE"
               PROVE  Published(reg, a, node[a].op)'
    BY DEF Pending
  <2>1. a # n
    BY <1>7, <1>8 DEF Flag, Plain
  <2>2. a \in DOMAIN node /\ node'[a].op = node[a].op /\ node[a].op \in DOMAIN op
    BY <1>6, <1>8, <2>1, NodesAre
  <2>3. Published(reg, a, node[a].op)
    BY <1>7, <2>2 DEF Pending, Flag
  <2>4. PICK q : q = node[a].op
    OBVIOUS
  <2>5. Published(reg, a, q)'
    BY <1>11, <2>3, <2>4, PublishedGrows
  <2> QED
    BY <2>2, <2>4, <2>5
<1> QED
  BY <1>6, <1>8, <1>9, <1>11, <1>12, <1>13, <1>14

HelpedKnow ==
    Types => \A reg, l : Helping(reg, l) /\ l.hop < node[l.hnode].op /\ Swung(l.hnode, l.hop) /\ l.pc = l.back
                            => Knows(reg, l)

LEMMA HelpedKnowsNext == HelpedKnow'
<1>1. HelpedKnow
  BY HelpedKnows DEF HelpedKnow
<1> QED
  BY <1>1, PTL

LEMMA CasClearKeeps ==
    ASSUME NEW reg, Good(reg), NEW t \in Threads, CasClear(t)
    PROVE  Good(reg)'
<1>1. PICK l : l = loc[t]
  OBVIOUS
<1>2. /\ Published(reg, l.hnode, l.hop) /\ Swung(l.hnode, l.hop) /\ l.pc = "casClear" /\ UNCHANGED held
      /\ Goto(t, l.back, <<>>) /\ Types /\ Tree(reg) /\ Pending(reg)
  BY <1>1, ThreadKnows DEF CasClear, At, Knows, Good
<1>3. PICK n, o : n = l.hnode /\ o = l.hop
  OBVIOUS
<1>4. IF node[n].op = o THEN Swing(n, op, Plain("NONE")) ELSE UNCHANGED <<node, op>>
  BY <1>1, <1>3 DEF CasClear
<1>5. PICK m : Went(t, m, l.back, <<>>)
  BY <1>2, GotoIs, NoLocals
<1>6. Helping(reg, m) /\ m.call = l.call /\ m.key = l.key /\ m.hnode = n /\ m.hop = o /\ m.back = l.back
  BY <1>1, <1>2, <1>3, <1>5, HelperGoesOn, NoLocals
<1>7. Goes(t, m) /\ m.pc = m.back /\ DOMAIN loc' = Threads
  BY <1>5, <1>6 DEF Went, Goes
<1>8. m.pc # "idle"
  BY <1>6, <1>7 DEF Helping, Back, InCall
<1>9. n \in DOMAIN node /\ o <= node[n].op /\ node[n].op \in Nat /\ o \in Nat /\ Swung(n, o)
  BY <1>2, <1>3, NodesAre DEF Published
<1>10. CASE node[n].op # o
  <2>1. o < node[n].op
    BY <1>9, <1>10
  <2>2. Knows(reg, m)
    BY <1>2, <1>6, <1>7, <1>9, <2>1, HelpedKnows
  <2> QED
    BY <1>1, <1>2, <1>4, <1>6, <1>7, <1>8, <1>10, <2>2, CallReads
<1>11. CASE node[n].op = o
  <2>1. Grows(reg, reg) /\ Types' /\ Tree(reg)' /\ Pending(reg)' /\ DOMAIN node' = DOMAIN node /\ o < node'[n].op
    BY <1>2, <1>4, <1>7, <1>9, <1>11, ClearsOp
  <2>2. Helping(reg, m)'
    BY <1>2, <1>6, <2>1, HelpingGrows
  <2>3. Swung(n, o)'
    BY <1>2, <1>3, <2>1, SwungGrows
  <2>5. Knows(reg, m)'
    BY <1>6, <1>7, <2>1, <2>2, <2>3, HelpedKnowsNext DEF HelpedKnow
  <2> QED
    BY <1>1, <1>2, <1>6, <1>7, <1>8, <2>1, <2>5, CallSteps
<1> QED
  BY <1>10, <1>11


-----------------------------------------------------------------------------
(* Adding. *)

LEMMA AddNodeKeeps ==
    ASSUME NEW reg, Good(reg), NEW t \in Threads, AddNode(t)
    PROVE  Good(reg)'
<1>1. PICK l : l = loc[t]
  OBVIOUS
<1>2. Knows(reg, l) /\ Types /\ l.pc = "add" /\ l.call = "add" /\ InAdd(l) /\ InCall(l) /\ UNCHANGED <<node, op>>
  BY <1>1, ThreadKnows DEF AddNode, At, Knows, InCall
<1>3. CASE l.result = "FOUND"
  <2>1. Return(t) /\ HasKey(l.key)
    BY <1>1, <1>2, <1>3 DEF AddNode, InAdd
  <2> QED
    BY <1>1, <1>2, <2>1, CallEnds
<1>4. CASE l.result # "FOUND"
  <2>1. PICK n \in DOMAIN node : LeadsTo(l.curr, n) /\ Free(l, n)
    BY <1>2, <1>4 DEF InAdd
  <2>2. Load(l.curr) = n /\ IsNode(n)
    BY <1>2, <2>1, LoadLeads DEF IsNode
  <2>3. Goto(t, "addChild", [tp |-> n]) /\ UNCHANGED held
    BY <1>1, <1>4, <2>2 DEF AddNode
  <2>4. PICK m : Went(t, m, "addChild", [tp |-> n])
    BY <2>3, GotoIs
  <2>5. InCall(m) /\ m.call = l.call /\ m.key = l.key
    BY <1>1, <1>2, <2>4, CallGoesOn
  <2>6. /\ Goes(t, m) /\ m.pc = "addChild" /\ m.tp = n /\ "tp" \in DOMAIN m /\ "pc" \in DOMAIN m
        /\ m.currOp = l.currOp /\ m.result = l.result
    BY <1>1, <1>2, <2>4 DEF Went, InCall, Fields
  <2>7. Free(m, n)
    BY <2>1, <2>5, <2>6 DEF Free, Belongs
  <2>8. Knows(reg, m)
    BY <1>2, <1>4, <2>5, <2>6, <2>7 DEF Knows, InCall, PCs
  <2> QED
    BY <1>1, <1>2, <2>3, <2>5, <2>6, <2>8, CallReads
<1> QED
  BY <1>3, <1>4

LEMMA AddChildKeeps ==
    ASSUME NEW reg, Good(reg), NEW t \in Threads, AddChild(t)
    PROVE  Good(reg)'
<1>1. PICK l : l = loc[t]
  OBVIOUS
<1>2. /\ Knows(reg, l) /\ Types /\ l.pc = "addChild" /\ l.call = "add" /\ l.result # "FOUND" /\ "tp" \in DOMAIN l
      /\ Free(l, l.tp) /\ InCall(l) /\ UNCHANGED <<node, op, held>>
  BY <1>1, ThreadKnows DEF AddChild, At, Knows, InCall
<1>3. PICK v : v = node[l.tp][Side(l.result = "NOTFOUND_L")]
  OBVIOUS
<1>4. Goto(t, "addCas", [old |-> v])
  BY <1>1, <1>3 DEF AddChild, Link, Side
<1>5. PICK m : Went(t, m, "addCas", [old |-> v])
  BY <1>4, GotoIs
<1>6. InCall(m) /\ m.call = l.call /\ m.key = l.key
  BY <1>1, <1>2, <1>5, CallGoesOn
<1>7. /\ Goes(t, m) /\ m.pc = "addCas" /\ m.tp = l.tp /\ m.old = v /\ {"tp", "old"} \subseteq DOMAIN m
      /\ "pc" \in DOMAIN m /\ m.currOp = l.currOp /\ m.result = l.result
  BY <1>1, <1>2, <1>5 DEF Went, InCall, Fields
<1>8. Free(m, m.tp)
  BY <1>2, <1>6, <1>7 DEF Free, Belongs
<1>9. m.currOp = node[m.tp].op => m.old = node[m.tp][SideOf(m.tp, m.key)]
  BY <1>3, <1>7, <1>8 DEF Free, Belongs, Side, SideOf
<1>10. Knows(reg, m)
  BY <1>2, <1>6, <1>7, <1>8, <1>9 DEF Knows, InAddCas, InCall, PCs
<1> QED
  BY <1>1, <1>2, <1>6, <1>7, <1>10, CallReads

LEMMA FinishKeeps ==
    ASSUME NEW reg, Good(reg), NEW t \in Threads, Finish(t)
    PROVE  Good(reg)'
<1>1. PICK l : l = loc[t]
  OBVIOUS
<1>2. Return(t) /\ UNCHANGED <<node, op>> /\ l.call = "add" /\ HasKey(l.key)
  BY <1>1, ThreadKnows DEF Finish, At, Knows
<1> QED
  BY <1>1, <1>2, CallEnds

\* Where every walk to a key goes through, the key has its place.
LEMMA KeyHasPlace ==
    ASSUME NEW reg, Types, Tree(reg), NEW k \in Int, NEW n \in DOMAIN node, On(n, k)
    PROVE  k \in reg[n]
<1>1. PICK S \in SUBSET DOMAIN node : S = {a \in DOMAIN node : k \in reg[a]}
  OBVIOUS
<1>2. 1 \in S
  BY <1>1 DEF Types, Tree
<1>3. ASSUME NEW a \in S, node[a].key # k, IsNode(NextTo(k, a))
      PROVE  NextTo(k, a) \in S
  <2>1. PICK s \in Sides : s = SideOf(a, k)
    BY SideOfIsASide
  <2>2. NextTo(k, a) = node[a][s] /\ a \in DOMAIN node /\ k \in reg[a] /\ node[a].key \in Int
    BY <1>1, <2>1, NodesAre DEF NextTo, SideOf
  <2>3. reg[node[a][s]] = Half(reg, a, s)
    BY <1>3, <2>2 DEF Tree
  <2>4. k \in Half(reg, a, s)
    BY <1>3, <2>1, <2>2 DEF Half, SideOf
  <2> QED
    BY <1>1, <1>3, <2>2, <2>3, <2>4 DEF IsNode
<1>4. WalkStaysIn(S, k)
  BY <1>2, <1>3 DEF WalkStaysIn
<1>5. n \in S
  BY <1>4 DEF On
<1> QED
  BY <1>1, <1>5

AddIsPublished(reg, n, k, b, c, e) ==
    \E reg2 : /\ Grows(reg, reg2) /\ Types' /\ Tree(reg2)' /\ Pending(reg2)' /\ Published(reg2, n, c)'
              /\ DOMAIN node' = DOMAIN node \cup {e} /\ node'[e].key = k
              /\ op'[c].isLeft = b /\ op'[c].update = e

\* The record c is at n and the new node e has a record of its own.
AddIsThere(n, k, v, b, c, e) ==
    /\ node' \in Seq(NodeRecords) /\ DOMAIN node' = DOMAIN node \cup {e}
    /\ op' \in Seq(OpRecords) /\ DOMAIN op' = DOMAIN op \cup {c, c + 1} /\ \A o \in DOMAIN op : op'[o] = op[o]
    /\ op'[c].type = "CHILDCAS" /\ op'[c].isLeft = b /\ op'[c].expected = v /\ op'[c].update = e
    /\ op'[c + 1].type = "NONE"
    /\ \A a \in DOMAIN node : node'[a].key = node[a].key /\ \A z \in Sides : node'[a][z] = node[a][z]
    /\ \A a \in DOMAIN node : a # n => node'[a].op = node[a].op
    /\ node'[n].op = c /\ node'[e].key = k /\ node'[e].op = c + 1 /\ \A z \in Sides : node'[e][z] = Nil

LEMMA AddAppends ==
    ASSUME Types, NEW n \in DOMAIN node, NEW k \in Keys, NEW v \in Nulls, NEW b \in BOOLEAN,
           NEW c, c = Len(op) + 1, NEW e, e = Len(node) + 1,
           NEW x, x = [key |-> k, op |-> c + 1, left |-> Nil, right |-> Nil],
           NEW y, y = [type |-> "CHILDCAS", isLeft |-> b, expected |-> v, update |-> e],
           node' = [Append(node, x) EXCEPT ![n].op = c], op' = op \o <<y, Plain("NONE")>>
    PROVE  AddIsThere(n, k, v, b, c, e)
<1>1. /\ DOMAIN node = 1 .. Len(node) /\ DOMAIN node \subseteq Nat \ {0} /\ Len(node) \in Nat
      /\ DOMAIN op = 1 .. Len(op) /\ Len(op) \in Nat /\ c \in Nat /\ e \in Nat /\ e \notin DOMAIN node
      /\ c \notin DOMAIN op
  <2>1. DOMAIN node = 1 .. Len(node) /\ DOMAIN op = 1 .. Len(op) /\ DOMAIN node \subseteq Nat \ {0}
    BY NodesAre
  <2>2. Len(node) \in Nat /\ Len(op) \in Nat
    BY LenProperties DEF Types
  <2> QED
    BY <2>1, <2>2
<1>2. k \in Int
  BY NullIsNoNode
<1>3. x \in NodeRecords /\ x.key = k /\ x.op = c + 1 /\ \A z \in Sides : x[z] = Nil
  BY <1>1, <1>2 DEF NodeRecords, Nulls, Sides
<1>4. /\ y \in OpRecords /\ y.type = "CHILDCAS" /\ y.isLeft = b /\ y.expected = v /\ y.update = e
      /\ Plain("NONE") \in OpRecords /\ Plain("NONE").type = "NONE"
  BY <1>1, <1>2 DEF OpRecords, Plain
<1>5. PICK r : r = [node[n] EXCEPT !.op = c]
  OBVIOUS
<1>6. r \in NodeRecords /\ r.key = node[n].key /\ r.op = c /\ \A z \in Sides : r[z] = node[n][z]
  BY <1>1, <1>5, NodesAre DEF NodeRecords, Sides
<1>7. /\ node' \in Seq(NodeRecords) /\ DOMAIN node' = DOMAIN node \cup {e} /\ node'[e] = x /\ node'[n] = r
      /\ \A a \in DOMAIN node : a # n => node'[a] = node[a]
  <2>1. node \in Seq(NodeRecords)
    BY DEF Types
  <2>2. PICK q : q = Append(node, x)
    OBVIOUS
  <2>3. q \in Seq(NodeRecords) /\ Len(q) = e /\ q[e] = x /\ \A a \in 1 .. Len(node) : q[a] = node[a]
    BY <1>3, <2>1, <2>2, AppendProperties
  <2>4. DOMAIN q = 1 .. e /\ n \in 1 .. Len(q) /\ e \in 1 .. Len(q) /\ n # e /\ q[n] = node[n]
    BY <1>1, <2>3, LenProperties
  <2>5. node' = [q EXCEPT ![n] = r]
    BY <1>5, <2>2, <2>4
  <2>6. [q EXCEPT ![n] = r] \in Seq(NodeRecords)
    BY <1>6, <2>3, <2>4, ExceptSeq
  <2>7. DOMAIN node' = 1 .. e
    BY <2>4, <2>5
  <2>8. node'[e] = x /\ node'[n] = r /\ \A a \in DOMAIN node : a # n => node'[a] = node[a]
    <3>1. \A a \in DOMAIN q : node'[a] = IF a = n THEN r ELSE q[a]
      BY <2>5
    <3>2. \A a \in DOMAIN node : a \in DOMAIN q /\ q[a] = node[a]
      BY <1>1, <2>3, <2>4
    <3> QED
      BY <2>3, <2>4, <3>1, <3>2
  <2>9. DOMAIN node' = DOMAIN node \cup {e}
    BY <1>1, <2>7
  <2> QED
    BY <2>5, <2>6, <2>8, <2>9
<1>8. /\ op' \in Seq(OpRecords) /\ DOMAIN op' = DOMAIN op \cup {c, c + 1} /\ op'[c] = y
      /\ op'[c + 1] = Plain("NONE") /\ \A o \in DOMAIN op : op'[o] = op[o]
  <2>1. op \in Seq(OpRecords) /\ op' = op \o <<y, Plain("NONE")>>
    BY DEF Types
  <2>2. PICK q : q = <<y, Plain("NONE")>>
    OBVIOUS
  <2>3. q \in Seq(OpRecords) /\ Len(q) = 2 /\ q[1] = y /\ q[2] = Plain("NONE")
    BY <1>4, <2>2
  <2>4. /\ op \o q \in Seq(OpRecords) /\ Len(op \o q) = Len(op) + 2
        /\ \A i \in 1 .. Len(op) + Len(q) : (op \o q)[i] = IF i <= Len(op) THEN op[i] ELSE q[i - Len(op)]
    <3>1. /\ op \o q \in Seq(OpRecords) /\ Len(op \o q) = Len(op) + Len(q)
          /\ \A i \in 1 .. Len(op) + Len(q) : (op \o q)[i] = IF i <= Len(op) THEN op[i] ELSE q[i - Len(op)]
      BY <2>1, <2>3, ConcatProperties
    <3> QED
      BY <2>3, <3>1
  <2>5. DOMAIN op' = 1 .. Len(op) + 2
    BY <2>1, <2>2, <2>4, LenProperties
  <2>6. DOMAIN op' = DOMAIN op \cup {c, c + 1}
    BY <1>1, <2>5
  <2>7. \A i \in 1 .. Len(op) + 2 : op'[i] = IF i <= Len(op) THEN op[i] ELSE q[i - Len(op)]
    BY <2>1, <2>2, <2>3, <2>4
  <2>8. op'[c] = y /\ op'[c + 1] = Plain("NONE")
    <3>1. c \in 1 .. Len(op) + 2 /\ c + 1 \in 1 .. Len(op) + 2 /\ c - Len(op) = 1 /\ c + 1 - Len(op) = 2
          /\ ~(c <= Len(op)) /\ ~(c + 1 <= Len(op))
      BY <1>1
    <3> QED
      BY <2>3, <2>7, <3>1
  <2>9. \A o \in DOMAIN op : op'[o] = op[o]
    BY <1>1, <2>7
  <2> QED
    BY <2>1, <2>2, <2>4, <2>6, <2>8, <2>9
<1>9. /\ \A a \in DOMAIN node : node'[a].key = node[a].key /\ \A z \in Sides : node'[a][z] = node[a][z]
      /\ \A a \in DOMAIN node : a # n => node'[a].op = node[a].op
      /\ node'[n].op = c /\ node'[e].key = k /\ node'[e].op = c + 1 /\ \A z \in Sides : node'[e][z] = Nil
  BY <1>3, <1>6, <1>7
<1> QED
  BY <1>4, <1>7, <1>8, <1>9 DEF AddIsThere

\* insert publishes its record at the node n, for a new node at the empty link on side s.
LEMMA PublishesAdd ==
    ASSUME NEW reg, Types, Tree(reg), Pending(reg), NEW n \in DOMAIN node, Flag(node[n].op) = "NONE",
           NEW k \in Keys, On(n, k), node[n].key # k, NEW s, s = SideOf(n, k), NEW v, v = node[n][s], ~IsNode(v),
           NEW b \in BOOLEAN, s = Side(b), NEW c, c = Len(op) + 1, NEW e, e = Len(node) + 1,
           AddIsThere(n, k, v, b, c, e), DOMAIN loc' = Threads
    PROVE  AddIsPublished(reg, n, k, b, c, e)
<1>1. /\ DOMAIN node = 1 .. Len(node) /\ DOMAIN node \subseteq Nat \ {0} /\ Len(node) \in Nat
      /\ DOMAIN op = 1 .. Len(op) /\ Len(op) \in Nat /\ c \in Nat /\ e \in Nat /\ e \notin DOMAIN node
      /\ c \notin DOMAIN op
  <2>1. DOMAIN node = 1 .. Len(node) /\ DOMAIN op = 1 .. Len(op) /\ DOMAIN node \subseteq Nat \ {0}
    BY NodesAre
  <2>2. Len(node) \in Nat /\ Len(op) \in Nat
    BY LenProperties DEF Types
  <2> QED
    BY <2>1, <2>2
<1>2. s \in Sides /\ v \in Nulls /\ k \in Int
  <2>1. s \in Sides
    BY SideOfIsASide
  <2>2. k \in Int
    BY NullIsNoNode
  <2> QED
    BY <2>1, <2>2 DEF Types, IsNode
<1>3. node' \in Seq(NodeRecords) /\ DOMAIN node' = DOMAIN node \cup {e}
  BY DEF AddIsThere
<1>4. /\ op' \in Seq(OpRecords) /\ DOMAIN op' = DOMAIN op \cup {c, c + 1} /\ \A o \in DOMAIN op : op'[o] = op[o]
      /\ op'[c].type = "CHILDCAS" /\ op'[c].isLeft = b /\ op'[c].expected = v /\ op'[c].update = e
      /\ op'[c + 1].type = "NONE"
  BY DEF AddIsThere
<1>5. /\ \A a \in DOMAIN node : node'[a].key = node[a].key /\ \A z \in Sides : node'[a][z] = node[a][z]
      /\ \A a \in DOMAIN node : a # n => node'[a].op = node[a].op
      /\ node'[n].op = c /\ node'[e].key = k /\ node'[e].op = c + 1 /\ \A z \in Sides : node'[e][z] = Nil
  BY DEF AddIsThere
<1>6. \A a \in DOMAIN node : GrowsAt(a)
  <2>1. node[n].op \in DOMAIN op /\ node[n].op < c
    BY <1>1, NodesAre
  <2> QED
    BY <1>1, <1>5, <2>1 DEF GrowsAt
<1>7. PICK reg2 : reg2 = [a \in DOMAIN node \cup {e} |-> IF a = e THEN Half(reg, n, s) ELSE reg[a]]
  OBVIOUS
<1>8. reg2[e] = Half(reg, n, s) /\ \A a \in DOMAIN node : reg2[a] = reg[a]
  BY <1>1, <1>7
<1>9. Grows(reg, reg2)
  BY <1>1, <1>3, <1>4, <1>6, <1>8 DEF Grows
<1>10. Types'
  <2>1. \A a \in DOMAIN node' : node'[a].op \in DOMAIN op'
    BY <1>3, <1>4, <1>5 DEF Types
  <2>2. \A a \in DOMAIN node' : a # 1 => node'[a].key \in Keys
    BY <1>3, <1>5 DEF Types
  <2>3. ASSUME NEW a \in DOMAIN node', NEW z \in Sides
        PROVE  node'[a][z] \in DOMAIN node' \cup Nulls
    <3>1. CASE a = e
      BY <1>5, <3>1 DEF Nulls
    <3>2. CASE a \in DOMAIN node
      BY <1>3, <1>5, <3>2 DEF Types
    <3> QED
      BY <1>3, <3>1, <3>2
  <2>4. 1 \in DOMAIN node' /\ node'[1].key = -1
    BY <1>3, <1>5 DEF Types
  <2> QED
    BY <1>3, <1>4, <2>1, <2>2, <2>3, <2>4 DEF Types
<1>11. \A a \in DOMAIN node : \A z : Half(reg2, a, z)' = Half(reg, a, z)
  BY <1>5, <1>8 DEF Half
<1>12. k \in Half(reg, n, s) /\ Half(reg, n, s) \subseteq Int
  <2>1. k \in reg[n] /\ reg[n] \subseteq Int /\ node[n].key \in Int
    BY <1>2, KeyHasPlace, NodesAre DEF Tree
  <2> QED
    BY <1>2, <2>1 DEF Half, SideOf
<1>13. Tree(reg2)'
  <2>1. ASSUME NEW a \in DOMAIN node'
        PROVE  reg2[a] \subseteq Int /\ node'[a].key \in reg2[a]
    <3>1. CASE a = e
      BY <1>5, <1>8, <1>12, <3>1
    <3>2. CASE a \in DOMAIN node
      BY <1>5, <1>8, <3>2 DEF Tree
    <3> QED
      BY <1>3, <3>1, <3>2
  <2>2. reg2[1] = Int
    BY <1>8 DEF Tree, Types
  <2>3. ASSUME NEW a \in DOMAIN node', NEW z \in Sides, IsNode(node[a][z])'
        PROVE  reg2[node'[a][z]] = Half(reg2, a, z)'
    <3>1. a # e
      <4>1. Nil \notin DOMAIN node'
        BY <1>1, <1>3, NullIsNoNode
      <4> QED
        BY <1>5, <2>3, <4>1 DEF IsNode
    <3>2. a \in DOMAIN node /\ node'[a][z] = node[a][z]
      BY <1>3, <1>5, <3>1
    <3>3. node[a][z] \in DOMAIN node
      <4>1. node[a][z] \in Nulls => node[a][z] \notin DOMAIN node'
        BY <1>1, <1>3, NullIsNoNode
      <4> QED
        BY <2>3, <3>2, <4>1 DEF Types, IsNode
    <3> QED
      BY <1>8, <1>11, <3>2, <3>3 DEF Tree, IsNode
  <2> QED
    BY <2>1, <2>2, <2>3 DEF Tree
<1>14. Published(reg2, n, c)'
  <2>1. n \in DOMAIN node' /\ c \in DOMAIN op' /\ c <= node'[n].op /\ op'[c].type = "CHILDCAS" /\ e \in DOMAIN node'
    BY <1>1, <1>3, <1>4, <1>5
  <2>2. reg2[e] = Half(reg2, n, s)'
    BY <1>8, <1>11
  <2>3. node'[n][s] = v
    BY <1>2, <1>5
  <2>4. /\ op'[c].update = e /\ op'[c].isLeft = b /\ op'[c].expected = v /\ node'[n].op = c
    BY <1>4, <1>5
  <2>5. Waits(n, c)'
    BY <2>3, <2>4 DEF Waits
  <2>6. Half(reg2, n, Side(op[c].isLeft))' = Half(reg2, n, s)'
    BY <2>4
  <2> QED
    BY <2>1, <2>2, <2>4, <2>5, <2>6 DEF Published, Flag
<1>15. Pending(reg2)'
  <2> SUFFICES ASSUME NEW a \in DOMAIN node', Flag(node[a].op)' # "NONE"
               PROVE  Published(reg2, a, node[a].op)'
    BY DEF Pending
  <2>1. a # e
    BY <1>4, <1>5 DEF Flag
  <2>2. CASE a = n
    BY <1>5, <1>14, <2>2
  <2>3. CASE a # n
    <3>1. a \in DOMAIN node /\ node'[a].op = node[a].op /\ node[a].op \in DOMAIN op
      BY <1>3, <1>5, <2>1, <2>3, NodesAre
    <3>2. Published(reg, a, node[a].op)
      BY <1>4, <3>1 DEF Pending, Flag
    <3>3. PICK q : q = node[a].op
      OBVIOUS
    <3>4. Published(reg2, a, q)'
      BY <1>9, <3>2, <3>3, PublishedGrows
    <3> QED
      BY <3>1, <3>3, <3>4
  <2> QED
    BY <2>2, <2>3
<1> QED
  BY <1>3, <1>4, <1>5, <1>9, <1>10, <1>13, <1>14, <1>15 DEF AddIsPublished


LEMMA AddCasKeeps ==
    ASSUME NEW reg, Good(reg), NEW t \in Threads, AddCas(t)
    PROVE  \E reg2 : Good(reg2)'
<1>1. PICK l : l = loc[t]
  OBVIOUS
<1>2. /\ Knows(reg, l) /\ Types /\ Tree(reg) /\ Pending(reg) /\ l.pc = "addCas" /\ l.call = "add"
      /\ l.result # "FOUND" /\ InAddCas(l) /\ InCall(l) /\ UNCHANGED held
  BY <1>1, ThreadKnows DEF AddCas, At, Knows, InCall, Good
<1>3. CASE node[l.tp].op # l.currOp
  <2>1. PICK g : g = StartFind(baseRoot, "add")
    OBVIOUS
  <2>2. /\ DOMAIN g = {"result", "auxRoot", "next", "then"} /\ g.result = "NOTFOUND_R"
        /\ g.auxRoot = baseRoot /\ g.next = baseRoot /\ g.then = "add"
    BY <2>1 DEF StartFind
  <2>3. Goto(t, "link", g) /\ UNCHANGED <<node, op>>
    BY <1>1, <1>3, <2>1 DEF AddCas
  <2>4. PICK m : Went(t, m, "link", g)
    BY <2>2, <2>3, GotoIs
  <2>5. /\ Goes(t, m) /\ m.pc = "link" /\ \A f \in DOMAIN g : f \in DOMAIN m /\ m[f] = g[f]
        /\ \A f \in DOMAIN l \ DOMAIN g : f \in DOMAIN m /\ (f # "pc" => m[f] = l[f])
    BY <1>1, <2>4 DEF Went
  <2>6. m.call = l.call /\ m.key = l.key /\ Fields \subseteq DOMAIN m
    BY <1>2, <2>2, <2>5 DEF InCall, Fields
  <2>7. m.result = "NOTFOUND_R" /\ m.auxRoot = baseRoot /\ m.next = baseRoot /\ m.then = "add"
    BY <2>2, <2>5
  <2>8. InCall(m) /\ "pc" \in DOMAIN m
    BY <1>2, <2>6, <2>7 DEF InCall, Fields
  <2>9. Knows(reg, m)
    BY <2>5, <2>7, <2>8 DEF Knows, InLink, InCall, PCs
  <2>10. Good(reg)'
    BY <1>1, <1>2, <2>3, <2>5, <2>6, <2>9, CallReads
  <2> QED
    BY <2>10
<1>4. CASE node[l.tp].op = l.currOp
  <2>1. PICK n, k : n = l.tp /\ k = l.key
    OBVIOUS
  <2>2. PICK s : s = SideOf(n, k)
    OBVIOUS
  <2>3. PICK b \in BOOLEAN : b = (l.result = "NOTFOUND_L")
    OBVIOUS
  <2>4. PICK c, e : c = Len(op) + 1 /\ e = Len(node) + 1
    OBVIOUS
  <2>5. PICK v : v = node[n][s]
    OBVIOUS
  <2>6. /\ Belongs(l, n) /\ Flag(node[n].op) = "NONE" /\ ~IsNode(v) /\ l.old = v
    BY <1>2, <1>4, <2>1, <2>2, <2>5 DEF InAddCas, Free
  <2>7. n \in DOMAIN node /\ On(n, k) /\ node[n].key # k /\ k \in Keys /\ (b <=> k < node[n].key) /\ s = Side(b)
    BY <1>2, <2>1, <2>2, <2>3, <2>6 DEF Belongs, Side, SideOf, InCall
  <2>8. PICK x, y : /\ x = [key |-> k, op |-> c + 1, left |-> Nil, right |-> Nil]
                    /\ y = [type |-> "CHILDCAS", isLeft |-> b, expected |-> v, update |-> e]
    OBVIOUS
  <2>9. c + 1 = Len(op) + 2
    <3>1. Len(op) \in Nat
      BY <1>2, LenProperties DEF Types
    <3> QED
      BY <2>4, <3>1
  <2>10. PICK g : g = [hop |-> c, hnode |-> n, back |-> "return"]
    OBVIOUS
  <2>11. /\ node' = [Append(node, x) EXCEPT ![n].op = c] /\ op' = op \o <<y, Plain("NONE")>> /\ Goto(t, "casLink", g)
    <3>1. x = [key |-> l.key, op |-> Len(op) + 2, left |-> Nil, right |-> Nil]
      BY <2>1, <2>8, <2>9
    <3>2. y = [type |-> "CHILDCAS", isLeft |-> l.result = "NOTFOUND_L", expected |-> l.old, update |-> Len(node) + 1]
      BY <2>3, <2>4, <2>6, <2>8
    <3> QED
      BY <1>1, <1>4, <2>1, <2>4, <2>10, <3>1, <3>2 DEF AddCas
  <2>12. PICK m : Went(t, m, "casLink", g)
    BY <2>10, <2>11, GotoIs
  <2>13. InCall(m) /\ m.call = l.call /\ m.key = l.key
    BY <1>1, <1>2, <2>10, <2>12, CallGoesOn
  <2>14. /\ Goes(t, m) /\ DOMAIN loc' = Threads /\ m.pc = "casLink" /\ "pc" \in DOMAIN m /\ HelpFields \subseteq DOMAIN m
         /\ m.hop = c /\ m.hnode = n /\ m.back = "return" /\ m.result = l.result
    BY <1>1, <1>2, <2>10, <2>12 DEF Went, Goes, InCall, Fields, HelpFields
  <2>15. PICK reg2 : /\ Grows(reg, reg2) /\ Types' /\ Tree(reg2)' /\ Pending(reg2)' /\ Published(reg2, n, c)'
                     /\ DOMAIN node' = DOMAIN node \cup {e} /\ node'[e].key = k
                     /\ op'[c].isLeft = b /\ op'[c].update = e
    <3>1. AddIsPublished(reg, n, k, b, c, e)
      <4>1. v \in Nulls
        BY <1>2, <2>2, <2>5, <2>6, <2>7, SideOfIsASide DEF Types, IsNode
      <4>2. AddIsThere(n, k, v, b, c, e)
        BY <1>2, <2>4, <2>7, <2>8, <2>11, <4>1, AddAppends
      <4> QED
        BY <1>2, <2>2, <2>4, <2>5, <2>6, <2>7, <2>14, <4>2, PublishesAdd
    <3> QED
      BY <3>1 DEF AddIsPublished
  <2>16. Belongs(m, n)
    BY <2>1, <2>6, <2>13, <2>14 DEF Belongs
  <2>17. Belongs(m, n)' /\ node'[n].key = node[n].key
    BY <1>2, <2>7, <2>15, <2>16, BelongsGrows DEF Grows, GrowsAt
  <2>18. Back(m)'
    BY <1>2, <2>1, <2>7, <2>13, <2>14, <2>15, <2>17 DEF Back
  <2>19. Knows(reg2, m)'
    BY <1>2, <2>13, <2>14, <2>15, <2>18 DEF Knows, InCall, PCs, baseRoot
  <2>20. \A a \in DOMAIN node' \ DOMAIN node : m.call = "add" /\ node'[a].key = m.key
    BY <1>2, <2>1, <2>13, <2>15
  <2>21. Good(reg2)'
    BY <1>1, <1>2, <2>13, <2>14, <2>15, <2>19, <2>20, CallSteps
  <2> QED
    BY <2>21
<1> QED
  BY <1>3, <1>4

-----------------------------------------------------------------------------
(* The theorems. *)

LEMMA WorkStays ==
    ASSUME WorkIs, Next
    PROVE  WorkIs' /\ work'.ops = work.ops /\ (NoDeletes' <=> NoDeletes)
<1>1. PICK t \in Threads : Step(t)
  BY DEF Next
<1>2. WorkIs' /\ work'.ops = work.ops
  <2>1. CASE work' = work
    BY <2>1 DEF WorkIs
  <2>2. CASE Call(t)
    <3>1. work' = [work EXCEPT !.first = <<>>, !.calls[t] = @ - 1] /\ work.calls[t] > 0 /\ <<>> \in Seq(Keys)
      BY <2>2 DEF Call
    <3>2. work.calls[t] \in Nat /\ work.calls[t] - 1 \in Nat
      BY <3>1 DEF WorkIs
    <3> QED
      BY <3>1, <3>2 DEF WorkIs
  <2> QED
    BY <1>1, <2>1, <2>2
       DEF Step, Prepare, FindLink, FindOp, FindKey, Find, HelpPred, CasLink, CasClear, MarkLeft, MarkSide, MarkCas,
           RelocState, RelocDest, RelocOld, RelocClaim, RelocWin, RelocLose, RelocFail, RelocKey, RelocClear,
           RelocMark, AddNode, AddChild, AddCas, Finish, DeleteNode, DeleteLeft, DeleteRight, DeleteMark,
           DeletePred, DeleteAbort, DeleteCheck, DeleteReplace, DeleteReplacePred, DeleteReplaceKey, DeleteCas, DeleteEnd
<1> QED
  BY <1>2 DEF NoDeletes

LEMMA NextKeeps ==
    ASSUME WorkIs, NoDeletes, NEW reg, Good(reg), Next
    PROVE  \E reg2 : Good(reg2)'
<1>1. PICK t \in Threads : Step(t)
  BY DEF Next
<1>2. loc[t].pc \in PCs
  BY DEF Good, Knows
<1>3. CASE Prepare(t)
  <2>1. PICK i \in DOMAIN work.first : Begin(t, "add", work.first[i])
    BY <1>3 DEF Prepare
  <2>2. work.first[i] \in Keys
    BY ElementOfSeq, LenProperties DEF WorkIs
  <2>3. Good(reg)'
    BY <2>1, <2>2, BeginKeeps
  <2> QED
    BY <2>3
<1>4. CASE Call(t)
  <2>1. PICK c \in work.ops[t], k \in work.keys[t] : Begin(t, c, k)
    BY <1>4 DEF Call
  <2>2. c \in {"add", "find"} /\ k \in Keys
    BY <2>1 DEF WorkIs, NoDeletes
  <2>3. Good(reg)'
    BY <2>1, <2>2, BeginKeeps
  <2> QED
    BY <2>3
<1>5. CASE FindLink(t) \/ FindOp(t) \/ FindKey(t) \/ Find(t)
  <2>1. Good(reg)'
    BY <1>5, FindLinkKeeps, FindOpAtRoot, FindOpBelow, FindKeyKeeps, FindKeeps
  <2> QED
    BY <2>1
<1>6. CASE HelpPred(t) \/ CasLink(t) \/ CasClear(t)
  <2>1. Good(reg)'
    BY <1>6, HelpPredKeeps, CasLinkKeeps, CasClearKeeps
  <2> QED
    BY <2>1
<1>7. CASE AddNode(t) \/ AddChild(t) \/ Finish(t)
  <2>1. Good(reg)'
    BY <1>7, AddNodeKeeps, AddChildKeeps, FinishKeeps
  <2> QED
    BY <2>1
<1>8. CASE AddCas(t)
  BY <1>8, AddCasKeeps
<1>9. ~(MarkLeft(t) \/ MarkSide(t) \/ MarkCas(t) \/ RelocState(t) \/ RelocDest(t) \/ RelocOld(t) \/ RelocClaim(t))
  BY <1>2 DEF PCs, At, MarkLeft, MarkSide, MarkCas, RelocState, RelocDest, RelocOld, RelocClaim
<1>10. ~(RelocWin(t) \/ RelocLose(t) \/ RelocFail(t) \/ RelocKey(t) \/ RelocClear(t) \/ RelocMark(t))
  BY <1>2 DEF PCs, At, RelocWin, RelocLose, RelocFail, RelocKey, RelocClear, RelocMark
<1>11. ~(DeleteNode(t) \/ DeleteLeft(t) \/ DeleteRight(t) \/ DeleteMark(t) \/ DeletePred(t) \/ DeleteAbort(t))
  BY <1>2 DEF PCs, At, DeleteNode, DeleteLeft, DeleteRight, DeleteMark, DeletePred, DeleteAbort
<1>12. ~(DeleteCheck(t) \/ DeleteReplace(t) \/ DeleteReplacePred(t) \/ DeleteReplaceKey(t) \/ DeleteCas(t)
         \/ DeleteEnd(t))
  BY <1>2 DEF PCs, At, DeleteCheck, DeleteReplace, DeleteReplacePred, DeleteReplaceKey, DeleteCas, DeleteEnd
<1> QED
  BY <1>1, <1>3, <1>4, <1>5, <1>6, <1>7, <1>8, <1>9, <1>10, <1>11, <1>12 DEF Step

LEMMA InitGood ==
    ASSUME Init
    PROVE  Inv
<1>1. WorkIs
  BY HelpingAssumption DEF Init, WorkIs
<1>2. PICK x : x = [key |-> -1, op |-> 1, left |-> NULL, right |-> NULL]
  OBVIOUS
<1>3. node = <<x>> /\ op = <<Plain("NONE")>> /\ loc = [t \in Threads |-> Idle] /\ held = {}
  BY <1>2 DEF Init
<1>4. x \in NodeRecords /\ x.key = -1 /\ x.op = 1 /\ \A z \in Sides : x[z] = NULL
  BY <1>2 DEF NodeRecords, Nulls, Sides
<1>5. Plain("NONE") \in OpRecords /\ Plain("NONE").type = "NONE"
  BY DEF Plain, OpRecords
<1>6. DOMAIN node = {1} /\ node[1] = x /\ DOMAIN op = {1} /\ op[1] = Plain("NONE")
  BY <1>3
<1>7. node \in Seq(NodeRecords) /\ op \in Seq(OpRecords)
  BY <1>3, <1>4, <1>5
<1>8. Types
  BY <1>3, <1>4, <1>6, <1>7 DEF Types, Nulls
<1>9. PICK reg : reg = [n \in {1} |-> Int]
  OBVIOUS
<1>10. Tree(reg) /\ Pending(reg)
  <2>1. \A z \in Sides : ~IsNode(node[1][z])
    BY <1>4, <1>6, NullIsNoNode DEF IsNode
  <2> QED
    BY <1>4, <1>5, <1>6, <1>9, <2>1 DEF Tree, Pending, Flag
<1>11. \A t \in Threads : Knows(reg, loc[t])
  BY <1>3 DEF Knows, Idle, PCs
<1>12. Good(reg)
  BY <1>3, <1>6, <1>8, <1>10, <1>11 DEF Good
<1> QED
  BY <1>1, <1>12 DEF Inv


\* bst_conc_nblocking4.c:128-474.  Between any two steps of any threads that add and look
\* up: the nodes have ordered places, a record that is at a node has a link that it has
\* swung or is still free for it, and every thread, also one that was overtaken long ago,
\* holds links and ops that the tree has only grown from.
THEOREM Invariance == Spec => []Inv
<1>1. Init => Inv
  BY InitGood
<1>2. Inv /\ [Next]_vars => Inv'
  <2> SUFFICES ASSUME Inv, [Next]_vars
               PROVE  Inv'
    OBVIOUS
  <2>1. CASE Next
    <3>1. WorkIs' /\ (NoDeletes' <=> NoDeletes)
      BY <2>1, WorkStays DEF Inv
    <3>2. ASSUME NoDeletes
          PROVE  \E reg : Good(reg)'
      <4>1. PICK reg : Good(reg)
        BY <3>2 DEF Inv
      <4> QED
        BY <2>1, <3>2, <4>1, NextKeeps DEF Inv
    <3>3. (\E reg : Good(reg)') => (\E reg : Good(reg))'
      OBVIOUS
    <3> QED
      BY <3>1, <3>2, <3>3 DEF Inv
  <2>2. CASE UNCHANGED vars
    <3>1. node' = node /\ op' = op /\ loc' = loc /\ work' = work /\ held' = held
      BY <2>2 DEF vars
    <3>2. WorkIs' /\ (NoDeletes' <=> NoDeletes)
      BY <3>1 DEF Inv, WorkIs, NoDeletes
    <3>3. ASSUME NEW reg, Good(reg)
          PROVE  Good(reg)'
      <4>1. Types' /\ Tree(reg)' /\ Pending(reg)' /\ Grows(reg, reg)
        <5>1. Types /\ Tree(reg) /\ Pending(reg)
          BY <3>3 DEF Good
        <5>2. Types'
          BY <3>1, <5>1 DEF Types
        <5>3. Tree(reg)'
          BY <3>1, <5>1 DEF Tree, Half, IsNode
        <5>4. Pending(reg)'
          BY <3>1, <5>1 DEF Pending, Published, Swung, Waits, Flag, Half
        <5>5. Grows(reg, reg)
          BY <3>1, <5>1, NodesAre DEF Grows, GrowsAt
        <5> QED
          BY <5>2, <5>3, <5>4, <5>5
      <4>2. Types
        BY <3>3 DEF Good
      <4>3. (\A t \in Threads : Knows(reg, loc[t]))'
        <5>1. ASSUME NEW t \in Threads
              PROVE  Knows(reg, loc[t])'
          <6>1. PICK m : m = loc[t]
            OBVIOUS
          <6>2. Knows(reg, m)'
            BY <3>3, <4>1, <4>2, <6>1, KnowsGrows DEF Good
          <6>3. m = loc'[t]
            BY <3>1, <6>1
          <6> QED
            BY <6>2, <6>3
        <5> QED
          BY <5>1
      <4>4. (\A k \in held : HasKey(k))'
        BY <3>1, <3>3, <4>1, <4>2, HasKeyGrows DEF Good
      <4>5. Adding' = Adding
        BY <3>1 DEF Adding
      <4>6. (\A n \in DOMAIN node : n # 1 => node[n].key \in held \cup Adding)'
        BY <3>1, <3>3, <4>5 DEF Good
      <4> QED
        BY <4>1, <4>3, <4>4, <4>6 DEF Good
    <3> QED
      BY <3>2, <3>3 DEF Inv
  <2> QED
    BY <2>1, <2>2
<1> QED
  BY <1>1, <1>2, PTL DEF Spec

\* bst_conc_nblocking4.c:128-304.  However many threads add, and whoever of them carries
\* an operation out, and however late, the links make one search tree below the root.
THEOREM StaysSearchTree == Spec => [](NoDeletes => SearchTree)
<1>1. Inv => (NoDeletes => SearchTree)
  <2> SUFFICES ASSUME Inv, NoDeletes
               PROVE  SearchTree
    OBVIOUS
  <2>1. PICK reg : Types /\ Tree(reg)
    BY DEF Inv, Good
  <2>2. PICK S \in SUBSET DOMAIN node : S = DOMAIN node
    OBVIOUS
  <2>3. 1 \in S /\ Closed(S)
    BY <2>1, <2>2 DEF Types, Closed
  <2>4. ASSUME NEW n \in S, NEW s \in Sides
        PROVE  \E C \in SUBSET S :
                  /\ Closed(C) /\ (IsNode(node[n][s]) => node[n][s] \in C)
                  /\ \A m \in C : node[m].key \in Half(reg, n, s)
    <3>1. PICK C \in SUBSET S : C = {m \in S : reg[m] \subseteq Half(reg, n, s)}
      OBVIOUS
    <3>2. \A m \in C : node[m].key \in Half(reg, n, s)
      BY <2>1, <2>2, <3>1 DEF Tree
    <3>3. IsNode(node[n][s]) => node[n][s] \in C
      BY <2>1, <2>2, <3>1 DEF Tree, IsNode
    <3>4. ASSUME NEW m \in C, NEW z \in Sides, node[m][z] \in DOMAIN node
          PROVE  node[m][z] \in C
      <4>1. reg[node[m][z]] = Half(reg, m, z)
        BY <2>1, <2>2, <3>1, <3>4 DEF Tree, IsNode
      <4>2. Half(reg, m, z) \subseteq reg[m]
        BY DEF Half
      <4> QED
        BY <2>2, <3>1, <3>4, <4>1, <4>2
    <3>5. Closed(C)
      BY <3>4 DEF Closed, Sides
    <3> QED
      BY <3>2, <3>3, <3>5
  <2>5. ASSUME NEW n \in S
        PROVE  InOrder(n, S)
    <3>1. PICK L \in SUBSET S :
             /\ Closed(L) /\ (IsNode(node[n].left) => node[n].left \in L)
             /\ \A m \in L : node[m].key \in Half(reg, n, "left")
      <4>1. "left" \in Sides
        BY DEF Sides
      <4> QED
        BY <2>4, <4>1
    <3>2. PICK R \in SUBSET S :
             /\ Closed(R) /\ (IsNode(node[n].right) => node[n].right \in R)
             /\ \A m \in R : node[m].key \in Half(reg, n, "right")
      <4>1. "right" \in Sides
        BY DEF Sides
      <4> QED
        BY <2>4, <4>1
    <3>3. \A m \in L : node[m].key < node[n].key
      BY <3>1 DEF Half
    <3>4. \A m \in R : node[m].key > node[n].key
      BY <3>2 DEF Half
    <3> QED
      BY <3>1, <3>2, <3>3, <3>4 DEF InOrder
  <2> QED
    BY <2>2, <2>3, <2>5 DEF SearchTree
<1> QED
  BY <1>1, Invariance, PTL

\* bst_conc_nblocking4.c:394-474, "insert {%d} done".  While no thread deletes, a walk
\* finds every key whose add has returned: no record that is helped late, no second add
\* at the same link takes its node out again.
THEOREM AddsStay == Spec => []AddsKept
<1>1. Inv => AddsKept
  <2> SUFFICES ASSUME Inv, NoDeletes, NEW k \in held
               PROVE  Present(k)
    BY DEF AddsKept
  <2>1. HasKey(k)
    BY DEF Inv, Good
  <2>2. PICK n \in DOMAIN node : node[n].key = k /\ On(n, k)
    BY <2>1 DEF HasKey
  <2> QED
    BY <2>2 DEF Present, On
<1> QED
  BY <1>1, Invariance, PTL

\* bst_conc_nblocking4.c:370-392.  A search that says FOUND has met a key that was added
\* or whose add has begun; here no delete that ends meanwhile may excuse it.
THEOREM FoundStaysTrue ==
    Spec => [](NoDeletes => /\ FoundIsTrue
                            /\ \A t \in Threads : At(t, "find") /\ loc[t].result = "FOUND" =>
                                  loc[t].key \in held \cup Adding)
<1>1. Inv => (NoDeletes => /\ FoundIsTrue
                           /\ \A t \in Threads : At(t, "find") /\ loc[t].result = "FOUND" =>
                                 loc[t].key \in held \cup Adding)
  <2> SUFFICES ASSUME Inv, NoDeletes, NEW t \in Threads, At(t, "find"), loc[t].result = "FOUND"
               PROVE  loc[t].key \in held \cup Adding
    BY DEF FoundIsTrue
  <2>1. PICK reg : Good(reg)
    BY DEF Inv
  <2>2. PICK l : l = loc[t]
    OBVIOUS
  <2>3. HasKey(l.key) /\ l.key \in Keys
    BY <2>1, <2>2, ThreadKnows DEF Knows, At
  <2>4. PICK n \in DOMAIN node : node[n].key = l.key
    BY <2>3 DEF HasKey
  <2>5. n # 1
    BY <2>1, <2>3, <2>4, NullIsNoNode DEF Good, Types
  <2> QED
    BY <2>1, <2>2, <2>4, <2>5 DEF Good
<1> QED
  BY <1>1, Invariance, PTL

\* bst_conc_nblocking4.c:128-304, :406.  While no thread deletes, no thread reads through
\* NULL: the root's right link is never empty where find would take it for a node, and
\* the link that insert reads again after find leads to a node.
THEOREM NeverCrashes == Spec => [](NoDeletes => NoCrash)
<1>1. Inv => (NoDeletes => NoCrash)
  BY DEF Inv, Good, Knows, PCs, NoCrash
<1> QED
  BY <1>1, Invariance, PTL

=============================================================================
