---------------------------- MODULE MemMgrProofs ----------------------------
(***************************************************************************)
(* For every size of words, pages, big blocks and heap, whatever the       *)
(* client asks for and wherever mmap puts it, the blocks of malloc.c do    *)
(* not overlap, its free lists stay whole, and try_pre_fill adds to a list *)
(* what it says.                                                           *)
(*                                                                         *)
(* The argument: there is a set of blocks, each with bytes of its own that *)
(* its size word is among, and every block of the client's and of the      *)
(* lists is in it.  Only new pages add blocks and only munmap takes one    *)
(* away; malloc and free of a small block leave the set as it is.  So a    *)
(* write by the client, or into the link of a free block, cannot reach the *)
(* size word or the link of another.  The blocks of a list are numbered,   *)
(* which makes a step's effect on it a shift of the numbers.               *)
(***************************************************************************)
EXTENDS MemMgr, FiniteSetTheorems, WellFoundedInduction, TLAPS

-----------------------------------------------------------------------------
(* Arithmetic. *)

LEMMA DivBounds ==
    ASSUME NEW a \in Nat, NEW d \in Nat \ {0}, NEW q, q = a \div d, NEW r, r = a % d
    PROVE  q \in Nat /\ r \in 0 .. d - 1 /\ a = q * d + r
<1>1. r \in 0 .. d - 1 /\ q \in Nat
  OBVIOUS
<1>2. a = q * d + r
  OBVIOUS
<1> QED
  BY <1>1, <1>2

LEMMA DivUnique ==
    ASSUME NEW a \in Nat, NEW d \in Nat \ {0}, NEW q \in Nat, q * d <= a, a < q * d + d
    PROVE  a \div d = q
  OBVIOUS

LEMMA Multiple ==
    ASSUME NEW a \in Nat, NEW d \in Nat \ {0}, a % d = 0
    PROVE  \E k \in Nat : a = k * d
<1>1. PICK q, r : q = a \div d /\ r = a % d
  OBVIOUS
<1>2. q \in Nat /\ a = q * d + r
  BY <1>1, DivBounds
<1>3. \A x \in Nat : x + 0 = x
  OBVIOUS
<1>4. q * d \in Nat
  BY <1>2
<1> QED
  BY <1>1, <1>2, <1>3, <1>4

LEMMA ModOfMultiple ==
    ASSUME NEW k \in Nat, NEW d \in Nat \ {0}, NEW r \in 0 .. d - 1
    PROVE  (k * d + r) % d = r
  OBVIOUS

LEMMA MulStep ==
    ASSUME NEW i \in Nat, NEW j \in Nat, NEW d \in Nat, i < j
    PROVE  i * d + d <= j * d
  OBVIOUS

-----------------------------------------------------------------------------
(* Induction, for which the numbers with a property are a set. *)

LEMMA LeastNat ==
    ASSUME NEW T, T \subseteq Nat, T # {}
    PROVE  \E x \in T : \A y \in T : ~(y < x)
<1>1. \E x \in T : \A y \in T : ~(<<y, x>> \in OpToRel(<, Nat))
  BY NatLessThanWellFounded, WFMin, Zenon
<1> QED
  BY <1>1 DEF OpToRel

LEMMA SetInduction ==
    ASSUME NEW S, 0 \in S, \A n \in Nat : n \in S => n + 1 \in S
    PROVE  Nat \subseteq S
<1> SUFFICES ASSUME Nat \ S # {} PROVE FALSE
  OBVIOUS
<1>1. Nat \ S \subseteq Nat
  OBVIOUS
<1>2. PICK x \in Nat \ S : \A y \in Nat \ S : ~(y < x)
  BY <1>1, LeastNat
<1>3. x - 1 \in Nat /\ x - 1 \notin Nat \ S
  BY <1>2
<1>4. (x - 1) + 1 \in S
  BY <1>3
<1> QED
  BY <1>2, <1>4

\* A walk is what its links say.
LEMMA WalkIs ==
    ASSUME NEW p, NEW at, at \in [Nat -> Int], at[0] = p, \A i \in Nat : at[i + 1] = Link(at[i])
    PROVE  Walk(p) = at
<1> DEFINE Def(f) == f = [i \in Nat |-> IF i = 0 THEN p ELSE Link(f[i - 1])]
           w == CHOOSE f : Def(f)
<1>1. Def(at)
  <2>1. ASSUME NEW i \in Nat PROVE at[i] = IF i = 0 THEN p ELSE Link(at[i - 1])
    <3>1. CASE i = 0
      BY <3>1
    <3>2. CASE i # 0
      <4>1. i - 1 \in Nat /\ (i - 1) + 1 = i
        BY <3>2
      <4>2. at[(i - 1) + 1] = Link(at[i - 1])
        BY <4>1
      <4> QED
        BY <3>2, <4>1, <4>2
    <3> QED
      BY <3>1, <3>2
  <2>2. at = [i \in Nat |-> at[i]]
    OBVIOUS
  <2> QED
    BY <2>1, <2>2
<1>2. Def(w)
  BY <1>1
<1>3. Walk(p) = w
  BY DEF Walk
<1>4. w[0] = p /\ (\A i \in Nat : w[i + 1] = Link(w[i])) /\ w = [i \in Nat |-> w[i]]
  <2> HIDE DEF w
  <2>1. w = [i \in Nat |-> IF i = 0 THEN p ELSE Link(w[i - 1])]
    BY <1>2
  <2>2. w[0] = p
    BY <2>1
  <2>3. ASSUME NEW i \in Nat PROVE w[i + 1] = Link(w[i])
    <3>1. i + 1 \in Nat /\ i + 1 # 0 /\ (i + 1) - 1 = i
      OBVIOUS
    <3> QED
      BY <2>1, <3>1
  <2> QED
    BY <2>1, <2>2, <2>3
<1> HIDE DEF w
<1> DEFINE S == {i \in Nat : w[i] = at[i]}
<1>5. 0 \in S /\ \A i \in Nat : i \in S => i + 1 \in S
  <2>1. w[0] = at[0]
    BY <1>4
  <2>2. ASSUME NEW i \in Nat, w[i] = at[i] PROVE i + 1 \in Nat /\ w[i + 1] = at[i + 1]
    <3>1. w[i + 1] = Link(w[i]) /\ at[i + 1] = Link(at[i])
      BY <1>4
    <3> QED
      BY <2>2, <3>1
  <2> QED
    BY <2>1, <2>2
<1> HIDE DEF S
<1>6. Nat \subseteq S
  BY <1>5, SetInduction
<1>7. \A i \in Nat : w[i] = at[i]
  BY <1>6 DEF S
<1>8. at = [i \in Nat |-> at[i]]
  OBVIOUS
<1>9. w = [i \in Nat |-> w[i]]
  BY <1>4
<1>10. w = at
  BY <1>7, <1>8, <1>9
<1> QED
  BY <1>3, <1>10

-----------------------------------------------------------------------------
(* Sizes, bins and pages. *)

U       == WORD * ALIGN
Bins    == 0 .. BINS - 1
Page(a) == a - (a % PAGE)

LEMMA Constants ==
    /\ WORD \in Nat \ {0} /\ U \in Nat \ {0} /\ U = WORD + WORD /\ WASTE = WORD /\ ALIGN = 2
    /\ BINS \in Nat \ {0} /\ PAGE \in Nat \ {0} /\ HEAP \in Nat /\ SIZES \in Nat
    /\ BIGBLOCK \in Nat /\ PAGE % U = 0 /\ HEAP % PAGE = 0
    /\ WORD + BINS * U <= BIGBLOCK /\ HEAP + U <= SIZES
<1>1. WORD \in Nat \ {0} /\ U = WORD + WORD /\ WASTE = WORD
  BY MemMgrAssumption DEF U, WASTE
<1>2. BINS * U = BINS * ALIGN * WORD
  BY MemMgrAssumption DEF U
<1> QED
  BY <1>1, <1>2, MemMgrAssumption DEF U

LEMMA BinSizes ==
    ASSUME NEW b \in Bins
    PROVE  /\ b \in Nat /\ bin2size(b) \in Nat /\ bin2size(b) = b * U + WORD
           /\ bin2size(b) + WORD \in Nat \ {0} /\ bin2size(b) + WORD = (b + 1) * U
           /\ WORD <= bin2size(b) /\ bin2size(b) <= MaxSmall
           /\ size2bin(bin2size(b)) = b
           /\ WASTE + bin2size(b) + WORD <= BIGBLOCK
<1> USE Constants
<1>1. b \in Nat /\ b <= BINS - 1
  BY DEF Bins
<1>2. bin2size(b) = b * U + WORD
  BY <1>1 DEF bin2size, U
<1>3. MaxSmall = (BINS - 1) * U + WORD
  BY DEF bin2size, U, MaxSmall
<1>4. b * U \in Nat /\ b * U <= (BINS - 1) * U
  BY <1>1
<1>5. (BINS - 1) * U + U = BINS * U
  OBVIOUS
<1>6. bin2size(b) + WORD = (b + 1) * U
  BY <1>1, <1>2
<1>7. size2bin(bin2size(b)) = b
  <2>1. bin2size(b) + (WORD * (ALIGN - 1) - 1) = b * U + (U - 1)
    BY <1>2, <1>4
  <2>2. (b * U + (U - 1)) \div U = b
    BY <1>1, <1>4, DivUnique
  <2> QED
    BY <2>1, <2>2 DEF size2bin, U
<1>8. (BINS - 1) * U \in Nat
  OBVIOUS
<1> QED
  BY <1>1, <1>2, <1>3, <1>4, <1>5, <1>6, <1>7, <1>8

\* A block of a request's bin is large enough.
LEMMA BinOfRequest ==
    ASSUME NEW n \in Nat, n <= MaxSmall
    PROVE  size2bin(n) \in Bins /\ n <= bin2size(size2bin(n))
<1> USE Constants
<1>1. MaxSmall = (BINS - 1) * U + WORD
  BY DEF bin2size, U, MaxSmall
<1>2. PICK a : a = n + (WORD * (ALIGN - 1) - 1)
  OBVIOUS
<1>3. a \in Nat /\ a = n + WORD - 1
  BY <1>2
<1>4. PICK q, r : q = a \div U /\ r = a % U
  OBVIOUS
<1>5. q \in Nat /\ r \in 0 .. U - 1 /\ a = q * U + r
  <2> HIDE Constants
  <2>1. U \in Nat \ {0}
    BY Constants
  <2> QED
    BY <1>3, <1>4, <2>1, DivBounds
<1>6. q \in Bins
  <2>1. (BINS - 1) * U + U = BINS * U
    OBVIOUS
  <2>2. q * U < BINS * U
    BY <1>1, <1>3, <1>5, <2>1
  <2>3. q < BINS
    BY <1>5, <2>2
  <2> QED
    BY <1>5, <2>3 DEF Bins
<1>7. size2bin(n) = q
  BY <1>2, <1>4 DEF size2bin, U
<1>8. bin2size(q) = q * U + WORD
  BY <1>6, BinSizes
<1> QED
  BY <1>3, <1>5, <1>6, <1>7, <1>8

LEMMA PageOf ==
    ASSUME NEW a \in Nat
    PROVE  /\ Page(a) \in Nat /\ Page(a) <= a /\ a < Page(a) + PAGE /\ Page(a) % PAGE = 0
<1>0. PAGE \in Nat \ {0}
  BY Constants
<1>1. PICK q, r : q = a \div PAGE /\ r = a % PAGE
  OBVIOUS
<1>2. q \in Nat /\ r \in 0 .. PAGE - 1 /\ a = q * PAGE + r
  <2>1. \A d \in Nat \ {0} : q = a \div d /\ r = a % d =>
            q \in Nat /\ r \in 0 .. d - 1 /\ a = q * d + r
    BY DivBounds
  <2> QED
    BY <1>0, <1>1, <2>1
<1>3. Page(a) = q * PAGE + 0
  <2>1. Page(a) = a - r
    BY <1>1 DEF Page
  <2>2. PICK x \in Nat : x = q * PAGE
    BY <1>0, <1>2
  <2>3. a - r = x + 0
    BY <1>2, <2>2
  <2> QED
    BY <2>1, <2>2, <2>3
<1>4. (q * PAGE + 0) % PAGE = 0
  BY <1>0, <1>2, ModOfMultiple
<1>5. q * PAGE \in Nat
  BY <1>0, <1>2
<1> QED
  BY <1>0, <1>2, <1>3, <1>4, <1>5

\* mmap takes every page it needs.
LEMMA Covers ==
    ASSUME NEW q \in Nat, NEW len \in Nat, q + len <= HEAP, NEW a \in q .. q + len - 1
    PROVE  a \in 0 .. HEAP - 1 /\ Page(a) \in Over(q, len)
<1>1. a \in Nat /\ a < HEAP
  BY Constants
<1>2. Page(a) \in Nat /\ Page(a) <= a /\ a < Page(a) + PAGE /\ Page(a) % PAGE = 0
  BY <1>1, PageOf
<1>3. HEAP \in Nat /\ PAGE \in Nat
  BY Constants
<1> QED
  BY <1>1, <1>2, <1>3 DEF Over, Pages

-----------------------------------------------------------------------------
(* The inductive invariant.  Its parts are about a memory m, and pages mp  *)
(* that are mapped, so as to speak of what a step has done halfway.        *)

Words == {w \in 0 .. HEAP - 1 : w % WORD = 0}

\* The bytes of the block at p, whose size word is s.
Region(p, s) ==
    IF s <= MaxSmall
    THEN (p - WORD) .. (p + s - 1)
    ELSE {a \in 0 .. HEAP - 1 : Page(a) \in Over(p - U, LargeLength(s))}

BlockOK(m, mp, p) ==
    /\ p \in Nat /\ \E k \in Nat \ {0} : p = k * U
    /\ p - WORD \in Words /\ m[p - WORD] \in Nat
    /\ p - WORD \in Region(p, m[p - WORD])
    /\ \A a \in Region(p, m[p - WORD]) : a \in 0 .. HEAP - 1 /\ Page(a) \in mp
    /\ m[p - WORD] <= MaxSmall => \E b \in Bins : m[p - WORD] = bin2size(b)
    /\ m[p - WORD] > MaxSmall => p - U \in Nat /\ p - U + LargeLength(m[p - WORD]) <= HEAP

\* H is a set of blocks that do not overlap.
HeapOK(m, mp, H) ==
    /\ \A p \in H : BlockOK(m, mp, p)
    /\ \A p, q \in H : p # q => Region(p, m[p - WORD]) \cap Region(q, m[q - WORD]) = {}

\* From p, the links lead to the len blocks at[0], at[1] and so on, all of size s.
ListOK(m, H, p, s, at, len) ==
    /\ at[0] = p
    /\ \A i \in 0 .. len - 1 :
          /\ at[i] \in H /\ m[at[i] - WORD] = s /\ m[at[i]] = at[i + 1]
          /\ \A j \in 0 .. len - 1 : at[i] = at[j] => i = j
    /\ \A i \in Nat : i >= len => at[i] = NULL

\* The client's blocks are among those of H.
ClientOK(m, H, blocks) ==
    /\ \A l \in blocks :
          /\ l.p \in H /\ l.n <= m[l.p - WORD]
          /\ m[l.p - WORD] > MaxSmall => m[l.p - WORD] = l.n
    /\ \A k, l \in blocks : k.p = l.p => k = l

\* None of the client's is on a list.
Lent(blocks, at, len) == \A l \in blocks : \A i \in 0 .. len - 1 : at[i] # l.p

\* All of it, with bn the first blocks of the lists.
Layout(m, mp, bn, blocks, H, at, len) ==
    /\ HeapOK(m, mp, H)
    /\ ClientOK(m, H, blocks)
    /\ \A b \in Bins : /\ ListOK(m, H, bn[b], bin2size(b), at[b], len[b])
                       /\ Lent(blocks, at[b], len[b])

TypeOK ==
    /\ mem \in [Words -> Int]
    /\ bin \in [Bins -> Int]
    /\ live \in SUBSET [p : Nat, n : Nat]
    /\ call \in [b : Bins, req : Nat, ful : 0 .. INT_MAX, old : Int]

Lists == [Bins -> [Nat -> Int]]

Inv ==
    /\ TypeOK
    /\ \E H \in SUBSET Nat, at \in Lists, len \in [Bins -> Nat] :
          /\ Layout(mem, mapped, bin, live, H, at, len)
          /\ call # Idle => call.ful <= len[call.b] /\ at[call.b][call.ful] = call.old

-----------------------------------------------------------------------------

LEMMA InitInv == Init => Inv
<1> SUFFICES ASSUME Init PROVE Inv
  OBVIOUS
<1> DEFINE at == [b \in Bins |-> [i \in Nat |-> NULL]]
           len == [b \in Bins |-> 0]
<1>1. TypeOK
  <2>1. 0 \in Bins
    BY Constants DEF Bins
  <2>2. 0 \in 0 .. INT_MAX
    BY MemMgrAssumption
  <2> QED
    BY <2>1, <2>2 DEF Init, TypeOK, Words, Bins, Idle, NULL
<1>2. at \in Lists /\ len \in [Bins -> Nat]
  BY DEF Lists, NULL
<1>3. HeapOK(mem, mapped, {}) /\ ClientOK(mem, {}, live)
  BY DEF HeapOK, ClientOK, Init
<1>4. ASSUME NEW b \in Bins
      PROVE  ListOK(mem, {}, bin[b], bin2size(b), at[b], len[b]) /\ Lent(live, at[b], len[b])
  <2>1. bin[b] = NULL /\ at[b] = [i \in Nat |-> NULL] /\ len[b] = 0 /\ live = {}
    BY DEF Init, Bins
  <2> HIDE DEF at, len
  <2> QED
    BY <2>1 DEF ListOK, Lent
<1>5. call = Idle /\ {} \in SUBSET Nat
  BY DEF Init
<1> HIDE DEF at, len
<1> QED
  BY <1>1, <1>2, <1>3, <1>4, <1>5 DEF Inv, Layout

\* A small block has a link and as much data as its size says, in words of its own.
LEMMA SmallBlock ==
    ASSUME NEW m, NEW mp, NEW p, BlockOK(m, mp, p), NEW b \in Bins, m[p - WORD] = bin2size(b)
    PROVE  /\ Region(p, m[p - WORD]) = (p - WORD) .. (p + bin2size(b) - 1)
           /\ p \in Region(p, m[p - WORD]) /\ p \in Words /\ p # NULL
<1>1. bin2size(b) \in Nat /\ WORD <= bin2size(b) /\ bin2size(b) <= MaxSmall
  BY BinSizes
<1>2. Region(p, m[p - WORD]) = (p - WORD) .. (p + bin2size(b) - 1)
  BY <1>1 DEF Region
<1>3. p \in Nat /\ p \in Region(p, m[p - WORD]) /\ p \in 0 .. HEAP - 1
  <2>1. p \in Nat /\ WORD \in Nat \ {0}
    BY Constants DEF BlockOK
  <2>2. p \in Region(p, m[p - WORD])
    BY <1>1, <1>2, <2>1
  <2> QED
    BY <2>1, <2>2 DEF BlockOK
<1>4. PICK k \in Nat \ {0} : p = k * U
  BY DEF BlockOK
<1>5. p % WORD = 0 /\ p # 0
  <2>1. WORD \in Nat \ {0} /\ U = 2 * WORD
    BY Constants
  <2>2. k + k \in Nat /\ k * U = (k + k) * WORD + 0
    BY <2>1
  <2>3. ((k + k) * WORD + 0) % WORD = 0
    BY <2>1, <2>2, ModOfMultiple
  <2>4. k * U # 0
    BY <2>1
  <2> QED
    BY <1>4, <2>2, <2>3, <2>4
<1> QED
  BY <1>2, <1>3, <1>5 DEF Words, NULL

\* A block stays as it is if its size word does and its pages stay mapped.
LEMMA HeapStays ==
    ASSUME NEW m, NEW m2, NEW mp, NEW mp2, NEW H, HeapOK(m, mp, H),
           \A p \in H : m2[p - WORD] = m[p - WORD],
           \A p \in H : \A a \in Region(p, m[p - WORD]) :
              a \in 0 .. HEAP - 1 /\ Page(a) \in mp => Page(a) \in mp2
    PROVE  HeapOK(m2, mp2, H)
<1>1. ASSUME NEW p \in H PROVE BlockOK(m2, mp2, p)
  <2>1. BlockOK(m, mp, p) /\ m2[p - WORD] = m[p - WORD]
    BY DEF HeapOK
  <2>2. \A a \in Region(p, m[p - WORD]) : a \in 0 .. HEAP - 1 /\ Page(a) \in mp2
    BY <2>1 DEF BlockOK
  <2> QED
    BY <2>1, <2>2 DEF BlockOK
<1> QED
  BY <1>1 DEF HeapOK

\* A list stays as it is if the words of its blocks do.
LEMMA ListStays ==
    ASSUME NEW m, NEW m2, NEW H, NEW H2, NEW p, NEW s, NEW at, NEW len, ListOK(m, H, p, s, at, len),
           \A i \in 0 .. len - 1 :
              at[i] \in H2 /\ m2[at[i] - WORD] = m[at[i] - WORD] /\ m2[at[i]] = m[at[i]]
    PROVE  ListOK(m2, H2, p, s, at, len)
  BY DEF ListOK

LEMMA FreeBlock ==
    ASSUME NEW m, NEW mp, NEW H, HeapOK(m, mp, H), NEW b \in Bins,
           NEW p, NEW at, NEW len, ListOK(m, H, p, bin2size(b), at, len), NEW i \in 0 .. len - 1
    PROVE  /\ at[i] \in H /\ m[at[i] - WORD] = bin2size(b) /\ BlockOK(m, mp, at[i])
           /\ at[i] \in Region(at[i], m[at[i] - WORD]) /\ at[i] \in Words /\ at[i] # NULL
<1>1. at[i] \in H /\ m[at[i] - WORD] = bin2size(b)
  BY DEF ListOK
<1>2. BlockOK(m, mp, at[i])
  BY <1>1 DEF HeapOK
<1> QED
  BY <1>1, <1>2, SmallBlock

\* Blocks of two bins have different sizes.
LEMMA SizesDiffer ==
    ASSUME NEW b \in Bins, NEW c \in Bins, bin2size(b) = bin2size(c)
    PROVE  b = c
<1>1. size2bin(bin2size(b)) = b
  BY BinSizes
<1>2. size2bin(bin2size(c)) = c
  BY BinSizes
<1> QED
  BY <1>1, <1>2

-----------------------------------------------------------------------------
(* A block is taken off a list. *)

Pop(f) == [i \in Nat |-> f[i + 1]]

LEMMA PopList ==
    ASSUME NEW m, NEW H, NEW p, NEW s, NEW at \in [Nat -> Int], NEW len \in Nat,
           ListOK(m, H, p, s, at, len), p # NULL
    PROVE  /\ len > 0 /\ p = at[0] /\ Pop(at) \in [Nat -> Int] /\ len - 1 \in Nat
           /\ \A i \in Nat : Pop(at)[i] = at[i + 1]
           /\ ListOK(m, H, m[p], s, Pop(at), len - 1)
<1>1. len > 0 /\ p = at[0]
  BY DEF ListOK
<1>2. Pop(at) \in [Nat -> Int] /\ \A i \in Nat : Pop(at)[i] = at[i + 1]
  BY DEF Pop
<1>3. Pop(at)[0] = m[p]
  BY <1>1, <1>2 DEF ListOK
<1>4. ASSUME NEW i \in 0 .. (len - 1) - 1
      PROVE  /\ Pop(at)[i] \in H /\ m[Pop(at)[i] - WORD] = s /\ m[Pop(at)[i]] = Pop(at)[i + 1]
             /\ \A j \in 0 .. (len - 1) - 1 : Pop(at)[i] = Pop(at)[j] => i = j
  <2>1. i \in Nat /\ i + 1 \in 0 .. len - 1 /\ Pop(at)[i] = at[i + 1] /\ Pop(at)[i + 1] = at[i + 1 + 1]
    BY <1>2
  <2>2. at[i + 1] \in H /\ m[at[i + 1] - WORD] = s /\ m[at[i + 1]] = at[i + 1 + 1]
    BY <2>1 DEF ListOK
  <2>3. ASSUME NEW j \in 0 .. (len - 1) - 1, Pop(at)[i] = Pop(at)[j] PROVE i = j
    <3>1. j + 1 \in 0 .. len - 1 /\ Pop(at)[j] = at[j + 1]
      BY <1>2
    <3>2. i + 1 = j + 1
      BY <2>1, <2>3, <3>1 DEF ListOK
    <3> QED
      BY <3>2
  <2> QED
    BY <2>1, <2>2, <2>3
<1>5. \A i \in Nat : i >= len - 1 => Pop(at)[i] = NULL
  BY <1>2 DEF ListOK
<1> QED
  BY <1>1, <1>2, <1>3, <1>4, <1>5 DEF ListOK

\* The layout when the client has the first block of bin b, for n bytes.
Popped(m, mp, bn, blocks, H, at, len, b, n) ==
    LET at2  == [at EXCEPT ![b] = Pop(at[b])]
        len2 == [len EXCEPT ![b] = len[b] - 1]
    IN  /\ at2 \in Lists /\ len2 \in [Bins -> Nat]
        /\ Layout(m, mp, [bn EXCEPT ![b] = m[bn[b]]], blocks \cup {[p |-> bn[b], n |-> n]}, H, at2, len2)

LEMMA PopLayout ==
    ASSUME NEW m, NEW mp, NEW bn \in [Bins -> Int], NEW blocks, NEW H,
           NEW at \in Lists, NEW len \in [Bins -> Nat],
           Layout(m, mp, bn, blocks, H, at, len),
           NEW n \in Nat, n <= MaxSmall, NEW b, b = size2bin(n), bn[b] # NULL
    PROVE  Popped(m, mp, bn, blocks, H, at, len, b, n)
<1> PICK p : p = bn[b]
  OBVIOUS
<1> DEFINE at2  == [at EXCEPT ![b] = Pop(at[b])]
           len2 == [len EXCEPT ![b] = len[b] - 1]
           bn2  == [bn EXCEPT ![b] = m[p]]
           new  == [p |-> p, n |-> n]
<1>1. b \in Bins /\ n <= bin2size(b)
  BY BinOfRequest
<1>2. at[b] \in [Nat -> Int] /\ len[b] \in Nat
  BY <1>1 DEF Lists
<1>3. \A c \in Bins : ListOK(m, H, bn[c], bin2size(c), at[c], len[c]) /\ Lent(blocks, at[c], len[c])
  BY DEF Layout
<1>4. /\ len[b] > 0 /\ p = at[b][0] /\ Pop(at[b]) \in [Nat -> Int] /\ len[b] - 1 \in Nat
      /\ \A i \in Nat : Pop(at[b])[i] = at[b][i + 1]
      /\ ListOK(m, H, m[p], bin2size(b), Pop(at[b]), len[b] - 1)
  <2>1. PICK a, k, s : a = at[b] /\ k = len[b] /\ s = bin2size(b)
    OBVIOUS
  <2>2. ListOK(m, H, p, s, a, k) /\ p # NULL
    BY <1>1, <1>3, <2>1
  <2>3. a \in [Nat -> Int] /\ k \in Nat
    BY <1>2, <2>1
  <2>4. /\ k > 0 /\ p = a[0] /\ Pop(a) \in [Nat -> Int] /\ k - 1 \in Nat
        /\ \A i \in Nat : Pop(a)[i] = a[i + 1]
        /\ ListOK(m, H, m[p], s, Pop(a), k - 1)
    BY <2>2, <2>3, PopList
  <2> QED
    BY <2>1, <2>4
<1>5. /\ at2 \in Lists /\ at2[b] = Pop(at[b]) /\ \A c \in Bins \ {b} : at2[c] = at[c]
      /\ len2 \in [Bins -> Nat] /\ len2[b] = len[b] - 1 /\ \A c \in Bins \ {b} : len2[c] = len[c]
      /\ bn2[b] = m[p] /\ \A c \in Bins \ {b} : bn2[c] = bn[c]
  BY <1>1, <1>4 DEF Lists
<1> HIDE DEF at2, len2, bn2
<1>6. p \in H /\ m[p - WORD] = bin2size(b) /\ bin2size(b) <= MaxSmall /\ 0 \in 0 .. len[b] - 1
  <2>1. 0 \in 0 .. len[b] - 1
    BY <1>2, <1>4
  <2> QED
    BY <1>1, <1>3, <1>4, <2>1, BinSizes DEF ListOK
<1>7. ClientOK(m, H, blocks \cup {new})
  <2>1. ClientOK(m, H, blocks)
    BY DEF Layout
  <2>2. \A l \in blocks : l.p # p
    BY <1>1, <1>3, <1>4, <1>6 DEF Lent
  <2>3. bin2size(b) \in Nat /\ MaxSmall \in Nat
    BY <1>1, BinSizes, Constants DEF MaxSmall, bin2size
  <2> QED
    BY <1>1, <1>6, <2>1, <2>2, <2>3 DEF ClientOK
<1>8. ASSUME NEW c \in Bins
      PROVE  ListOK(m, H, bn2[c], bin2size(c), at2[c], len2[c]) /\ Lent(blocks \cup {new}, at2[c], len2[c])
  <2>1. CASE c = b
    <3>1. ASSUME NEW i \in 0 .. len2[b] - 1 PROVE at2[b][i] # p /\ \A l \in blocks : at2[b][i] # l.p
      <4>1. i \in Nat /\ i + 1 \in 0 .. len[b] - 1 /\ at2[b][i] = at[b][i + 1] /\ i + 1 # 0
        BY <1>2, <1>4, <1>5
      <4>2. at[b][i + 1] # at[b][0]
        BY <1>1, <1>3, <1>6, <4>1 DEF ListOK
      <4> QED
        BY <1>1, <1>3, <1>4, <4>1, <4>2 DEF Lent
    <3> QED
      BY <1>4, <1>5, <2>1, <3>1 DEF Lent
  <2>2. CASE c # b
    <3>1. \A i \in 0 .. len[c] - 1 : at[c][i] # p
      BY <1>1, <1>3, <1>6, <2>2, SizesDiffer DEF ListOK
    <3> QED
      BY <1>3, <1>5, <2>2, <3>1 DEF Lent
  <2> QED
    BY <2>1, <2>2
<1>9. HeapOK(m, mp, H)
  BY DEF Layout
<1> QED
  BY <1>5, <1>7, <1>8, <1>9 DEF Popped, Layout, at2, len2, bn2

-----------------------------------------------------------------------------
(* Blocks are put before a list: one by free, N by a big block. *)

Prepend(f, N, at) == [i \in Nat |-> IF i < N THEN f[i] ELSE at[i - N]]

\* The blocks f[0] to f[N - 1] are linked one to the next and then to q, and are not
\* on the list at.
Linked(m, H, s, q, f, N, at, len) ==
    \A j \in 0 .. N - 1 :
        /\ f[j] \in H /\ m[f[j] - WORD] = s
        /\ m[f[j]] = IF j = N - 1 THEN q ELSE f[j + 1]
        /\ \A k \in 0 .. N - 1 : f[j] = f[k] => j = k
        /\ \A i \in 0 .. len - 1 : at[i] # f[j]

\* The words of a list's blocks are the same in m and in m2.
WordsStay(m, m2, H, at, len) ==
    \A i \in 0 .. len - 1 :
        at[i] \in H /\ m2[at[i] - WORD] = m[at[i] - WORD] /\ m2[at[i]] = m[at[i]]

IsPrepended(at2, f, N, at) ==
    /\ at2 \in [Nat -> Int]
    /\ \A i \in 0 .. N - 1 : at2[i] = f[i]
    /\ \A i \in Nat : i >= N => i - N \in Nat /\ at2[i] = at[i - N]

LEMMA PrependIs ==
    ASSUME NEW N \in Nat \ {0}, NEW f \in [0 .. N - 1 -> Int], NEW at \in [Nat -> Int]
    PROVE  IsPrepended(Prepend(f, N, at), f, N, at)
<1>1. ASSUME NEW i \in Nat PROVE (IF i < N THEN f[i] ELSE at[i - N]) \in Int
  BY <1>1
<1> QED
  BY <1>1 DEF Prepend, IsPrepended

LEMMA PrependList ==
    ASSUME NEW m, NEW m2, NEW H, NEW H2, NEW q, NEW s, NEW at \in [Nat -> Int], NEW len \in Nat,
           ListOK(m, H, q, s, at, len), WordsStay(m, m2, H2, at, len),
           NEW N \in Nat \ {0}, NEW f \in [0 .. N - 1 -> Int],
           Linked(m2, H2, s, q, f, N, at, len)
    PROVE  ListOK(m2, H2, f[0], s, Prepend(f, N, at), N + len)
<1> USE DEF Linked, WordsStay
<1> DEFINE at2 == Prepend(f, N, at)
<1>1. /\ at2 \in [Nat -> Int]
      /\ \A i \in 0 .. N - 1 : at2[i] = f[i]
      /\ \A i \in Nat : i >= N => i - N \in Nat /\ at2[i] = at[i - N]
  <2>1. IsPrepended(at2, f, N, at)
    BY PrependIs
  <2> QED
    BY <2>1 DEF IsPrepended
<1> HIDE DEF at2
<1>3. at2[0] = f[0] /\ at2[N] = q
  <2>1. N - N = 0 /\ at[0] = q
    BY DEF ListOK
  <2> QED
    BY <1>1, <2>1
<1>4. ASSUME NEW i \in 0 .. N + len - 1
      PROVE  at2[i] \in H2 /\ m2[at2[i] - WORD] = s /\ m2[at2[i]] = at2[i + 1]
  <2>1. CASE i \in 0 .. N - 1
    <3>1. at2[i] = f[i]
      BY <1>1, <2>1
    <3>2. CASE i = N - 1
      BY <1>3, <2>1, <3>1, <3>2
    <3>3. CASE i # N - 1
      <4>1. i + 1 \in 0 .. N - 1
        BY <2>1, <3>3
      <4> QED
        BY <1>1, <2>1, <3>1, <3>3, <4>1
    <3> QED
      BY <3>2, <3>3
  <2>2. CASE i >= N
    <3>1. PICK k \in 0 .. len - 1 : k = i - N
      BY <2>2
    <3>2. at2[i] = at[k] /\ at2[i + 1] = at[k + 1]
      <4>1. i + 1 \in Nat /\ i + 1 >= N /\ (i + 1) - N = k + 1
        BY <2>2, <3>1
      <4>2. at2[i] = at[i - N] /\ at2[i + 1] = at[(i + 1) - N]
        BY <1>1, <2>2, <4>1
      <4> QED
        BY <3>1, <4>1, <4>2
    <3>3. at[k] \in H2 /\ m2[at[k] - WORD] = s /\ m2[at[k]] = at[k + 1]
      BY <3>1 DEF ListOK
    <3> QED
      BY <3>2, <3>3
  <2> QED
    BY <2>1, <2>2
<1>5. ASSUME NEW i \in 0 .. N + len - 1, NEW j \in 0 .. N + len - 1, at2[i] = at2[j] PROVE i = j
  <2>1. CASE i < N /\ j < N
    <3>1. i \in 0 .. N - 1 /\ j \in 0 .. N - 1
      BY <2>1
    <3> QED
      BY <1>1, <1>5, <3>1
  <2>2. CASE i >= N /\ j >= N
    <3>1. PICK x \in 0 .. len - 1, y \in 0 .. len - 1 : x = i - N /\ y = j - N
      BY <2>2
    <3>2. at[x] = at[y]
      BY <1>1, <1>5, <2>2, <3>1
    <3>3. x = y
      BY <3>2 DEF ListOK
    <3> QED
      BY <3>1, <3>3
  <2>3. CASE i < N /\ j >= N
    <3>1. i \in 0 .. N - 1 /\ j - N \in 0 .. len - 1
      BY <2>3
    <3> QED
      BY <1>1, <1>5, <2>3, <3>1
  <2>4. CASE i >= N /\ j < N
    <3>1. j \in 0 .. N - 1 /\ i - N \in 0 .. len - 1
      BY <2>4
    <3> QED
      BY <1>1, <1>5, <2>4, <3>1
  <2> QED
    BY <2>1, <2>2, <2>3, <2>4
<1>6. ASSUME NEW i \in Nat, i >= N + len PROVE at2[i] = NULL
  <2>1. i >= N /\ i - N \in Nat /\ i - N >= len
    BY <1>6
  <2> QED
    BY <1>1, <2>1 DEF ListOK
<1> QED
  BY <1>3, <1>4, <1>5, <1>6 DEF ListOK, at2

\* The size words of H, and the links of the lists, are the same in m and in m2.
Unwritten(m, m2, H, at, len) ==
    /\ \A p \in H : m2[p - WORD] = m[p - WORD]
    /\ \A c \in Bins : \A i \in 0 .. len[c] - 1 : m2[at[c][i]] = m[at[c][i]]

\* The layout when f[0] to f[N - 1] have come before the list of bin b.
Prepended(m, mp, bn, blocks, H, at, len, b, N, f) ==
    LET at2  == [at EXCEPT ![b] = Prepend(f, N, at[b])]
        len2 == [len EXCEPT ![b] = N + len[b]]
    IN  /\ at2 \in Lists /\ len2 \in [Bins -> Nat]
        /\ Layout(m, mp, [bn EXCEPT ![b] = f[0]], blocks, H, at2, len2)

LEMMA PrependLayout ==
    ASSUME NEW m, NEW m2, NEW mp, NEW mp2, NEW bn \in [Bins -> Int], NEW blocks, NEW blocks2,
           NEW H, NEW H2, NEW at \in Lists, NEW len \in [Bins -> Nat],
           Layout(m, mp, bn, blocks, H, at, len), HeapOK(m2, mp2, H2),
           H \subseteq H2, blocks2 \subseteq blocks,
           Unwritten(m, m2, H, at, len),
           NEW b \in Bins, NEW N \in Nat \ {0}, NEW f \in [0 .. N - 1 -> Int],
           Linked(m2, H2, bin2size(b), bn[b], f, N, at[b], len[b]),
           Lent(blocks2, f, N)
    PROVE  Prepended(m2, mp2, bn, blocks2, H2, at, len, b, N, f)
<1> DEFINE at2  == [at EXCEPT ![b] = Prepend(f, N, at[b])]
           len2 == [len EXCEPT ![b] = N + len[b]]
           bn2  == [bn EXCEPT ![b] = f[0]]
<1>1. \A c \in Bins : ListOK(m, H, bn[c], bin2size(c), at[c], len[c]) /\ Lent(blocks, at[c], len[c])
  BY DEF Layout
<1>2. ASSUME NEW c \in Bins PROVE WordsStay(m, m2, H2, at[c], len[c])
  <2>1. \A i \in 0 .. len[c] - 1 : at[c][i] \in H
    BY <1>1 DEF ListOK
  <2> QED
    BY <2>1 DEF WordsStay, Unwritten
<1>3. /\ IsPrepended(Prepend(f, N, at[b]), f, N, at[b]) /\ N + len[b] \in Nat
      /\ ListOK(m2, H2, f[0], bin2size(b), Prepend(f, N, at[b]), N + len[b])
  <2>1. PICK a, k, s, q : a = at[b] /\ k = len[b] /\ s = bin2size(b) /\ q = bn[b]
    OBVIOUS
  <2>2. a \in [Nat -> Int] /\ k \in Nat /\ ListOK(m, H, q, s, a, k)
    BY <1>1, <2>1 DEF Lists
  <2>3. WordsStay(m, m2, H2, a, k) /\ Linked(m2, H2, s, q, f, N, a, k)
    BY <1>2, <2>1
  <2>4. ListOK(m2, H2, f[0], s, Prepend(f, N, a), N + k)
    BY <2>2, <2>3, PrependList
  <2>5. IsPrepended(Prepend(f, N, a), f, N, a)
    BY <2>2, PrependIs
  <2>6. N + k \in Nat
    BY <2>2
  <2> QED
    BY <2>1, <2>4, <2>5, <2>6
<1>4. /\ at2 \in Lists /\ at2[b] = Prepend(f, N, at[b]) /\ \A c \in Bins \ {b} : at2[c] = at[c]
      /\ len2 \in [Bins -> Nat] /\ len2[b] = N + len[b] /\ \A c \in Bins \ {b} : len2[c] = len[c]
      /\ bn2[b] = f[0] /\ \A c \in Bins \ {b} : bn2[c] = bn[c]
  <2>1. Prepend(f, N, at[b]) \in [Nat -> Int]
    BY <1>3 DEF IsPrepended
  <2> QED
    BY <1>3, <2>1 DEF Lists
<1> HIDE DEF at2, len2, bn2
<1>5. ClientOK(m2, H2, blocks2)
  BY DEF Layout, ClientOK, Unwritten
<1>6. ASSUME NEW c \in Bins
      PROVE  ListOK(m2, H2, bn2[c], bin2size(c), at2[c], len2[c]) /\ Lent(blocks2, at2[c], len2[c])
  <2>1. CASE c = b
    <3>1. ASSUME NEW l \in blocks2, NEW i \in 0 .. N + len[b] - 1 PROVE at2[b][i] # l.p
      <4>0. IsPrepended(at2[b], f, N, at[b])
        BY <1>3, <1>4
      <4>1. CASE i \in 0 .. N - 1
        <5>1. at2[b][i] = f[i]
          BY <4>0, <4>1 DEF IsPrepended
        <5> QED
          BY <4>1, <5>1 DEF Lent
      <4>2. CASE i >= N
        <5>1. PICK k \in 0 .. len[b] - 1 : k = i - N
          BY <4>2
        <5>2. at2[b][i] = at[b][k]
          BY <4>0, <4>2, <5>1 DEF IsPrepended
        <5> QED
          BY <1>1, <5>1, <5>2 DEF Lent
      <4> QED
        BY <4>1, <4>2
    <3>2. Lent(blocks2, at2[b], len2[b])
      BY <1>4, <3>1 DEF Lent
    <3>3. ListOK(m2, H2, bn2[b], bin2size(b), at2[b], len2[b])
      BY <1>3, <1>4
    <3> QED
      BY <2>1, <3>2, <3>3
  <2>2. CASE c # b
    <3>1. ListOK(m2, H2, bn[c], bin2size(c), at[c], len[c])
      BY <1>1, <1>2, ListStays DEF WordsStay
    <3> QED
      BY <1>1, <1>4, <2>2, <3>1 DEF Lent
  <2> QED
    BY <2>1, <2>2
<1> QED
  BY <1>4, <1>5, <1>6 DEF Prepended, Layout, at2, len2, bn2

-----------------------------------------------------------------------------
(* A big block is cut. *)

\* The blocks of size s of a big block at q.
Cut(q, s) == [j \in 0 .. Nblocks(s) - 1 |-> BlockAt(q, s, j)]

LEMMA NblocksFit ==
    ASSUME NEW b \in Bins
    PROVE  LET s == bin2size(b)
           IN  Nblocks(s) \in Nat \ {0} /\ Nblocks(s) * (s + WORD) <= BIGBLOCK - WORD
<1> PICK s, S, N : s = bin2size(b) /\ S = s + WORD /\ N = Nblocks(s)
  OBVIOUS
<1>1. S \in Nat \ {0} /\ BIGBLOCK - WORD \in Nat /\ S <= BIGBLOCK - WORD /\ WASTE = WORD
  BY BinSizes, Constants
<1>2. PICK a, r : a = BIGBLOCK - WORD /\ r = a % S
  OBVIOUS
<1>3. N = a \div S
  BY <1>1, <1>2 DEF Nblocks
<1>4. N \in Nat /\ r \in 0 .. S - 1 /\ a = N * S + r
  <2>1. \A d \in Nat \ {0} : N = a \div d /\ r = a % d =>
            N \in Nat /\ r \in 0 .. d - 1 /\ a = N * d + r
    BY <1>1, <1>2, DivBounds
  <2> QED
    BY <1>1, <1>2, <1>3, <2>1
<1>5. N # 0
  BY <1>1, <1>2, <1>4
<1>6. N * S \in Nat
  BY <1>1, <1>4
<1> QED
  BY <1>1, <1>2, <1>4, <1>5, <1>6

\* Where the blocks are.
Placed(q, s, j) ==
    LET p == BlockAt(q, s, j)
    IN  /\ p \in Nat /\ \E k \in Nat \ {0} : p = k * U
        /\ q <= p - WORD /\ p + s <= q + BIGBLOCK

LEMMA CutPlaces ==
    ASSUME NEW b \in Bins, NEW q \in Nat \ {0}, q % PAGE = 0,
           NEW s, s = bin2size(b), NEW N, N = Nblocks(s)
    PROVE  /\ N \in Nat \ {0} /\ Cut(q, s) \in [0 .. N - 1 -> Int]
           /\ \A j \in 0 .. N - 1 : Placed(q, s, j) /\ Cut(q, s)[j] = BlockAt(q, s, j)
           /\ \A i, j \in 0 .. N - 1 : i < j => BlockAt(q, s, i) + s <= BlockAt(q, s, j) - WORD
           /\ \A j \in 0 .. N - 1 : BlockAt(q, s, j + 1) = BlockAt(q, s, j) + s + WORD
<1> PICK S, d : S = s + WORD /\ d = b + 1
  OBVIOUS
<1>1. /\ s \in Nat /\ S \in Nat \ {0} /\ S = d * U /\ d \in Nat /\ N \in Nat \ {0}
      /\ N * S <= BIGBLOCK - WORD /\ N * S \in Nat
  <2>1. s \in Nat /\ S \in Nat \ {0} /\ S = d * U /\ d \in Nat
    BY BinSizes
  <2>2. N \in Nat \ {0} /\ N * S <= BIGBLOCK - WORD
    BY NblocksFit
  <2>3. N * S \in Nat
    BY <2>1, <2>2
  <2> QED
    BY <2>1, <2>2, <2>3
<1>2. WORD \in Nat \ {0} /\ U \in Nat \ {0} /\ WASTE + WORD = U /\ WASTE = WORD /\ BIGBLOCK \in Nat
  BY Constants
<1>3. PICK k \in Nat : q = k * U
  <2>1. PICK x \in Nat : q = x * PAGE
    BY Constants, Multiple
  <2>2. PICK y \in Nat : PAGE = y * U
    BY Constants, Multiple
  <2>3. q = (x * y) * U /\ x * y \in Nat
    BY <1>2, <2>1, <2>2
  <2> QED
    BY <2>3
<1>4. ASSUME NEW j \in Nat
      PROVE  j * S \in Nat /\ BlockAt(q, s, j) \in Nat /\ BlockAt(q, s, j) = q + U + j * S
  <2>1. PICK x : x = j * S
    OBVIOUS
  <2>2. x \in Nat
    <3>1. S \in Nat
      BY <1>1
    <3> QED
      BY <2>1, <3>1
  <2>3. BlockAt(q, s, j) = q + WASTE + WORD + x
    BY <2>1 DEF BlockAt
  <2> QED
    BY <1>2, <2>1, <2>2, <2>3
<1>5. ASSUME NEW j \in 0 .. N - 1 PROVE Placed(q, s, j)
  <2>1. PICK p, x : p = BlockAt(q, s, j) /\ x = j * S
    OBVIOUS
  <2>2. j \in Nat /\ x \in Nat /\ p \in Nat /\ p = q + U + x
    BY <1>1, <1>4, <2>1
  <2>3. x + S <= N * S
    <3>1. j \in Nat /\ N \in Nat /\ S \in Nat /\ j < N
      BY <1>1
    <3>2. j * S + S <= N * S
      BY <3>1, MulStep
    <3> QED
      BY <2>1, <3>2
  <2>4. q <= p - WORD /\ p + s <= q + BIGBLOCK
    <3>1. PICK y \in Nat : y = N * S
      BY <1>1
    <3>2. x + S <= y /\ y <= BIGBLOCK - WORD
      BY <1>1, <2>3, <3>1
    <3> QED
      BY <1>1, <1>2, <2>2, <3>2
  <2>5. \E y \in Nat \ {0} : p = y * U
    <3>1. x = (j * d) * U /\ j * d \in Nat
      <4>1. j \in Nat /\ d \in Nat /\ U \in Nat /\ x = j * (d * U)
        BY <1>1, <1>2, <2>1, <2>2
      <4> QED
        BY <4>1
    <3>2. PICK z \in Nat : z = j * d
      BY <3>1
    <3>3. (k + 1 + z) * U = k * U + U + z * U /\ k + 1 + z \in Nat \ {0}
      BY <1>2, <3>2
    <3> QED
      BY <1>3, <2>2, <3>1, <3>2, <3>3
  <2> QED
    BY <2>1, <2>2, <2>4, <2>5 DEF Placed
<1>6. ASSUME NEW i \in 0 .. N - 1, NEW j \in 0 .. N - 1, i < j
      PROVE  BlockAt(q, s, i) + s <= BlockAt(q, s, j) - WORD
  <2>1. i \in Nat /\ j \in Nat /\ S \in Nat
    BY <1>1
  <2>2. i * S + S <= j * S
    BY <1>6, <2>1, MulStep
  <2>3. PICK x \in Nat, y \in Nat : x = i * S /\ y = j * S
    BY <1>4, <2>1
  <2>4. BlockAt(q, s, i) = q + U + x /\ BlockAt(q, s, j) = q + U + y
    BY <1>4, <2>1, <2>3
  <2>5. x + S <= y
    BY <2>2, <2>3
  <2> QED
    BY <1>1, <1>2, <2>3, <2>4, <2>5
<1>7. ASSUME NEW j \in 0 .. N - 1 PROVE BlockAt(q, s, j + 1) = BlockAt(q, s, j) + s + WORD
  <2>1. j \in Nat /\ j + 1 \in Nat /\ S \in Nat
    BY <1>1
  <2>2. (j + 1) * S = j * S + S
    BY <2>1
  <2>3. PICK x \in Nat, y \in Nat : x = j * S /\ y = (j + 1) * S
    BY <1>4, <2>1
  <2>4. BlockAt(q, s, j) = q + U + x /\ BlockAt(q, s, j + 1) = q + U + y
    BY <1>4, <2>1, <2>3
  <2>5. y = x + S
    BY <2>2, <2>3
  <2> QED
    BY <1>1, <1>2, <2>3, <2>4, <2>5
<1>8. Cut(q, s) \in [0 .. N - 1 -> Int] /\ \A j \in 0 .. N - 1 : Cut(q, s)[j] = BlockAt(q, s, j)
  <2>1. \A j \in 0 .. N - 1 : j \in Nat
    BY <1>1
  <2> QED
    BY <1>4, <2>1 DEF Cut
<1> QED
  BY <1>1, <1>5, <1>6, <1>7, <1>8

LEMMA Aligned ==
    ASSUME NEW k \in Nat \ {0}
    PROVE  /\ k * U \in Nat /\ (k * U) % WORD = 0
           /\ k * U - WORD \in Nat /\ (k * U - WORD) % WORD = 0
<1>1. WORD \in Nat \ {0} /\ U = 2 * WORD
  BY Constants
<1>2. PICK x \in Nat : x = k + k /\ x > 1
  OBVIOUS
<1>3. k * U = x * WORD
  BY <1>1, <1>2
<1>4. (x * WORD + 0) % WORD = 0 /\ ((x - 1) * WORD + 0) % WORD = 0
  BY <1>1, <1>2, ModOfMultiple
<1>5. PICK y \in Nat, z \in Nat : y = x * WORD /\ z = (x - 1) * WORD /\ y = z + WORD
  BY <1>1, <1>2
<1>6. y % WORD = 0 /\ z % WORD = 0 /\ y - WORD = z
  <2>1. y + 0 = y /\ z + 0 = z /\ y - WORD = z
    BY <1>1, <1>5
  <2> QED
    BY <1>4, <1>5, <2>1
<1> QED
  BY <1>3, <1>5, <1>6

\* No page that is mapped has a byte where mmap0 puts new ones.
LEMMA Elsewhere ==
    ASSUME NEW mp, NEW q \in Nat, NEW n \in Nat, q + n <= HEAP, Over(q, n) \cap mp = {},
           NEW a, Page(a) \in mp
    PROVE  a \notin q .. q + n - 1
  BY Covers

\* New blocks in new pages.
LEMMA HeapGrows ==
    ASSUME NEW m, NEW m2, NEW mp, NEW P, NEW H, NEW K, HeapOK(m, mp, H), P \cap mp = {},
           \A p \in H : m2[p - WORD] = m[p - WORD], HeapOK(m2, P, K)
    PROVE  HeapOK(m2, mp \cup P, H \cup K)
<1>1. HeapOK(m2, mp \cup P, H)
  BY HeapStays
<1>2. HeapOK(m2, mp \cup P, K)
  BY HeapStays
<1>3. ASSUME NEW p \in H, NEW q \in K
      PROVE  Region(p, m2[p - WORD]) \cap Region(q, m2[q - WORD]) = {}
  <2>1. \A a \in Region(p, m2[p - WORD]) : Page(a) \in mp
    BY DEF HeapOK, BlockOK
  <2>2. \A a \in Region(q, m2[q - WORD]) : Page(a) \in P
    BY DEF HeapOK, BlockOK
  <2> QED
    BY <2>1, <2>2
<1> QED
  BY <1>1, <1>2, <1>3 DEF HeapOK

\* What list_from_block writes.
Written(m, m2, q, s, tl, N) ==
    /\ m2 \in [Words -> Int]
    /\ \A j \in 0 .. N - 1 :
          LET p == BlockAt(q, s, j)
          IN  /\ p \in Words /\ p - WORD \in Words /\ m2[p - WORD] = s
              /\ m2[p] = IF j = N - 1 THEN tl ELSE BlockAt(q, s, j + 1)
    /\ \A a \in Words : a \notin q .. q + BIGBLOCK - 1 => m2[a] = m[a]

LEMMA WrittenIs ==
    ASSUME NEW m \in [Words -> Int], NEW tl \in Int, NEW b \in Bins,
           NEW q \in Nat \ {0}, q % PAGE = 0, q + BIGBLOCK <= HEAP,
           NEW s, s = bin2size(b), NEW N, N = Nblocks(s)
    PROVE  Written(m, list_from_block(m, s, q, tl), q, s, tl, N)
<1> DEFINE blk(j) == BlockAt(q, s, j)
           blocks == {blk(j) : j \in 0 .. N - 1}
           m2 == list_from_block(m, s, q, tl)
<1>1. /\ N \in Nat \ {0}
      /\ \A j \in 0 .. N - 1 : Placed(q, s, j)
      /\ \A i, j \in 0 .. N - 1 : i < j => blk(i) + s <= blk(j) - WORD
      /\ \A j \in 0 .. N - 1 : blk(j + 1) = blk(j) + s + WORD
  BY CutPlaces
<1>2. WORD \in Nat \ {0} /\ HEAP \in Nat /\ s \in Nat /\ WORD <= s /\ BIGBLOCK \in Nat
  BY Constants, BinSizes
<1>3. DOMAIN m = Words /\ \A a \in Words : a \in Nat
  BY Constants DEF Words
<1>4. m2 = [a \in Words |-> CASE a + WORD \in blocks -> s
                              [] a \in blocks -> IF a = blk(N - 1) THEN tl ELSE a + s + WORD
                              [] OTHER -> m[a]]
  BY <1>3 DEF list_from_block
<1>5. ASSUME NEW j \in 0 .. N - 1
      PROVE  /\ blk(j) \in Nat /\ blk(j) \in Words /\ blk(j) - WORD \in Words
             /\ blk(j) - WORD >= q /\ blk(j) < q + BIGBLOCK
  <2>1. PICK p : p = blk(j)
    OBVIOUS
  <2>2. p \in Nat /\ (\E k \in Nat \ {0} : p = k * U) /\ q <= p - WORD /\ p + s <= q + BIGBLOCK
    BY <1>1, <2>1 DEF Placed
  <2>3. p % WORD = 0 /\ (p - WORD) % WORD = 0
    BY <2>2, Aligned
  <2>4. p \in 0 .. HEAP - 1 /\ p - WORD \in 0 .. HEAP - 1 /\ p - WORD >= q /\ p < q + BIGBLOCK
    BY <1>2, <2>2
  <2> QED
    BY <2>1, <2>2, <2>3, <2>4 DEF Words
<1> HIDE DEF m2, blk
<1>9. ASSUME NEW p \in blocks PROVE p + WORD \notin blocks
  <2>1. PICK j \in 0 .. N - 1 : p = blk(j)
    OBVIOUS
  <2>2. SUFFICES ASSUME NEW i \in 0 .. N - 1, p + WORD = blk(i) PROVE FALSE
    OBVIOUS
  <2>3. p \in Nat
    BY <1>5, <2>1
  <2>4. CASE j < i
    <3>1. p + s <= (p + WORD) - WORD
      BY <1>1, <2>1, <2>2, <2>4
    <3> QED
      BY <1>2, <2>3, <3>1
  <2>5. CASE i < j
    <3>1. (p + WORD) + s <= p - WORD
      BY <1>1, <2>1, <2>2, <2>5
    <3> QED
      BY <1>2, <2>3, <3>1
  <2>6. CASE i = j
    BY <1>2, <2>1, <2>2, <2>3, <2>6
  <2> QED
    BY <1>1, <2>4, <2>5, <2>6
<1>6. m2 \in [Words -> Int]
  <2>1. ASSUME NEW a \in Words
        PROVE  (CASE a + WORD \in blocks -> s
                  [] a \in blocks -> IF a = blk(N - 1) THEN tl ELSE a + s + WORD
                  [] OTHER -> m[a]) \in Int
    <3>1. /\ a \in Int /\ m[a] \in Int /\ a + s + WORD \in Int
          /\ a \in blocks => a + WORD \notin blocks
      BY <1>2, <1>3, <1>9
    <3> HIDE DEF blocks
    <3>2. CASE a + WORD \in blocks
      <4>1. a \notin blocks
        BY <3>1, <3>2
      <4> QED
        BY <1>2, <3>2, <4>1
    <3>3. CASE a + WORD \notin blocks /\ a \in blocks
      BY <3>1, <3>3
    <3>4. CASE a + WORD \notin blocks /\ a \notin blocks
      BY <3>1, <3>4
    <3> QED
      BY <3>2, <3>3, <3>4
  <2> HIDE DEF blocks
  <2> QED
    BY <1>4, <2>1
<1>7. ASSUME NEW j \in 0 .. N - 1
      PROVE  m2[blk(j) - WORD] = s /\ m2[blk(j)] = IF j = N - 1 THEN tl ELSE blk(j + 1)
  <2>1. PICK p : p = blk(j)
    OBVIOUS
  <2>2. p \in Nat /\ p \in Words /\ p - WORD \in Words /\ p \in blocks /\ (p - WORD) + WORD = p
    BY <1>2, <1>5, <2>1
  <2>3. p + WORD \notin blocks /\ p - WORD \notin blocks
    BY <1>9, <2>2
  <2>4. j # N - 1 => p # blk(N - 1)
    <3>1. SUFFICES ASSUME j # N - 1, p = blk(N - 1) PROVE FALSE
      OBVIOUS
    <3>2. N - 1 \in 0 .. N - 1 /\ j < N - 1
      BY <1>1, <3>1
    <3>3. p + s <= p - WORD
      BY <1>1, <2>1, <3>1, <3>2
    <3> QED
      BY <1>2, <2>2, <3>3
  <2>5. blk(j + 1) = p + s + WORD
    BY <1>1, <2>1
  <2> HIDE DEF blocks
  <2>6. m2[p - WORD] = s
    BY <1>4, <2>2, <2>3
  <2>7. m2[p] = IF p = blk(N - 1) THEN tl ELSE p + s + WORD
    BY <1>4, <2>2, <2>3
  <2> QED
    BY <2>1, <2>4, <2>5, <2>6, <2>7
<1>8. ASSUME NEW a \in Words, a \notin q .. q + BIGBLOCK - 1 PROVE m2[a] = m[a]
  <2>1. \A j \in 0 .. N - 1 : a + WORD # blk(j) /\ a # blk(j)
    BY <1>2, <1>3, <1>5, <1>8
  <2>2. a + WORD \notin blocks /\ a \notin blocks
    BY <2>1
  <2> HIDE DEF blocks
  <2> QED
    BY <1>4, <2>2
<1> QED
  BY <1>5, <1>6, <1>7, <1>8 DEF Written, m2, blk

\* What it is to put the big block at q, cut into N blocks of size s, before the list
\* of bin b.
CutBefore(m, mp, bn, blocks, at, len, b, q, s, N) ==
    LET m2 == list_from_block(m, s, q, bn[b])
        x  == BlockAt(q, s, 0)
    IN  /\ N \in Nat \ {0} /\ x \in Nat \ {0} /\ m2 \in [Words -> Int]
        /\ \E H2 \in SUBSET Nat, at2 \in Lists, len2 \in [Bins -> Nat] :
              /\ Layout(m2, mp \cup Over(q, BIGBLOCK), [bn EXCEPT ![b] = x], blocks, H2, at2, len2)
              /\ len2[b] = N + len[b]
              /\ \A i \in Nat : i >= N => i - N \in Nat /\ at2[b][i] = at[b][i - N]

LEMMA CutLayout ==
    ASSUME NEW m \in [Words -> Int], NEW mp, NEW bn \in [Bins -> Int], NEW blocks,
           NEW H \in SUBSET Nat, NEW at \in Lists, NEW len \in [Bins -> Nat],
           Layout(m, mp, bn, blocks, H, at, len),
           NEW b \in Bins, NEW q \in Nat \ {0}, q % PAGE = 0, q + BIGBLOCK <= HEAP,
           Over(q, BIGBLOCK) \cap mp = {},
           NEW s, s = bin2size(b), NEW N, N = Nblocks(s)
    PROVE  CutBefore(m, mp, bn, blocks, at, len, b, q, s, N)
<1> PICK m2 : m2 = list_from_block(m, s, q, bn[b])
  OBVIOUS
<1> PICK f : f = Cut(q, s)
  OBVIOUS
<1> DEFINE K  == {BlockAt(q, s, j) : j \in 0 .. N - 1}
           P  == Over(q, BIGBLOCK)
           H2 == H \cup K
<1>1. /\ N \in Nat \ {0} /\ f \in [0 .. N - 1 -> Int]
      /\ \A j \in 0 .. N - 1 : Placed(q, s, j) /\ f[j] = BlockAt(q, s, j)
      /\ \A i, j \in 0 .. N - 1 : i < j => BlockAt(q, s, i) + s <= BlockAt(q, s, j) - WORD
  BY CutPlaces
<1>2. /\ WORD \in Nat \ {0} /\ HEAP \in Nat /\ s \in Nat /\ WORD <= s /\ BIGBLOCK \in Nat
      /\ s <= MaxSmall /\ MaxSmall \in Nat
  BY Constants, BinSizes DEF MaxSmall, bin2size
<1>3. Written(m, m2, q, s, bn[b], N)
  BY WrittenIs
<1>4. ASSUME NEW p \in K
      PROVE  /\ p \in Nat \ {0} /\ m2[p - WORD] = s /\ Region(p, s) = (p - WORD) .. (p + s - 1)
             /\ p \in Region(p, s) /\ p - WORD \in Region(p, s)
             /\ Region(p, s) \subseteq q .. q + BIGBLOCK - 1
             /\ BlockOK(m2, P, p)
  <2>1. PICK j \in 0 .. N - 1 : p = BlockAt(q, s, j)
    OBVIOUS
  <2>2. p \in Nat /\ (\E k \in Nat \ {0} : p = k * U) /\ q <= p - WORD /\ p + s <= q + BIGBLOCK
    BY <1>1, <2>1 DEF Placed
  <2>3. p - WORD \in Words /\ m2[p - WORD] = s
    BY <1>3, <2>1 DEF Written
  <2>4. Region(p, s) = (p - WORD) .. (p + s - 1)
    BY <1>2 DEF Region
  <2>5. p \in Region(p, s) /\ p - WORD \in Region(p, s) /\ Region(p, s) \subseteq q .. q + BIGBLOCK - 1
    <3>1. /\ p \in (p - WORD) .. (p + s - 1) /\ p - WORD \in (p - WORD) .. (p + s - 1)
          /\ \A a \in (p - WORD) .. (p + s - 1) : a \in q .. q + BIGBLOCK - 1
      BY <1>2, <2>2
    <3> QED
      BY <2>4, <3>1
  <2>6. \A a \in Region(p, s) : a \in 0 .. HEAP - 1 /\ Page(a) \in P
    BY <1>2, <2>5, Covers
  <2>7. BlockOK(m2, P, p)
    <3>1. ~(s > MaxSmall)
      BY <1>2
    <3> QED
      BY <1>2, <2>2, <2>3, <2>5, <2>6, <3>1 DEF BlockOK
  <2>8. p \in Nat \ {0}
    BY <1>2, <2>2
  <2> HIDE DEF P
  <2> QED
    BY <2>3, <2>4, <2>5, <2>7, <2>8
<1>5. HeapOK(m2, P, K)
  <2>1. ASSUME NEW i \in 0 .. N - 1, NEW j \in 0 .. N - 1, i < j
        PROVE  Region(BlockAt(q, s, i), s) \cap Region(BlockAt(q, s, j), s) = {}
    <3>1. PICK x, y : x = BlockAt(q, s, i) /\ y = BlockAt(q, s, j)
      OBVIOUS
    <3>2. x + s <= y - WORD
      BY <1>1, <2>1, <3>1
    <3>3. /\ x \in Nat /\ Region(x, s) = (x - WORD) .. (x + s - 1)
          /\ y \in Nat /\ Region(y, s) = (y - WORD) .. (y + s - 1)
      BY <1>4, <3>1
    <3>4. ASSUME NEW a \in (x - WORD) .. (x + s - 1) PROVE a \notin (y - WORD) .. (y + s - 1)
      <4>1. x \in Nat /\ y \in Nat /\ s \in Nat /\ WORD \in Nat
        BY <1>2, <3>3
      <4>2. a \in Int /\ a <= x + s - 1
        BY <4>1
      <4>3. a < y - WORD
        BY <3>2, <4>1, <4>2
      <4> QED
        BY <4>1, <4>2, <4>3
    <3>5. PICK X, Y : X = Region(x, s) /\ Y = Region(y, s)
      OBVIOUS
    <3>6. \A a \in X : a \notin Y
      BY <3>3, <3>4, <3>5
    <3>7. X \cap Y = {}
      BY <3>6
    <3> QED
      BY <3>1, <3>5, <3>7
  <2>2. ASSUME NEW x \in K, NEW y \in K, x # y PROVE Region(x, s) \cap Region(y, s) = {}
    <3>1. PICK i \in 0 .. N - 1, j \in 0 .. N - 1 : x = BlockAt(q, s, i) /\ y = BlockAt(q, s, j)
      OBVIOUS
    <3>2. i < j \/ j < i
      BY <1>1, <2>2, <3>1
    <3> QED
      BY <2>1, <3>1, <3>2
  <2> HIDE DEF K
  <2> QED
    BY <1>4, <2>2 DEF HeapOK
<1>6. ASSUME NEW a \in Words, Page(a) \in mp PROVE m2[a] = m[a]
  BY <1>2, <1>3, <1>6, Elsewhere DEF Written
<1>7. \A p \in H : p - WORD \in Words /\ Page(p - WORD) \in mp /\ m2[p - WORD] = m[p - WORD]
  <2>1. HeapOK(m, mp, H)
    BY DEF Layout
  <2>2. \A p \in H : p - WORD \in Words /\ Page(p - WORD) \in mp
    BY <2>1 DEF HeapOK, BlockOK
  <2> QED
    BY <1>6, <2>2
<1>8. HeapOK(m2, mp \cup P, H2)
  <2>1. HeapOK(m, mp, H) /\ P \cap mp = {}
    BY DEF Layout
  <2>2. \A p \in H : m2[p - WORD] = m[p - WORD]
    BY <1>7
  <2> HIDE DEF K, P
  <2> QED
    BY <1>5, <2>1, <2>2, HeapGrows
<1>9. ASSUME NEW c \in Bins, NEW i \in 0 .. len[c] - 1
      PROVE  at[c][i] \in H /\ m2[at[c][i]] = m[at[c][i]]
  <2>1. PICK a, k, t, x : a = at[c] /\ k = len[c] /\ t = bn[c] /\ x = at[c][i]
    OBVIOUS
  <2>2. ListOK(m, H, t, bin2size(c), a, k) /\ HeapOK(m, mp, H)
    BY <2>1 DEF Layout
  <2>3. x \in H /\ x \in Words /\ BlockOK(m, mp, x) /\ x \in Region(x, m[x - WORD])
    BY <2>1, <2>2, FreeBlock
  <2>4. Page(x) \in mp
    BY <2>3 DEF BlockOK
  <2> QED
    BY <1>6, <2>1, <2>3, <2>4
<1>10. \A x \in K : x \notin H
  <2>1. \A x \in H : x - WORD \notin q .. q + BIGBLOCK - 1
    BY <1>2, <1>7, Elsewhere
  <2>2. \A x \in K : x - WORD \in q .. q + BIGBLOCK - 1
    BY <1>4
  <2> QED
    BY <2>1, <2>2
<1>11. Linked(m2, H2, s, bn[b], f, N, at[b], len[b])
  <2>1. ASSUME NEW j \in 0 .. N - 1
        PROVE  /\ f[j] \in H2 /\ m2[f[j] - WORD] = s
               /\ m2[f[j]] = IF j = N - 1 THEN bn[b] ELSE f[j + 1]
               /\ \A k \in 0 .. N - 1 : f[j] = f[k] => j = k
               /\ \A i \in 0 .. len[b] - 1 : at[b][i] # f[j]
    <3>1. f[j] = BlockAt(q, s, j) /\ f[j] \in K
      BY <1>1
    <3>2. m2[f[j] - WORD] = s /\ m2[f[j]] = IF j = N - 1 THEN bn[b] ELSE BlockAt(q, s, j + 1)
      BY <1>3, <3>1 DEF Written
    <3>3. j # N - 1 => f[j + 1] = BlockAt(q, s, j + 1)
      <4>1. SUFFICES ASSUME j # N - 1 PROVE j + 1 \in 0 .. N - 1
        BY <1>1
      <4> QED
        BY <1>1, <4>1
    <3>4. ASSUME NEW k \in 0 .. N - 1, f[j] = f[k] PROVE j = k
      <4>1. PICK x \in Nat, y \in Nat : x = BlockAt(q, s, j) /\ y = BlockAt(q, s, k)
        BY <1>1 DEF Placed
      <4>2. x = y
        BY <1>1, <3>4, <4>1
      <4>3. (j < k => x + s <= y - WORD) /\ (k < j => y + s <= x - WORD)
        BY <1>1, <4>1
      <4> QED
        BY <1>1, <1>2, <4>2, <4>3
    <3>5. \A i \in 0 .. len[b] - 1 : at[b][i] # f[j]
      BY <1>9, <1>10, <3>1
    <3> QED
      BY <3>1, <3>2, <3>3, <3>4, <3>5
  <2> QED
    BY <2>1 DEF Linked
<1>12. Lent(blocks, f, N)
  <2>1. \A l \in blocks : l.p \in H
    BY DEF Layout, ClientOK
  <2>2. \A j \in 0 .. N - 1 : f[j] \in K
    BY <1>1
  <2> QED
    BY <1>10, <2>1, <2>2 DEF Lent
<1>13. H2 \in SUBSET Nat /\ 0 \in 0 .. N - 1
  <2>1. 0 \in 0 .. N - 1
    BY <1>1
  <2>2. \A p \in K : p \in Nat
    BY <1>4
  <2> HIDE DEF K
  <2> QED
    BY <2>1, <2>2
<1>14. m2 \in [Words -> Int]
  BY <1>3 DEF Written
<1> HIDE DEF K, P, H2
<1> DEFINE at2 == [at EXCEPT ![b] = Prepend(f, N, at[b])]
           len2 == [len EXCEPT ![b] = N + len[b]]
<1>15. /\ at2 \in Lists /\ len2 \in [Bins -> Nat]
       /\ Layout(m2, mp \cup P, [bn EXCEPT ![b] = f[0]], blocks, H2, at2, len2)
  <2>1. H \subseteq H2 /\ blocks \subseteq blocks
    BY DEF H2
  <2>2. Unwritten(m, m2, H, at, len)
    BY <1>7, <1>9 DEF Unwritten
  <2>3. Linked(m2, H2, bin2size(b), bn[b], f, N, at[b], len[b])
    BY <1>11
  <2>4. PICK mp2 : mp2 = mp \cup P
    OBVIOUS
  <2>5. HeapOK(m2, mp2, H2)
    BY <1>8, <2>4
  <2>6. N \in Nat \ {0} /\ f \in [0 .. N - 1 -> Int]
    BY <1>1
  <2>7. Prepended(m2, mp2, bn, blocks, H2, at, len, b, N, f)
    BY <1>12, <2>1, <2>2, <2>3, <2>5, <2>6, PrependLayout
  <2> QED
    BY <2>4, <2>7 DEF Prepended, at2, len2
<1>16. at2[b] = Prepend(f, N, at[b]) /\ len2[b] = N + len[b]
  BY DEF Lists
<1>17. \A i \in Nat : i >= N => i - N \in Nat /\ at2[b][i] = at[b][i - N]
  <2>1. at[b] \in [Nat -> Int]
    BY DEF Lists
  <2>2. IsPrepended(Prepend(f, N, at[b]), f, N, at[b])
    BY <1>1, <2>1, PrependIs
  <2> QED
    BY <1>16, <2>2 DEF IsPrepended
<1> HIDE DEF at2, len2
<1>18. f[0] = BlockAt(q, s, 0) /\ f[0] \in Nat \ {0}
  <2>1. f[0] \in K /\ f[0] = BlockAt(q, s, 0)
    BY <1>1, <1>13 DEF K
  <2> QED
    BY <1>4, <2>1
<1> QED
  BY <1>1, <1>13, <1>14, <1>15, <1>16, <1>17, <1>18 DEF P, CutBefore

-----------------------------------------------------------------------------
(* Every action keeps the invariant. *)

LEMMA MmapIs ==
    ASSUME NEW n, NEW p \in mmap0(n)
    PROVE  /\ p \in Nat \ {0} /\ p % PAGE = 0 /\ p \in Pages /\ p < HEAP
           /\ n > 0 /\ p + n <= HEAP /\ Over(p, n) \cap mapped = {}
  BY Constants DEF mmap0, Pages, NULL

\* What the lists need to stay as they are.
LEMMA LayoutStays ==
    ASSUME NEW m, NEW m2, NEW mp, NEW mp2, NEW bn, NEW blocks, NEW blocks2, NEW H, NEW H2,
           NEW at, NEW len, Layout(m, mp, bn, blocks, H, at, len),
           HeapOK(m2, mp2, H2), ClientOK(m2, H2, blocks2),
           \A c \in Bins : WordsStay(m, m2, H2, at[c], len[c]) /\ Lent(blocks2, at[c], len[c])
    PROVE  Layout(m2, mp2, bn, blocks2, H2, at, len)
<1>1. ASSUME NEW c \in Bins PROVE ListOK(m2, H2, bn[c], bin2size(c), at[c], len[c])
  <2>1. ListOK(m, H, bn[c], bin2size(c), at[c], len[c]) /\ WordsStay(m, m2, H2, at[c], len[c])
    BY DEF Layout
  <2> QED
    BY <2>1, ListStays DEF WordsStay
<1> QED
  BY <1>1 DEF Layout

\* The first block of a list.
LEMMA FirstBlock ==
    ASSUME NEW m \in [Words -> Int], NEW mp, NEW bn, NEW blocks, NEW H \in SUBSET Nat,
           NEW at, NEW len \in [Bins -> Nat],
           Layout(m, mp, bn, blocks, H, at, len), NEW b \in Bins, bn[b] # NULL
    PROVE  bn[b] \in Nat /\ m[bn[b]] \in Int
<1> PICK a, k, p : a = at[b] /\ k = len[b] /\ p = bn[b]
  OBVIOUS
<1>1. ListOK(m, H, p, bin2size(b), a, k) /\ HeapOK(m, mp, H) /\ k \in Nat
  BY DEF Layout
<1>2. p = a[0] /\ 0 \in 0 .. k - 1
  BY <1>1 DEF ListOK
<1>3. a[0] \in H /\ a[0] \in Words
  BY <1>1, <1>2, FreeBlock
<1> QED
  BY <1>2, <1>3

LEMMA RequestIsNat == Requests \subseteq Nat /\ \A n \in Requests : n < SIZES
  BY MemMgrAssumption

LEMMA SmallInv ==
    ASSUME Inv, NEW n \in Requests, malloc_small(n)
    PROVE  Inv'
<1> PICK b : b = size2bin(n)
  OBVIOUS
<1>1. /\ n \in Nat /\ n <= MaxSmall /\ bin[b] # NULL /\ call = Idle
      /\ live' = live \cup {[p |-> bin[b], n |-> n]}
      /\ bin' = [bin EXCEPT ![b] = mem[bin[b]]]
      /\ mem' = mem /\ mapped' = mapped /\ call' = call
  BY RequestIsNat DEF malloc_small, Calling
<1>2. TypeOK
  BY DEF Inv
<1>3. PICK H \in SUBSET Nat, at \in Lists, len \in [Bins -> Nat] :
          Layout(mem, mapped, bin, live, H, at, len)
  BY DEF Inv
<1>4. b \in Bins
  BY <1>1, BinOfRequest
<1>5. bin[b] \in Nat /\ mem[bin[b]] \in Int
  BY <1>1, <1>2, <1>3, <1>4, FirstBlock DEF TypeOK
<1>6. Popped(mem, mapped, bin, live, H, at, len, b, n)
  BY <1>1, <1>2, <1>3, PopLayout DEF TypeOK
<1>7. TypeOK'
  BY <1>1, <1>2, <1>4, <1>5 DEF TypeOK
<1> QED
  BY <1>1, <1>6, <1>7 DEF Popped, Inv

LEMMA FillInv ==
    ASSUME Inv, NEW n \in Requests, fill_bin(n)
    PROVE  Inv'
<1> PICK b, s : b = size2bin(n) /\ s = bin2size(b)
  OBVIOUS
<1>1. n \in Nat /\ n <= MaxSmall /\ bin[b] = NULL /\ call = Idle /\ call' = call
  BY RequestIsNat DEF fill_bin, Calling
<1>2. PICK p \in mmap0(BIGBLOCK) :
          /\ mem' = list_from_block(mem, s, p, NULL)
          /\ mapped' = mapped \cup Over(p, BIGBLOCK)
          /\ live' = live \cup {[p |-> BlockAt(p, s, 0), n |-> n]}
          /\ bin' = [bin EXCEPT ![b] = mem'[BlockAt(p, s, 0)]]
  BY DEF fill_bin
<1>3. TypeOK
  BY DEF Inv
<1>4. PICK H \in SUBSET Nat, at \in Lists, len \in [Bins -> Nat] :
          Layout(mem, mapped, bin, live, H, at, len)
  BY DEF Inv
<1>5. b \in Bins
  BY <1>1, BinOfRequest
<1>6. PICK m2, mp2, x, bn2 : /\ m2 = mem' /\ mp2 = mapped' /\ x = BlockAt(p, s, 0)
                             /\ bn2 = [bin EXCEPT ![b] = x]
  OBVIOUS
<1>7. PICK N : N = Nblocks(s)
  OBVIOUS
<1>8. /\ x \in Nat \ {0} /\ m2 \in [Words -> Int]
      /\ \E H2 \in SUBSET Nat, at2 \in Lists, len2 \in [Bins -> Nat] :
            Layout(m2, mp2, bn2, live, H2, at2, len2)
  <2>1. p \in Nat \ {0} /\ p % PAGE = 0 /\ p + BIGBLOCK <= HEAP /\ Over(p, BIGBLOCK) \cap mapped = {}
    BY MmapIs
  <2>2. m2 = list_from_block(mem, s, p, bin[b]) /\ mp2 = mapped \cup Over(p, BIGBLOCK)
    BY <1>1, <1>2, <1>6
  <2>3. mem \in [Words -> Int] /\ bin \in [Bins -> Int]
    BY <1>3 DEF TypeOK
  <2>4. /\ BlockAt(p, s, 0) \in Nat \ {0}
        /\ list_from_block(mem, s, p, bin[b]) \in [Words -> Int]
        /\ \E H2 \in SUBSET Nat, at2 \in Lists, len2 \in [Bins -> Nat] :
              Layout(list_from_block(mem, s, p, bin[b]), mapped \cup Over(p, BIGBLOCK),
                     [bin EXCEPT ![b] = BlockAt(p, s, 0)], live, H2, at2, len2)
    <3>1. CutBefore(mem, mapped, bin, live, at, len, b, p, s, N)
      BY <1>4, <1>5, <1>6, <1>7, <2>1, <2>3, CutLayout
    <3> QED
      BY <3>1 DEF CutBefore
  <2> QED
    BY <1>6, <2>2, <2>4
<1>9. PICK H2 \in SUBSET Nat, at2 \in Lists, len2 \in [Bins -> Nat] :
          Layout(m2, mp2, bn2, live, H2, at2, len2)
  BY <1>8
<1>10. bn2 \in [Bins -> Int] /\ bn2[b] = x /\ bn2[b] # NULL
  BY <1>3, <1>5, <1>6, <1>8 DEF TypeOK, NULL
<1>11. Popped(m2, mp2, bn2, live, H2, at2, len2, b, n)
  BY <1>1, <1>9, <1>10, PopLayout
<1>12. m2[x] \in Int
  BY <1>5, <1>8, <1>9, <1>10, FirstBlock
<1>13. [bn2 EXCEPT ![b] = m2[bn2[b]]] = bin'
  <2>1. [bn2 EXCEPT ![b] = m2[x]] = [bin EXCEPT ![b] = m2[x]]
    BY <1>3, <1>6 DEF TypeOK
  <2> QED
    BY <1>2, <1>6, <1>10, <2>1
<1>14. live \cup {[p |-> bn2[b], n |-> n]} = live'
  BY <1>2, <1>6, <1>10
<1>15. TypeOK'
  BY <1>1, <1>2, <1>3, <1>5, <1>6, <1>8, <1>12 DEF TypeOK
<1>16. \E at3 \in Lists, len3 \in [Bins -> Nat] : Layout(m2, mp2, bin', live', H2, at3, len3)
  BY <1>11, <1>13, <1>14 DEF Popped
<1>17. call' = Idle /\ m2 = mem' /\ mp2 = mapped'
  BY <1>1, <1>6
<1> QED
  BY <1>15, <1>16, <1>17 DEF Inv

LEMMA PreFillInv ==
    ASSUME Inv, NEW n \in Requests, pre_fill(n)
    PROVE  Inv'
<1> PICK b, s, N : b = size2bin(n) /\ s = bin2size(b) /\ N = Nblocks(s)
  OBVIOUS
<1>1. n \in Nat /\ n <= MaxSmall /\ call = Idle /\ call' = call /\ live' = live
  BY RequestIsNat DEF pre_fill
<1>2. PICK p \in mmap0(BIGBLOCK) : addBlock(b, p)
  BY DEF pre_fill
<1>3. TypeOK
  BY DEF Inv
<1>4. PICK H \in SUBSET Nat, at \in Lists, len \in [Bins -> Nat] :
          Layout(mem, mapped, bin, live, H, at, len)
  BY DEF Inv
<1>5. b \in Bins
  BY <1>1, BinOfRequest
<1>6. p \in Nat \ {0} /\ p % PAGE = 0 /\ p + BIGBLOCK <= HEAP /\ Over(p, BIGBLOCK) \cap mapped = {}
  BY MmapIs
<1>7. mem \in [Words -> Int] /\ bin \in [Bins -> Int]
  BY <1>3 DEF TypeOK
<1>8. /\ BlockAt(p, s, 0) \in Nat \ {0}
      /\ list_from_block(mem, s, p, bin[b]) \in [Words -> Int]
      /\ \E H2 \in SUBSET Nat, at2 \in Lists, len2 \in [Bins -> Nat] :
            Layout(list_from_block(mem, s, p, bin[b]), mapped \cup Over(p, BIGBLOCK),
                   [bin EXCEPT ![b] = BlockAt(p, s, 0)], live, H2, at2, len2)
  <2>1. CutBefore(mem, mapped, bin, live, at, len, b, p, s, N)
    BY <1>4, <1>5, <1>6, <1>7, CutLayout
  <2> QED
    BY <2>1 DEF CutBefore
<1>9. /\ mem' = list_from_block(mem, s, p, bin[b]) /\ mapped' = mapped \cup Over(p, BIGBLOCK)
      /\ bin' = [bin EXCEPT ![b] = BlockAt(p, s, 0)]
  BY <1>2 DEF addBlock
<1>10. TypeOK'
  BY <1>1, <1>3, <1>5, <1>8, <1>9 DEF TypeOK
<1> QED
  BY <1>1, <1>8, <1>9, <1>10 DEF Inv

LEMMA MoreInv ==
    ASSUME Inv, MoreChunks
    PROVE  Inv'
<1> PICK b, s, N : b = call.b /\ s = bin2size(b) /\ N = Nblocks(s)
  OBVIOUS
<1>1. /\ call # Idle /\ live' = live
      /\ call' = [call EXCEPT !.ful = call.ful + N]
  BY DEF MoreChunks, Chunks
<1>2. PICK p \in mmap0(BIGBLOCK) : addBlock(b, p)
  BY DEF MoreChunks
<1>3. TypeOK
  BY DEF Inv
<1>4. PICK H \in SUBSET Nat, at \in Lists, len \in [Bins -> Nat] :
          /\ Layout(mem, mapped, bin, live, H, at, len)
          /\ call.ful <= len[b] /\ at[b][call.ful] = call.old
  BY <1>1 DEF Inv
<1>5. b \in Bins /\ call.ful \in Nat
  BY <1>3 DEF TypeOK
<1>6. p \in Nat \ {0} /\ p % PAGE = 0 /\ p + BIGBLOCK <= HEAP /\ Over(p, BIGBLOCK) \cap mapped = {}
  BY MmapIs
<1>7. mem \in [Words -> Int] /\ bin \in [Bins -> Int]
  BY <1>3 DEF TypeOK
<1>8. /\ N \in Nat \ {0} /\ BlockAt(p, s, 0) \in Nat \ {0}
      /\ list_from_block(mem, s, p, bin[b]) \in [Words -> Int]
      /\ \E H2 \in SUBSET Nat, at2 \in Lists, len2 \in [Bins -> Nat] :
            /\ Layout(list_from_block(mem, s, p, bin[b]), mapped \cup Over(p, BIGBLOCK),
                      [bin EXCEPT ![b] = BlockAt(p, s, 0)], live, H2, at2, len2)
            /\ len2[b] = N + len[b]
            /\ \A i \in Nat : i >= N => i - N \in Nat /\ at2[b][i] = at[b][i - N]
  <2>1. CutBefore(mem, mapped, bin, live, at, len, b, p, s, N)
    BY <1>4, <1>5, <1>6, <1>7, CutLayout
  <2> QED
    BY <2>1 DEF CutBefore
<1>9. /\ mem' = list_from_block(mem, s, p, bin[b]) /\ mapped' = mapped \cup Over(p, BIGBLOCK)
      /\ bin' = [bin EXCEPT ![b] = BlockAt(p, s, 0)]
  BY <1>2 DEF addBlock
<1>10. PICK H2 \in SUBSET Nat, at2 \in Lists, len2 \in [Bins -> Nat] :
            /\ Layout(mem', mapped', bin', live, H2, at2, len2)
            /\ len2[b] = N + len[b]
            /\ \A i \in Nat : i >= N => i - N \in Nat /\ at2[b][i] = at[b][i - N]
  BY <1>8, <1>9
<1>11. /\ call' \in [b : Bins, req : Nat, ful : 0 .. INT_MAX, old : Int]
       /\ call'.b = b /\ call'.ful = call.ful + N /\ call'.old = call.old
  <2>1. INT_MAX - call.ful >= N /\ INT_MAX \in Nat
    BY MemMgrAssumption DEF MoreChunks, Chunks
  <2>2. call.ful + N \in 0 .. INT_MAX
    BY <1>5, <1>8, <2>1
  <2> QED
    BY <1>1, <1>3, <1>5, <1>8, <2>2 DEF TypeOK
<1>12. call.ful + N <= len2[b] /\ at2[b][call.ful + N] = call.old
  <2>1. len[b] \in Nat
    BY <1>5
  <2>2. call.ful + N \in Nat /\ call.ful + N >= N /\ (call.ful + N) - N = call.ful
    BY <1>5, <1>8
  <2>3. at2[b][call.ful + N] = at[b][(call.ful + N) - N]
    BY <1>10, <2>2
  <2>4. call.ful + N <= len2[b]
    BY <1>4, <1>5, <1>8, <1>10, <2>1
  <2> QED
    BY <1>4, <2>2, <2>3, <2>4
<1>13. TypeOK'
  BY <1>1, <1>3, <1>5, <1>8, <1>9, <1>11 DEF TypeOK
<1> QED
  BY <1>1, <1>10, <1>11, <1>12, <1>13 DEF Inv

\* A page that mmap0 gives is in the heap, and holds the size word at its start.
LEMMA FirstPage ==
    ASSUME NEW p \in Pages \ {NULL}, NEW n \in Nat \ {0}
    PROVE  /\ p \in Over(p, n) /\ Page(p + WORD) = p /\ p + WORD \in Words /\ p + U <= HEAP
           /\ \E k \in Nat \ {0} : p + U = k * U
<1>1. /\ WORD \in Nat \ {0} /\ U \in Nat \ {0} /\ U = WORD + WORD /\ PAGE \in Nat \ {0}
      /\ HEAP \in Nat
  BY Constants
<1>2. p \in Nat \ {0} /\ p < HEAP /\ p % PAGE = 0
  BY <1>1 DEF Pages, NULL
<1>3. PICK y \in Nat : PAGE = y * U
  BY Constants, Multiple
<1>4. PICK x \in Nat : p = x * PAGE
  BY <1>1, <1>2, Multiple
<1>5. PICK h \in Nat : HEAP = h * PAGE
  BY Constants, Multiple
<1>6. U <= PAGE
  <2>1. y # 0
    BY <1>1, <1>3
  <2> QED
    BY <1>1, <1>3, <2>1
<1>7. p + PAGE <= HEAP
  <2>1. x < h
    BY <1>1, <1>2, <1>4, <1>5
  <2>2. x * PAGE + PAGE <= h * PAGE
    BY <1>1, <2>1, MulStep
  <2> QED
    BY <1>4, <1>5, <2>2
<1>8. Page(p + WORD) = p
  <2>1. (x * PAGE + WORD) % PAGE = WORD
    <3>1. WORD \in 0 .. PAGE - 1
      BY <1>1, <1>6
    <3> QED
      BY <1>1, <3>1, ModOfMultiple
  <2>2. (p + WORD) % PAGE = WORD
    BY <1>4, <2>1
  <2> QED
    BY <1>1, <1>2, <2>2 DEF Page
<1>9. PICK k \in Nat \ {0} : p + U = k * U
  <2>1. PICK z \in Nat : z = x * y
    OBVIOUS
  <2>2. p = z * U
    <3>1. x * (y * U) = (x * y) * U
      BY <1>1
    <3> QED
      BY <1>3, <1>4, <2>1, <3>1
  <2>3. (z + 1) * U = z * U + U
    BY <1>1
  <2>4. z + 1 \in Nat \ {0}
    OBVIOUS
  <2> QED
    BY <2>2, <2>3, <2>4
<1>10. (p + WORD) % WORD = 0
  <2>1. (k * U - WORD) % WORD = 0
    BY Aligned
  <2>2. p + WORD = k * U - WORD
    BY <1>1, <1>2, <1>9
  <2> QED
    BY <2>1, <2>2
<1>11. p + WORD \in 0 .. HEAP - 1 /\ p + U <= HEAP
  BY <1>1, <1>2, <1>6, <1>7
<1>12. p \in Over(p, n)
  BY <1>1, <1>2 DEF Over
<1> QED
  BY <1>8, <1>9, <1>10, <1>11, <1>12 DEF Words

LEMMA LargeInv ==
    ASSUME Inv, NEW n \in Requests, malloc_large(n)
    PROVE  Inv'
<1>1. n \in Nat /\ n < SIZES /\ n > MaxSmall /\ call = Idle /\ call' = call /\ bin' = bin
  BY RequestIsNat DEF malloc_large, Calling
<1>2. PICK q \in mmap0(LargeLength(n)) :
          /\ mem' = [mem EXCEPT ![q + WASTE] = n]
          /\ mapped' = mapped \cup Over(q, LargeLength(n))
          /\ live' = live \cup {[p |-> q + WASTE + WORD, n |-> n]}
  BY DEF malloc_large
<1>3. PICK L, p, m2, P : L = LargeLength(n) /\ p = q + U /\ m2 = mem' /\ P = Over(q, L)
  OBVIOUS
<1>4. /\ WORD \in Nat \ {0} /\ U = WORD + WORD /\ WASTE = WORD /\ SIZES \in Nat /\ HEAP \in Nat
      /\ PAGE \in Nat
  BY Constants
<1>5. q \in Pages \ {NULL} /\ q \in Nat \ {0} /\ L \in Nat \ {0} /\ q + L <= HEAP /\ P \cap mapped = {}
  <2>1. /\ q \in Nat \ {0} /\ q \in Pages /\ L > 0 /\ q + L <= HEAP /\ P \cap mapped = {}
    BY <1>3, MmapIs
  <2>2. L \in Nat
    <3>1. n + WASTE + WORD \in Nat /\ SIZES \in Nat \ {0}
      BY <1>1, <1>4
    <3> QED
      BY <1>3, <3>1 DEF LargeLength
  <2> QED
    BY <2>1, <2>2 DEF NULL
<1>6. PICK w : w = q + WORD
  OBVIOUS
<1>7. /\ q \in P /\ Page(w) = q /\ w \in Words /\ p <= HEAP
      /\ \E k \in Nat \ {0} : p = k * U
  BY <1>3, <1>5, <1>6, FirstPage
<1>8. TypeOK
  BY DEF Inv
<1>9. PICK H \in SUBSET Nat, at \in Lists, len \in [Bins -> Nat] :
          Layout(mem, mapped, bin, live, H, at, len)
  BY DEF Inv
<1>10. /\ m2 \in [Words -> Int] /\ m2[w] = n /\ \A a \in Words : a # w => m2[a] = mem[a]
  BY <1>1, <1>2, <1>3, <1>4, <1>6, <1>7, <1>8 DEF TypeOK
<1>11. p \in Nat /\ p - WORD = w /\ p - U = q
  BY <1>3, <1>4, <1>5, <1>6
<1>12. Page(w) \notin mapped
  BY <1>5, <1>7
<1>13. HeapOK(m2, P, {p})
  <2>1. ~(n <= MaxSmall) /\ MaxSmall \in Nat
    BY <1>1, BinSizes, Constants DEF MaxSmall, bin2size
  <2>2. Region(p, n) = {a \in 0 .. HEAP - 1 : Page(a) \in P}
    BY <1>3, <1>11, <2>1 DEF Region
  <2>3. w \in Region(p, n)
    BY <1>7, <2>2 DEF Words
  <2>4. p - U \in Nat /\ p - U + L <= HEAP
    BY <1>5, <1>11
  <2>5. m2[p - WORD] = n
    BY <1>10, <1>11
  <2>6. BlockOK(m2, P, p)
    BY <1>1, <1>3, <1>7, <1>11, <2>1, <2>2, <2>3, <2>4, <2>5 DEF BlockOK
  <2> QED
    BY <2>6 DEF HeapOK
<1>14. HeapOK(mem, mapped, H) /\ ClientOK(mem, H, live)
  BY <1>9 DEF Layout
<1>15. \A x \in H : x - WORD # w /\ m2[x - WORD] = mem[x - WORD]
  <2>1. \A x \in H : x - WORD \in Words /\ Page(x - WORD) \in mapped
    BY <1>14 DEF HeapOK, BlockOK
  <2> QED
    BY <1>10, <1>12, <2>1
<1>16. HeapOK(m2, mapped \cup P, H \cup {p})
  BY <1>5, <1>13, <1>14, <1>15, HeapGrows
<1>17. p \notin H
  BY <1>11, <1>15
<1>18. PICK l : l = [p |-> p, n |-> n]
  OBVIOUS
<1>19. live' = live \cup {l} /\ l \in [p : Nat, n : Nat] /\ l.p = p /\ l.n = n
  <2>1. q + WASTE + WORD = p
    BY <1>3, <1>4, <1>5
  <2> QED
    BY <1>1, <1>2, <1>11, <1>18, <2>1
<1>20. ClientOK(m2, H \cup {p}, live')
  <2>1. /\ l.p \in H \cup {p} /\ l.n <= m2[l.p - WORD]
        /\ m2[l.p - WORD] > MaxSmall => m2[l.p - WORD] = l.n
    BY <1>1, <1>10, <1>11, <1>19
  <2>2. \A k \in live : k.p \in H
    BY <1>14 DEF ClientOK
  <2>3. \A k \in live : k.p # l.p
    BY <1>17, <1>19, <2>2
  <2>4. ASSUME NEW k \in live
        PROVE  /\ k.p \in H \cup {p} /\ k.n <= m2[k.p - WORD]
               /\ m2[k.p - WORD] > MaxSmall => m2[k.p - WORD] = k.n
    BY <1>14, <1>15, <2>2 DEF ClientOK
  <2> QED
    BY <1>14, <1>19, <2>1, <2>3, <2>4 DEF ClientOK
<1>21. ASSUME NEW c \in Bins
       PROVE  WordsStay(mem, m2, H \cup {p}, at[c], len[c]) /\ Lent(live', at[c], len[c])
  <2>1. PICK a, k, t : a = at[c] /\ k = len[c] /\ t = bin[c]
    OBVIOUS
  <2>2. ListOK(mem, H, t, bin2size(c), a, k) /\ Lent(live, a, k)
    BY <1>9, <2>1 DEF Layout
  <2>3. ASSUME NEW i \in 0 .. k - 1
        PROVE  a[i] \in H /\ m2[a[i] - WORD] = mem[a[i] - WORD] /\ m2[a[i]] = mem[a[i]]
    <3>1. PICK x : x = a[i]
      OBVIOUS
    <3>2. x \in H /\ x \in Words /\ BlockOK(mem, mapped, x) /\ x \in Region(x, mem[x - WORD])
      BY <1>14, <2>2, <3>1, FreeBlock
    <3>3. Page(x) \in mapped
      BY <3>2 DEF BlockOK
    <3> QED
      BY <1>10, <1>12, <1>15, <3>1, <3>2, <3>3
  <2> QED
    BY <1>17, <1>19, <2>1, <2>2, <2>3 DEF WordsStay, Lent
<1>22. Layout(m2, mapped \cup P, bin, live', H \cup {p}, at, len)
  BY <1>9, <1>16, <1>20, <1>21, LayoutStays
<1>23. Layout(mem', mapped', bin', live', H \cup {p}, at, len) /\ H \cup {p} \in SUBSET Nat
  BY <1>1, <1>2, <1>3, <1>11, <1>22
<1>24. TypeOK'
  BY <1>1, <1>3, <1>8, <1>10, <1>19 DEF TypeOK
<1> QED
  BY <1>1, <1>23, <1>24 DEF Inv

\* The block at p is no other's: no other block has a byte of it, nor has a list.
OwnedAlone(p, H, at, len) ==
    /\ p \in H /\ BlockOK(mem, mapped, p)
    /\ \A q \in H : q # p =>
          /\ q - WORD \in Words /\ q - WORD \in Region(q, mem[q - WORD])
          /\ Region(q, mem[q - WORD]) \cap Region(p, mem[p - WORD]) = {}
    /\ \A c \in Bins : \A i \in 0 .. len[c] - 1 :
          /\ at[c][i] \in H /\ at[c][i] # p /\ at[c][i] \in Words
          /\ at[c][i] \in Region(at[c][i], mem[at[c][i] - WORD])

LEMMA OwnWords ==
    ASSUME NEW H \in SUBSET Nat, NEW at \in Lists, NEW len \in [Bins -> Nat],
           Layout(mem, mapped, bin, live, H, at, len), NEW l \in live
    PROVE  OwnedAlone(l.p, H, at, len)
<1>1. HeapOK(mem, mapped, H) /\ l.p \in H
  BY DEF Layout, ClientOK
<1>2. ASSUME NEW c \in Bins, NEW i \in 0 .. len[c] - 1
      PROVE  /\ at[c][i] \in H /\ at[c][i] # l.p /\ at[c][i] \in Words
             /\ at[c][i] \in Region(at[c][i], mem[at[c][i] - WORD])
  <2>1. PICK a, k, t, x : a = at[c] /\ k = len[c] /\ t = bin[c] /\ x = a[i]
    OBVIOUS
  <2>2. ListOK(mem, H, t, bin2size(c), a, k) /\ Lent(live, a, k)
    BY <2>1 DEF Layout
  <2>3. x \in H /\ x \in Words /\ x \in Region(x, mem[x - WORD])
    BY <1>1, <2>1, <2>2, FreeBlock
  <2>4. x # l.p
    BY <2>1, <2>2 DEF Lent
  <2> QED
    BY <2>1, <2>3, <2>4
<1>3. ASSUME NEW q \in H, q # l.p
      PROVE  /\ q - WORD \in Words /\ q - WORD \in Region(q, mem[q - WORD])
             /\ Region(q, mem[q - WORD]) \cap Region(l.p, mem[l.p - WORD]) = {}
  BY <1>1, <1>3 DEF HeapOK, BlockOK
<1> QED
  BY <1>1, <1>2, <1>3 DEF HeapOK, OwnedAlone

LEMMA FreeSmallInv ==
    ASSUME Inv, NEW block \in live, free_small(block)
    PROVE  Inv'
<1> PICK p, s, b : p = block.p /\ s = mem[p - WORD] /\ b = size2bin(s)
  OBVIOUS
<1>1. /\ call = Idle /\ call' = call /\ s <= MaxSmall /\ mapped' = mapped
      /\ mem' = [mem EXCEPT ![p] = bin[b]] /\ bin' = [bin EXCEPT ![b] = p]
      /\ live' = live \ {block}
  BY DEF free_small
<1>2. TypeOK
  BY DEF Inv
<1>3. PICK H \in SUBSET Nat, at \in Lists, len \in [Bins -> Nat] :
          Layout(mem, mapped, bin, live, H, at, len)
  BY DEF Inv
<1>4. /\ p \in H /\ BlockOK(mem, mapped, p)
      /\ \A q \in H : q # p =>
            /\ q - WORD \in Words /\ q - WORD \in Region(q, mem[q - WORD])
            /\ Region(q, mem[q - WORD]) \cap Region(p, s) = {}
      /\ \A c \in Bins : \A i \in 0 .. len[c] - 1 :
            at[c][i] \in H /\ at[c][i] # p /\ at[c][i] \in Words
  <2>1. OwnedAlone(p, H, at, len)
    BY <1>3, OwnWords
  <2> QED
    BY <2>1 DEF OwnedAlone
<1>5. b \in Bins /\ s = bin2size(b)
  <2>1. PICK c \in Bins : s = bin2size(c)
    BY <1>1, <1>4 DEF BlockOK
  <2>2. size2bin(bin2size(c)) = c
    BY BinSizes
  <2> QED
    BY <2>1, <2>2
<1>6. p \in Region(p, s) /\ p \in Words /\ p \in Nat /\ p - WORD \in Words
  <2>1. p \in Region(p, s) /\ p \in Words
    BY <1>4, <1>5, SmallBlock
  <2> QED
    BY <1>4, <2>1 DEF BlockOK
<1>7. PICK m2 : m2 = mem'
  OBVIOUS
<1>8. m2 \in [Words -> Int] /\ m2[p] = bin[b] /\ \A a \in Words : a # p => m2[a] = mem[a]
  BY <1>1, <1>2, <1>5, <1>6, <1>7 DEF TypeOK
<1>9. \A q \in H : m2[q - WORD] = mem[q - WORD]
  <2>1. p - WORD # p
    BY <1>6, Constants
  <2>2. m2[p - WORD] = mem[p - WORD]
    BY <1>6, <1>8, <2>1
  <2>3. \A q \in H : q # p => q - WORD \in Words /\ q - WORD # p
    BY <1>4, <1>6
  <2> QED
    BY <1>8, <2>2, <2>3
<1>10. Unwritten(mem, m2, H, at, len)
  BY <1>4, <1>8, <1>9 DEF Unwritten
<1>11. HeapOK(m2, mapped, H)
  <2>1. HeapOK(mem, mapped, H)
    BY <1>3 DEF Layout
  <2> QED
    BY <1>9, <2>1, HeapStays
<1> DEFINE f == [j \in 0 .. 1 - 1 |-> p]
<1>12. f[0] = p /\ f \in [0 .. 1 - 1 -> Int] /\ \A j \in 0 .. 1 - 1 : j = 0 /\ f[j] = p
  BY <1>6
<1> HIDE DEF f
<1>13. Linked(m2, H, bin2size(b), bin[b], f, 1, at[b], len[b])
  <2>1. m2[p - WORD] = bin2size(b)
    BY <1>4, <1>5, <1>9
  <2>2. \A i \in 0 .. len[b] - 1 : at[b][i] # p
    BY <1>4, <1>5
  <2>3. 1 - 1 = 0
    OBVIOUS
  <2> QED
    BY <1>4, <1>8, <1>12, <2>1, <2>2, <2>3 DEF Linked
<1>14. Lent(live', f, 1)
  <2>1. ClientOK(mem, H, live)
    BY <1>3 DEF Layout
  <2>2. \A l \in live' : l.p # p
    BY <1>1, <2>1 DEF ClientOK
  <2> QED
    BY <1>12, <2>2 DEF Lent
<1>15. live' \subseteq live /\ H \subseteq H /\ 1 \in Nat \ {0} /\ bin \in [Bins -> Int]
  BY <1>1, <1>2 DEF TypeOK
<1>16. Prepended(m2, mapped, bin, live', H, at, len, b, 1, f)
  <2>1. PICK blocks2 : blocks2 = live'
    OBVIOUS
  <2>2. Lent(blocks2, f, 1) /\ blocks2 \subseteq live
    BY <1>14, <1>15, <2>1
  <2>3. Prepended(m2, mapped, bin, blocks2, H, at, len, b, 1, f)
    BY <1>3, <1>5, <1>10, <1>11, <1>12, <1>13, <1>15, <2>2, PrependLayout
  <2> QED
    BY <2>1, <2>3
<1>17. TypeOK'
  BY <1>1, <1>2, <1>5, <1>6, <1>7, <1>8 DEF TypeOK
<1>18. bin' = [bin EXCEPT ![b] = f[0]] /\ mapped' = mapped /\ call' = Idle
  BY <1>1, <1>12
<1> QED
  BY <1>7, <1>16, <1>17, <1>18 DEF Prepended, Inv

LEMMA FreeLargeInv ==
    ASSUME Inv, NEW block \in live, free_large(block)
    PROVE  Inv'
<1> PICK p, s : p = block.p /\ s = mem[p - WORD]
  OBVIOUS
<1> DEFINE gone == Over(p - U, LargeLength(s))
<1>1. /\ call = Idle /\ call' = call /\ s > MaxSmall /\ mapped' = mapped \ gone /\ bin' = bin
      /\ mem' = [a \in DOMAIN mem |-> IF Page(a) \in gone THEN 0 ELSE mem[a]]
      /\ live' = live \ {block}
  <2>1. WASTE + WORD = U
    BY Constants
  <2> QED
    BY <2>1 DEF free_large, Page
<1>2. TypeOK
  BY DEF Inv
<1>3. PICK H \in SUBSET Nat, at \in Lists, len \in [Bins -> Nat] :
          Layout(mem, mapped, bin, live, H, at, len)
  BY DEF Inv
<1>4. /\ p \in H /\ BlockOK(mem, mapped, p)
      /\ \A q \in H : q # p =>
            /\ q - WORD \in Words /\ q - WORD \in Region(q, mem[q - WORD])
            /\ Region(q, mem[q - WORD]) \cap Region(p, s) = {}
      /\ \A c \in Bins : \A i \in 0 .. len[c] - 1 :
            /\ at[c][i] \in H /\ at[c][i] # p /\ at[c][i] \in Words
            /\ at[c][i] \in Region(at[c][i], mem[at[c][i] - WORD])
  <2>1. OwnedAlone(p, H, at, len)
    BY <1>3, OwnWords
  <2> QED
    BY <2>1 DEF OwnedAlone
<1>5. Region(p, s) = {a \in 0 .. HEAP - 1 : Page(a) \in gone}
  <2>1. s \in Nat /\ MaxSmall \in Nat
    BY <1>4, BinSizes, Constants DEF BlockOK, MaxSmall, bin2size
  <2>2. ~(s <= MaxSmall)
    BY <1>1, <2>1
  <2> QED
    BY <2>2 DEF Region
<1> HIDE DEF gone
<1>6. PICK m2 : m2 = mem'
  OBVIOUS
<1>7. /\ m2 \in [Words -> Int]
      /\ \A a \in Words : m2[a] = IF Page(a) \in gone THEN 0 ELSE mem[a]
  BY <1>1, <1>2, <1>6 DEF TypeOK
<1>8. HeapOK(mem, mapped, H) /\ ClientOK(mem, H, live)
  BY <1>3 DEF Layout
<1> DEFINE H2 == H \ {p}
<1>9. ASSUME NEW q \in H2, NEW a \in Region(q, mem[q - WORD])
      PROVE  a \in 0 .. HEAP - 1 /\ Page(a) \in mapped /\ Page(a) \notin gone
  <2>1. BlockOK(mem, mapped, q)
    BY <1>8 DEF HeapOK
  <2>2. a \in 0 .. HEAP - 1 /\ Page(a) \in mapped
    BY <2>1 DEF BlockOK
  <2>3. a \notin Region(p, s)
    BY <1>4
  <2> QED
    BY <1>5, <2>2, <2>3
<1>10. \A q \in H2 : m2[q - WORD] = mem[q - WORD]
  BY <1>4, <1>7, <1>9
<1>11. HeapOK(m2, mapped \ gone, H2)
  <2>1. HeapOK(mem, mapped, H2)
    BY <1>8 DEF HeapOK
  <2>2. \A q \in H2 : \A a \in Region(q, mem[q - WORD]) :
            a \in 0 .. HEAP - 1 /\ Page(a) \in mapped => Page(a) \in mapped \ gone
    BY <1>9
  <2> HIDE DEF H2
  <2> QED
    BY <1>10, <2>1, <2>2, HeapStays
<1>12. \A l \in live' : l \in live /\ l.p \in H2
  BY <1>1, <1>8 DEF ClientOK
<1>13. ClientOK(m2, H2, live')
  <2> HIDE DEF H2
  <2> QED
    BY <1>8, <1>10, <1>12 DEF ClientOK
<1>14. ASSUME NEW c \in Bins
       PROVE  WordsStay(mem, m2, H2, at[c], len[c]) /\ Lent(live', at[c], len[c])
  <2>1. ASSUME NEW i \in 0 .. len[c] - 1
        PROVE  /\ at[c][i] \in H2 /\ m2[at[c][i] - WORD] = mem[at[c][i] - WORD]
               /\ m2[at[c][i]] = mem[at[c][i]]
    <3>1. at[c][i] \in H2 /\ at[c][i] \in Words /\ at[c][i] \in Region(at[c][i], mem[at[c][i] - WORD])
      BY <1>4
    <3>2. Page(at[c][i]) \notin gone
      BY <1>9, <3>1
    <3> HIDE DEF H2
    <3> QED
      BY <1>7, <1>10, <3>1, <3>2
  <2>2. Lent(live, at[c], len[c])
    BY <1>3 DEF Layout
  <2> QED
    BY <1>12, <2>1, <2>2 DEF WordsStay, Lent
<1>15. Layout(m2, mapped \ gone, bin, live', H2, at, len)
  <2> HIDE DEF H2
  <2> QED
    BY <1>3, <1>11, <1>13, <1>14, LayoutStays
<1>16. TypeOK'
  BY <1>1, <1>2, <1>6, <1>7 DEF TypeOK
<1>17. H2 \in SUBSET Nat
  OBVIOUS
<1> HIDE DEF H2
<1> QED
  BY <1>1, <1>6, <1>15, <1>16, <1>17 DEF Inv

\* A word that ends after the word p starts does not start before it.
LEMMA WordsApart ==
    ASSUME NEW a \in Nat, NEW p \in Nat, a % WORD = 0, p % WORD = 0, p < a + WORD
    PROVE  p <= a
<1>1. WORD \in Nat \ {0}
  BY Constants
<1>2. PICK i \in Nat, j \in Nat : a = i * WORD /\ p = j * WORD
  <2>1. \A d \in Nat \ {0} : a % d = 0 => \E k \in Nat : a = k * d
    BY Multiple
  <2>2. \A d \in Nat \ {0} : p % d = 0 => \E k \in Nat : p = k * d
    BY Multiple
  <2> QED
    BY <1>1, <2>1, <2>2
<1>3. i < j => i * WORD + WORD <= j * WORD
  BY <1>1, MulStep
<1>4. j < i => j * WORD + WORD <= i * WORD
  BY <1>1, MulStep
<1>5. i < j \/ j < i \/ i = j
  BY <1>2
<1> QED
  BY <1>1, <1>2, <1>3, <1>4, <1>5

LEMMA WriteInv ==
    ASSUME Inv, NEW block \in live, write(block)
    PROVE  Inv'
<1> PICK p, s, n : p = block.p /\ s = mem[p - WORD] /\ n = block.n
  OBVIOUS
<1>1. /\ call = Idle /\ call' = call /\ n < HEAP /\ mapped' = mapped /\ bin' = bin /\ live' = live
      /\ mem' = [a \in DOMAIN mem |-> IF p < a + WORD /\ a < p + n THEN Junk ELSE mem[a]]
  BY DEF write
<1>2. TypeOK
  BY DEF Inv
<1>3. PICK H \in SUBSET Nat, at \in Lists, len \in [Bins -> Nat] :
          Layout(mem, mapped, bin, live, H, at, len)
  BY DEF Inv
<1>4. /\ p \in H /\ BlockOK(mem, mapped, p)
      /\ \A q \in H : q # p =>
            /\ q - WORD \in Words /\ q - WORD \in Region(q, mem[q - WORD])
            /\ Region(q, mem[q - WORD]) \cap Region(p, s) = {}
      /\ \A c \in Bins : \A i \in 0 .. len[c] - 1 :
            /\ at[c][i] \in H /\ at[c][i] # p /\ at[c][i] \in Words
            /\ at[c][i] \in Region(at[c][i], mem[at[c][i] - WORD])
  <2>1. OwnedAlone(p, H, at, len)
    BY <1>3, OwnWords
  <2> QED
    BY <2>1 DEF OwnedAlone
<1>5. HeapOK(mem, mapped, H) /\ ClientOK(mem, H, live)
  BY <1>3 DEF Layout
<1>6. /\ WORD \in Nat \ {0} /\ U = WORD + WORD /\ WASTE = WORD /\ SIZES \in Nat /\ HEAP \in Nat
      /\ HEAP + U <= SIZES /\ MaxSmall \in Nat
  BY Constants, BinSizes DEF MaxSmall, bin2size
<1>7. /\ n \in Nat /\ n <= s /\ (s > MaxSmall => s = n) /\ s \in Nat /\ p \in Nat /\ p - WORD \in Words
      /\ s > MaxSmall => p - U \in Nat /\ p - U + LargeLength(s) <= HEAP
  BY <1>2, <1>4, <1>5 DEF TypeOK, ClientOK, BlockOK
\* What is written is the block's own.
<1>8. ASSUME NEW a \in Words, p < a + WORD, a < p + n PROVE p <= a /\ a \in Region(p, s)
  <2>1. p <= a
    <3>1. PICK k \in Nat \ {0} : p = k * U
      BY <1>4 DEF BlockOK
    <3>2. p \in Nat /\ p % WORD = 0
      BY <3>1, Aligned
    <3>3. a \in Nat /\ a % WORD = 0
      BY <1>6 DEF Words
    <3> QED
      BY <1>8, <3>2, <3>3, WordsApart
  <2>2. CASE s <= MaxSmall
    <3>1. Region(p, s) = (p - WORD) .. (p + s - 1)
      BY <2>2 DEF Region
    <3>2. a \in (p - WORD) .. (p + s - 1)
      BY <1>6, <1>7, <1>8, <2>1 DEF Words
    <3> QED
      BY <2>1, <3>1, <3>2
  <2>3. CASE ~(s <= MaxSmall)
    <3>1. s = n
      BY <1>6, <1>7, <2>3
    <3>2. LargeLength(s) = n + U
      <4>1. n + U \in Nat /\ n + U < SIZES
        BY <1>1, <1>6, <1>7
      <4>2. (n + U) % SIZES = n + U
        <5>1. \A x, y \in Nat : x < y => x % y = x
          OBVIOUS
        <5> QED
          BY <1>6, <4>1, <5>1
      <4>3. s + WASTE + WORD = n + U
        BY <1>6, <1>7, <3>1
      <4> QED
        BY <4>2, <4>3 DEF LargeLength
    <3>3. PICK q, len2 : q = p - U /\ len2 = n + U
      OBVIOUS
    <3>4. q \in Nat /\ len2 \in Nat /\ q + len2 <= HEAP /\ a \in q .. q + len2 - 1
      <4>1. s > MaxSmall
        BY <1>6, <1>7, <2>3
      <4>2. q \in Nat /\ len2 \in Nat /\ q + len2 <= HEAP
        BY <1>6, <1>7, <3>2, <3>3, <4>1
      <4> QED
        BY <1>6, <1>7, <1>8, <2>1, <3>3, <4>2 DEF Words
    <3>5. a \in 0 .. HEAP - 1 /\ Page(a) \in Over(q, len2)
      BY <3>4, Covers
    <3> QED
      BY <2>1, <2>3, <3>2, <3>3, <3>5 DEF Region
  <2> QED
    BY <2>2, <2>3
<1>9. PICK m2 : m2 = mem'
  OBVIOUS
<1>10. /\ m2 \in [Words -> Int]
       /\ \A a \in Words : a \notin Region(p, s) \/ a < p => m2[a] = mem[a]
  <2>1. \A a \in Words : m2[a] = IF p < a + WORD /\ a < p + n THEN Junk ELSE mem[a]
    BY <1>1, <1>2, <1>9 DEF TypeOK
  <2>2. m2 \in [Words -> Int]
    BY <1>1, <1>2, <1>9 DEF TypeOK, Junk
  <2>3. \A a \in Words : a < p => ~(p <= a)
    BY <1>6, <1>7 DEF Words
  <2> QED
    BY <1>8, <2>1, <2>2, <2>3
<1>11. \A q \in H : m2[q - WORD] = mem[q - WORD]
  <2>1. p - WORD < p
    BY <1>6, <1>7
  <2>2. m2[p - WORD] = mem[p - WORD]
    BY <1>7, <1>10, <2>1
  <2>3. \A q \in H : q # p => q - WORD \in Words /\ q - WORD \notin Region(p, s)
    BY <1>4
  <2> QED
    BY <1>10, <2>2, <2>3
<1>12. HeapOK(m2, mapped, H)
  BY <1>5, <1>11, HeapStays
<1>13. ClientOK(m2, H, live)
  BY <1>5, <1>11 DEF ClientOK
<1>14. ASSUME NEW c \in Bins
       PROVE  WordsStay(mem, m2, H, at[c], len[c]) /\ Lent(live, at[c], len[c])
  <2>1. ASSUME NEW i \in 0 .. len[c] - 1
        PROVE  /\ at[c][i] \in H /\ m2[at[c][i] - WORD] = mem[at[c][i] - WORD]
               /\ m2[at[c][i]] = mem[at[c][i]]
    <3>1. PICK x : x = at[c][i]
      OBVIOUS
    <3>2. x \in H /\ x # p /\ x \in Words /\ x \in Region(x, mem[x - WORD])
      BY <1>4, <3>1
    <3>3. x \notin Region(p, s)
      BY <1>4, <3>2
    <3> QED
      BY <1>10, <1>11, <3>1, <3>2, <3>3
  <2> QED
    BY <1>3, <2>1 DEF WordsStay, Layout
<1>15. Layout(m2, mapped, bin, live, H, at, len)
  BY <1>3, <1>12, <1>13, <1>14, LayoutStays
<1>16. TypeOK'
  BY <1>1, <1>2, <1>9, <1>10 DEF TypeOK
<1> QED
  BY <1>1, <1>9, <1>15, <1>16 DEF Inv

LEMMA TryInv ==
    ASSUME Inv, NEW n \in Requests, NEW req \in 1 .. MaxReq, try_pre_fill(n, req)
    PROVE  Inv'
<1> PICK b : b = size2bin(n)
  OBVIOUS
<1>1. /\ n \in Nat /\ n <= MaxSmall
      /\ call' = [b |-> b, req |-> req, ful |-> 0, old |-> bin[b]]
      /\ mem' = mem /\ bin' = bin /\ mapped' = mapped /\ live' = live
  BY RequestIsNat DEF try_pre_fill
<1>2. TypeOK
  BY DEF Inv
<1>3. PICK H \in SUBSET Nat, at \in Lists, len \in [Bins -> Nat] :
          Layout(mem, mapped, bin, live, H, at, len)
  BY DEF Inv
<1>4. b \in Bins
  BY <1>1, BinOfRequest
<1>5. req \in Nat
  BY MemMgrAssumption
<1>6. call' \in [b : Bins, req : Nat, ful : 0 .. INT_MAX, old : Int]
  <2>1. 0 \in 0 .. INT_MAX
    BY MemMgrAssumption
  <2> QED
    BY <1>1, <1>2, <1>4, <1>5, <2>1 DEF TypeOK
<1>7. call'.ful <= len[call'.b] /\ at[call'.b][call'.ful] = call'.old
  <2>1. ListOK(mem, H, bin[b], bin2size(b), at[b], len[b])
    BY <1>3, <1>4 DEF Layout
  <2>2. at[b][0] = bin[b] /\ 0 <= len[b]
    BY <1>4, <2>1 DEF ListOK
  <2> QED
    BY <1>1, <2>2
<1>8. TypeOK'
  BY <1>1, <1>2, <1>6 DEF TypeOK
<1> QED
  BY <1>1, <1>3, <1>7, <1>8 DEF Inv

LEMMA EndInv ==
    ASSUME Inv, EndPreFill
    PROVE  Inv'
<1>1. 0 \in Bins
  BY Constants DEF Bins
<1>2. /\ call' = Idle /\ mem' = mem /\ bin' = bin /\ mapped' = mapped /\ live' = live
  BY DEF EndPreFill
<1>3. TypeOK'
  <2>1. 0 \in 0 .. INT_MAX
    BY MemMgrAssumption
  <2> QED
    BY <1>1, <1>2, <2>1 DEF Inv, TypeOK, Idle, NULL
<1> QED
  BY <1>2, <1>3 DEF Inv

LEMMA NextInv == Inv /\ [Next]_vars => Inv'
<1> SUFFICES ASSUME Inv, [Next]_vars PROVE Inv'
  OBVIOUS
<1>1. CASE UNCHANGED vars
  BY <1>1 DEF vars, Inv, TypeOK
<1>2. CASE \E n \in Requests : malloc_small(n) \/ fill_bin(n) \/ malloc_large(n)
  BY <1>2, SmallInv, FillInv, LargeInv
<1>3. CASE \E block \in live : free_small(block) \/ free_large(block) \/ write(block)
  BY <1>3, FreeSmallInv, FreeLargeInv, WriteInv
<1>4. CASE \E n \in Requests : pre_fill(n) \/ \E req \in 1 .. MaxReq : try_pre_fill(n, req)
  BY <1>4, PreFillInv, TryInv
<1>5. CASE MoreChunks \/ EndPreFill
  BY <1>5, MoreInv, EndInv
<1> QED
  BY <1>1, <1>2, <1>3, <1>4, <1>5 DEF Next

\* Whatever the client asks for, frees and writes, the heap is a set of blocks with
\* bytes of their own and each list a chain of them: malloc, fill_bin, pre_fill and
\* try_pre_fill, free and munmap keep it so.
THEOREM HeapInvariance == Spec => []Inv
<1>1. Init => Inv
  BY InitInv
<1>2. Inv /\ [Next]_vars => Inv'
  BY NextInv
<1> QED
  BY <1>1, <1>2, PTL DEF Spec

-----------------------------------------------------------------------------
(* What the invariant says of the lists: that they end, and where. *)

LEMMA HeapInUnits == MaxBlocks \in Nat /\ \E r \in 0 .. U - 1 : HEAP = MaxBlocks * U + r
<1>0. U \in Nat \ {0} /\ HEAP \in Nat
  BY Constants
<1>1. PICK h \in Nat : h = HEAP
  BY <1>0
<1>2. PICK q, r : q = h \div U /\ r = h % U
  OBVIOUS
<1>3. q \in Nat /\ r \in 0 .. U - 1 /\ h = q * U + r
  <2>1. \A d \in Nat \ {0} : q = h \div d /\ r = h % d =>
            q \in Nat /\ r \in 0 .. d - 1 /\ h = q * d + r
    BY DivBounds
  <2> QED
    BY <1>0, <1>2, <2>1
<1>4. q = MaxBlocks
  BY <1>1, <1>2 DEF MaxBlocks, U
<1> QED
  BY <1>1, <1>3, <1>4

\* There are no more blocks than fit in the heap.
LEMMA ListsAreShort ==
    ASSUME NEW m, NEW mp, NEW H, HeapOK(m, mp, H), NEW b \in Bins,
           NEW p, NEW at \in [Nat -> Int], NEW len \in Nat, ListOK(m, H, p, bin2size(b), at, len)
    PROVE  MaxBlocks \in Nat /\ len <= MaxBlocks
<1>1. U \in Nat \ {0} /\ HEAP \in Nat /\ MaxBlocks = HEAP \div U
  BY Constants DEF MaxBlocks, U
<1>3. PICK r \in 0 .. U - 1 : MaxBlocks \in Nat /\ HEAP = MaxBlocks * U + r
  BY HeapInUnits
<1>4. ASSUME NEW i \in 0 .. len - 1
      PROVE  \E k \in 1 .. MaxBlocks : at[i] = k * U
  <2>1. BlockOK(m, mp, at[i]) /\ at[i] \in Words
    BY FreeBlock
  <2>2. PICK k \in Nat \ {0} : at[i] = k * U
    BY <2>1 DEF BlockOK
  <2>3. k * U < HEAP
    BY <1>1, <2>1, <2>2 DEF Words
  <2>4. k <= MaxBlocks
    <3>1. ASSUME MaxBlocks < k PROVE FALSE
      <4>1. MaxBlocks * U + U <= k * U
        BY <1>1, <1>3, <3>1, MulStep
      <4>2. PICK x \in Nat, y \in Nat : x = MaxBlocks * U /\ y = k * U
        BY <1>1, <1>3
      <4> QED
        BY <1>1, <1>3, <2>3, <4>1, <4>2
    <3> QED
      BY <1>3, <3>1
  <2> QED
    BY <1>3, <2>2, <2>4
<1> DEFINE num == [i \in 0 .. len - 1 |-> CHOOSE k \in 1 .. MaxBlocks : at[i] = k * U]
<1>5. num \in [0 .. len - 1 -> 1 .. MaxBlocks] /\ \A i \in 0 .. len - 1 : at[i] = num[i] * U
  BY <1>4
<1> HIDE DEF num
<1>6. SUFFICES ASSUME MaxBlocks < len PROVE FALSE
  BY <1>3
<1>7. IsFiniteSet(0 .. len - 1) /\ Cardinality(0 .. len - 1) = len
  <2>1. 0 \in Int /\ len - 1 \in Int /\ ~(0 > len - 1) /\ (len - 1) - 0 + 1 = len
    BY <1>3, <1>6
  <2>2. /\ IsFiniteSet(0 .. len - 1)
        /\ Cardinality(0 .. len - 1) = IF 0 > len - 1 THEN 0 ELSE (len - 1) - 0 + 1
    BY <2>1, FS_Interval, Zenon
  <2> QED
    BY <2>1, <2>2
<1>8. IsFiniteSet(1 .. MaxBlocks) /\ Cardinality(1 .. MaxBlocks) = MaxBlocks
  <2>1. 1 \in Int /\ MaxBlocks \in Int
    BY <1>3
  <2>2. /\ IsFiniteSet(1 .. MaxBlocks)
        /\ Cardinality(1 .. MaxBlocks) = IF 1 > MaxBlocks THEN 0 ELSE MaxBlocks - 1 + 1
    BY <2>1, FS_Interval, Zenon
  <2>3. PICK c : c = Cardinality(1 .. MaxBlocks)
    OBVIOUS
  <2>4. c = IF 1 > MaxBlocks THEN 0 ELSE MaxBlocks - 1 + 1
    BY <2>2, <2>3, Zenon
  <2>5. c = MaxBlocks
    BY <1>3, <2>4
  <2> QED
    BY <2>2, <2>3, <2>5, Zenon
<1>9. \E i, j \in 0 .. len - 1 : i # j /\ num[i] = num[j]
  <2>1. PICK S, T, x, y : S = 0 .. len - 1 /\ T = 1 .. MaxBlocks /\ x = len /\ y = MaxBlocks
    OBVIOUS
  <2>2. /\ IsFiniteSet(S) /\ IsFiniteSet(T) /\ num \in [S -> T]
        /\ Cardinality(S) = x /\ Cardinality(T) = y /\ y < x
    BY <1>5, <1>6, <1>7, <1>8, <2>1
  <2>3. \E i, j \in S : i # j /\ num[i] = num[j]
    BY <2>2, FS_PigeonHole
  <2> QED
    BY <2>1, <2>3
<1>10. PICK i \in 0 .. len - 1, j \in 0 .. len - 1 : i # j /\ at[i] = at[j]
  BY <1>5, <1>9
<1> QED
  BY <1>10 DEF ListOK

\* The free blocks of a bin are those the invariant numbers.
LEMMA WalkOfList ==
    ASSUME TypeOK, NEW H, HeapOK(mem, mapped, H), NEW b \in Bins,
           NEW at \in [Nat -> Int], NEW len \in Nat, ListOK(mem, H, bin[b], bin2size(b), at, len)
    PROVE  /\ Walk(bin[b]) = at /\ at[MaxBlocks] = NULL
           /\ \A p \in FreeBlocks(b) : \E i \in 0 .. len - 1 : p = at[i]
<1>1. DOMAIN mem = Words
  BY DEF TypeOK
<1>2. ASSUME NEW i \in Nat PROVE at[i + 1] = Link(at[i])
  <2>1. CASE i \in 0 .. len - 1
    <3>1. at[i] \in Words /\ at[i] # NULL
      BY <2>1, FreeBlock
    <3>2. mem[at[i]] = at[i + 1]
      BY <2>1 DEF ListOK
    <3> QED
      BY <1>1, <3>1, <3>2 DEF Link
  <2>2. CASE i >= len
    <3>1. at[i] = NULL /\ at[i + 1] = NULL
      BY <2>2 DEF ListOK
    <3> QED
      BY <3>1 DEF Link
  <2> QED
    BY <2>1, <2>2
<1>3. at[0] = bin[b]
  BY DEF ListOK
<1>4. Walk(bin[b]) = at
  BY <1>2, <1>3, WalkIs
<1>5. MaxBlocks \in Nat /\ len <= MaxBlocks
  BY ListsAreShort
<1>6. \A i \in Nat : i >= len => at[i] = NULL
  BY DEF ListOK
<1>7. ASSUME NEW p \in FreeBlocks(b) PROVE \E i \in 0 .. len - 1 : p = at[i]
  <2>1. PICK i \in 0 .. MaxBlocks : p = at[i] /\ p # NULL
    BY <1>4 DEF FreeBlocks
  <2>2. ~(i >= len)
    BY <1>6, <2>1
  <2> QED
    BY <1>5, <2>1, <2>2
<1> QED
  BY <1>4, <1>5, <1>6, <1>7

\* The same of the layout of the invariant.
Walked(b, H, at, len) ==
    /\ Walk(bin[b]) = at[b] /\ at[b][MaxBlocks] = NULL
    /\ \A p \in FreeBlocks(b) :
          /\ p \in H /\ p \in Words /\ mem[p - WORD] = bin2size(b)
          /\ \A l \in live : l.p # p
    /\ \A i \in 0 .. len[b] - 1 : at[b][i] # NULL

LEMMA WalksOfLayout ==
    ASSUME TypeOK, NEW H, NEW at \in Lists, NEW len \in [Bins -> Nat],
           Layout(mem, mapped, bin, live, H, at, len), NEW b \in Bins
    PROVE  Walked(b, H, at, len)
<1> PICK a, k : a = at[b] /\ k = len[b]
  OBVIOUS
<1>1. /\ HeapOK(mem, mapped, H) /\ a \in [Nat -> Int] /\ k \in Nat
      /\ ListOK(mem, H, bin[b], bin2size(b), a, k) /\ Lent(live, a, k)
  BY DEF Layout, Lists
<1>2. /\ Walk(bin[b]) = a /\ a[MaxBlocks] = NULL
      /\ \A p \in FreeBlocks(b) : \E i \in 0 .. k - 1 : p = a[i]
  BY <1>1, WalkOfList
<1>3. ASSUME NEW i \in 0 .. k - 1
      PROVE  /\ a[i] \in H /\ a[i] \in Words /\ mem[a[i] - WORD] = bin2size(b) /\ a[i] # NULL
             /\ \A l \in live : l.p # a[i]
  <2>1. a[i] \in H /\ a[i] \in Words /\ mem[a[i] - WORD] = bin2size(b) /\ a[i] # NULL
    <3>1. PICK t : t = bin[b]
      OBVIOUS
    <3>2. ListOK(mem, H, t, bin2size(b), a, k)
      BY <1>1, <3>1
    <3> QED
      BY <1>1, <3>2, FreeBlock
  <2> QED
    BY <1>1, <2>1 DEF Lent
<1> QED
  BY <1>2, <1>3 DEF Walked

LEMMA InvLists == Inv => FreeListsHold /\ PreFillCounts
<1> SUFFICES ASSUME Inv PROVE FreeListsHold /\ PreFillCounts
  OBVIOUS
<1>1. TypeOK
  BY DEF Inv
<1>2. PICK H \in SUBSET Nat, at \in Lists, len \in [Bins -> Nat] :
          /\ Layout(mem, mapped, bin, live, H, at, len)
          /\ call # Idle => call.ful <= len[call.b] /\ at[call.b][call.ful] = call.old
  BY DEF Inv
<1>3. DOMAIN bin = Bins /\ DOMAIN mem = Words
  BY <1>1 DEF TypeOK
<1>4. ASSUME NEW b \in Bins
      PROVE  /\ Walk(bin[b]) = at[b] /\ at[b][MaxBlocks] = NULL
             /\ \A p \in FreeBlocks(b) :
                   /\ p \in H /\ p \in Words /\ mem[p - WORD] = bin2size(b)
                   /\ \A l \in live : l.p # p
             /\ \A i \in 0 .. len[b] - 1 : at[b][i] # NULL
  <2>1. Walked(b, H, at, len)
    BY <1>1, <1>2, WalksOfLayout
  <2> QED
    BY <2>1 DEF Walked
<1>5. ASSUME NEW b \in Bins, NEW c \in Bins, b # c PROVE FreeBlocks(b) \cap FreeBlocks(c) = {}
  <2>1. bin2size(b) # bin2size(c)
    BY <1>5, SizesDiffer
  <2> QED
    BY <1>4, <2>1
<1>6. FreeListsHold
  BY <1>3, <1>4, <1>5 DEF FreeListsHold
<1>7. PreFillCounts
  <2> SUFFICES ASSUME call # Idle
               PROVE  /\ Walk(bin[call.b])[call.ful] = call.old
                      /\ \A i \in 0 .. call.ful - 1 : Walk(bin[call.b])[i] # NULL
    BY <1>1 DEF PreFillCounts, TypeOK
  <2>1. PICK b, k : b = call.b /\ k = call.ful
    OBVIOUS
  <2>2. b \in Bins /\ k \in Nat /\ len[b] \in Nat
    BY <1>1, <2>1 DEF TypeOK
  <2>3. k <= len[b] /\ at[b][k] = call.old
    BY <1>2, <2>1
  <2>4. \A i \in 0 .. k - 1 : i \in 0 .. len[b] - 1
    BY <2>2, <2>3
  <2>5. Walk(bin[b]) = at[b] /\ \A i \in 0 .. len[b] - 1 : at[b][i] # NULL
    BY <1>4, <2>2
  <2> QED
    BY <2>1, <2>3, <2>4, <2>5
<1> QED
  BY <1>6, <1>7

\* The block's bytes, from its size word on, are in its region.
LEMMA RegionHolds ==
    ASSUME NEW m, NEW mp, NEW p, BlockOK(m, mp, p), NEW s, s = m[p - WORD],
           s > MaxSmall => Honest(s)
    PROVE  p \in Nat /\ s \in Nat /\ \A a \in (p - WORD) .. (p + s - 1) : a \in Region(p, s)
<1>1. /\ WORD \in Nat \ {0} /\ U = WORD + WORD /\ WASTE = WORD /\ SIZES \in Nat /\ HEAP \in Nat
      /\ MaxSmall \in Nat
  BY Constants, BinSizes DEF MaxSmall, bin2size
<1>2. p \in Nat /\ s \in Nat
  BY DEF BlockOK
<1>3. CASE s <= MaxSmall
  BY <1>2, <1>3 DEF Region
<1>4. CASE s > MaxSmall
  <2>1. LargeLength(s) = s + U
    <3>1. PICK x \in Nat : x = s + WASTE + WORD /\ x < SIZES /\ x = s + U
      BY <1>1, <1>2, <1>4 DEF Honest
    <3>2. \A i, j \in Nat : i < j => i % j = i
      OBVIOUS
    <3>3. x % SIZES = x
      BY <1>1, <3>1, <3>2
    <3> QED
      BY <3>1, <3>3 DEF LargeLength
  <2>2. PICK q, n : q = p - U /\ n = s + U
    OBVIOUS
  <2>3. q \in Nat /\ n \in Nat /\ q + n <= HEAP
    BY <1>1, <1>2, <1>4, <2>1, <2>2 DEF BlockOK
  <2>4. ~(s <= MaxSmall)
    BY <1>1, <1>2, <1>4
  <2>5. Region(p, s) = {a \in 0 .. HEAP - 1 : Page(a) \in Over(q, n)}
    BY <2>1, <2>2, <2>4 DEF Region
  <2>6. ASSUME NEW a \in (p - WORD) .. (p + s - 1) PROVE a \in q .. q + n - 1
    BY <1>1, <1>2, <2>2, <2>3
  <2> QED
    BY <1>2, <2>3, <2>5, <2>6, Covers
<1> QED
  BY <1>1, <1>2, <1>3, <1>4

\* A block of BlocksApart is one of H, and its bytes are its own.
Held(x, H) ==
    /\ x.p \in H /\ x.size = mem[x.p - WORD] /\ x = [p |-> x.p, size |-> x.size]
    /\ x.p \in Nat /\ x.size \in Nat
    /\ \A a \in (x.p - WORD) .. (x.p + x.size - 1) : a \in Region(x.p, mem[x.p - WORD])

LEMMA BlocksHeld ==
    ASSUME TypeOK, NEW H, NEW at \in Lists, NEW len \in [Bins -> Nat],
           Layout(mem, mapped, bin, live, H, at, len), NEW x \in Blocks
    PROVE  Held(x, H)
<1>1. HeapOK(mem, mapped, H) /\ ClientOK(mem, H, live)
  BY DEF Layout
<1>2. \A p \in H : BlockOK(mem, mapped, p)
  BY <1>1 DEF HeapOK
<1>3. ASSUME NEW l \in live, Honest(l.n), x = [p |-> l.p, size |-> mem[l.p - WORD]]
      PROVE  Held(x, H)
  <2>1. PICK p, s : p = l.p /\ s = mem[p - WORD]
    OBVIOUS
  <2>2. p \in H /\ s > MaxSmall => s = l.n
    BY <1>1, <2>1 DEF ClientOK
  <2>3. s > MaxSmall => Honest(s)
    BY <1>1, <1>3, <2>1, <2>2 DEF ClientOK
  <2>4. p \in H
    BY <1>1, <2>1 DEF ClientOK
  <2>5. p \in Nat /\ s \in Nat /\ \A a \in (p - WORD) .. (p + s - 1) : a \in Region(p, s)
    BY <1>2, <2>1, <2>3, <2>4, RegionHolds
  <2>6. x = [p |-> p, size |-> s] /\ x.p = p /\ x.size = s
    BY <1>3, <2>1
  <2> QED
    BY <2>1, <2>4, <2>5, <2>6 DEF Held
<1>4. ASSUME NEW b \in DOMAIN bin, NEW p \in FreeBlocks(b), x = [p |-> p, size |-> bin2size(b)]
      PROVE  Held(x, H)
  <2>1. b \in Bins
    BY DEF TypeOK
  <2>2. p \in H /\ mem[p - WORD] = bin2size(b)
    BY <2>1, WalksOfLayout DEF Walked
  <2>3. PICK s : s = mem[p - WORD]
    OBVIOUS
  <2>4. ~(s > MaxSmall)
    <3>1. s \in Nat /\ s <= MaxSmall /\ MaxSmall \in Nat
      BY <2>1, <2>2, <2>3, BinSizes, Constants DEF MaxSmall, bin2size
    <3> QED
      BY <3>1
  <2>5. p \in Nat /\ s \in Nat /\ \A a \in (p - WORD) .. (p + s - 1) : a \in Region(p, s)
    BY <1>2, <2>2, <2>3, <2>4, RegionHolds
  <2>6. x = [p |-> p, size |-> s] /\ x.p = p /\ x.size = s
    BY <1>4, <2>2, <2>3
  <2> QED
    BY <2>2, <2>3, <2>5, <2>6 DEF Held
<1>5. \/ \E l \in live : Honest(l.n) /\ x = [p |-> l.p, size |-> mem[l.p - WORD]]
      \/ \E b \in DOMAIN bin : \E p \in FreeBlocks(b) : x = [p |-> p, size |-> bin2size(b)]
  BY DEF Blocks
<1> QED
  BY <1>3, <1>4, <1>5

LEMMA InvBlocks == Inv => BlocksApart
<1> SUFFICES ASSUME Inv PROVE BlocksApart
  OBVIOUS
<1>1. TypeOK
  BY DEF Inv
<1>2. PICK H \in SUBSET Nat, at \in Lists, len \in [Bins -> Nat] :
          Layout(mem, mapped, bin, live, H, at, len)
  BY DEF Inv
<1>3. HeapOK(mem, mapped, H) /\ ClientOK(mem, H, live)
  BY <1>2 DEF Layout
<1>4. \A x \in Blocks : Held(x, H)
  BY <1>1, <1>2, BlocksHeld
<1>5. WORD \in Nat \ {0}
  BY Constants
<1>6. ASSUME NEW x \in Blocks, NEW y \in Blocks, x # y
      PROVE  x.p + x.size <= y.p - WORD \/ y.p + y.size <= x.p - WORD
  <2>1. Held(x, H) /\ Held(y, H)
    BY <1>4
  <2>2. PICK p, s, q, t : p = x.p /\ s = x.size /\ q = y.p /\ t = y.size
    OBVIOUS
  <2>3. p \in Nat /\ s \in Nat /\ q \in Nat /\ t \in Nat /\ p \in H /\ q \in H
    BY <2>1, <2>2 DEF Held
  <2>4. p # q
    BY <1>6, <2>1, <2>2 DEF Held
  <2>5. Region(p, mem[p - WORD]) \cap Region(q, mem[q - WORD]) = {}
    BY <1>3, <2>3, <2>4 DEF HeapOK
  <2>6. /\ \A a \in (p - WORD) .. (p + s - 1) : a \in Region(p, mem[p - WORD])
        /\ \A a \in (q - WORD) .. (q + t - 1) : a \in Region(q, mem[q - WORD])
    BY <2>1, <2>2 DEF Held
  <2>7. \A a \in Int : ~(a \in (p - WORD) .. (p + s - 1) /\ a \in (q - WORD) .. (q + t - 1))
    BY <2>5, <2>6
  <2>8. /\ ~(p - WORD \in (p - WORD) .. (p + s - 1) /\ p - WORD \in (q - WORD) .. (q + t - 1))
        /\ ~(q - WORD \in (p - WORD) .. (p + s - 1) /\ q - WORD \in (q - WORD) .. (q + t - 1))
    <3>1. p - WORD \in Int /\ q - WORD \in Int
      BY <1>5, <2>3
    <3> QED
      BY <2>7, <3>1
  <2>9. p + s <= q - WORD \/ q + t <= p - WORD
    BY <1>5, <2>3, <2>8
  <2> QED
    BY <2>2, <2>9
<1>7. ASSUME NEW x \in Blocks, NEW a \in (x.p - WORD) .. (x.p + x.size - 1)
      PROVE  a - (a % PAGE) \in mapped
  <2>1. x.p \in H /\ a \in Region(x.p, mem[x.p - WORD])
    BY <1>4 DEF Held
  <2>2. Page(a) \in mapped
    BY <1>3, <2>1 DEF HeapOK, BlockOK
  <2> QED
    BY <2>2 DEF Page
<1>8. ASSUME NEW l \in live
      PROVE  l.p % (ALIGN * WORD) = 0 /\ l.n <= mem[l.p - WORD]
  <2>1. l.p \in H /\ l.n <= mem[l.p - WORD]
    BY <1>3 DEF ClientOK
  <2>2. PICK k \in Nat \ {0} : l.p = k * U
    BY <1>3, <2>1 DEF HeapOK, BlockOK
  <2>3. U \in Nat \ {0} /\ ALIGN * WORD = U
    BY Constants, MemMgrAssumption DEF U
  <2>4. (k * U + 0) % U = 0
    BY <2>3, ModOfMultiple
  <2>5. k * U + 0 = k * U
    BY <2>3
  <2> QED
    BY <2>1, <2>2, <2>3, <2>4, <2>5
<1> QED
  BY <1>6, <1>7, <1>8 DEF BlocksApart

-----------------------------------------------------------------------------

\* malloc.h:3-9: no two blocks overlap, size words included, whether the client has
\* them or a list does; a block is in memory the process has, and the client's is
\* aligned and as large as it asked for.
THEOREM BlocksNeverOverlap == Spec => []BlocksApart
<1>1. Inv => BlocksApart
  BY InvBlocks
<1> QED
  BY <1>1, HeapInvariance, PTL

\* malloc.c:22-26: the list of every bin ends, holds blocks of the bin's size only, and
\* shares none with another list or with the client.
THEOREM FreeListsStay == Spec => []FreeListsHold
<1>1. Inv => FreeListsHold
  BY InvLists
<1> QED
  BY <1>1, HeapInvariance, PTL

\* malloc.c:61-64, :73: what try_pre_fill has counted is what it has put before the list
\* that was there, at every step and so also when it stops early; the sum never wraps.
THEOREM PreFillIsRight == Spec => []PreFillCounts
<1>1. Inv => PreFillCounts
  BY InvLists
<1> QED
  BY <1>1, HeapInvariance, PTL

=============================================================================
