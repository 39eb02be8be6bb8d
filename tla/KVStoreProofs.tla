--------------------------- MODULE KVStoreProofs ---------------------------
(***************************************************************************)
(* For any keys, values and slice length, KV_Get returns what KV_Put last  *)
(* put for the key, outside of case 0.0.0, and the layers are a trie.      *)
(*                                                                         *)
(* The argument: every layer has a region, the keys that a search leads to *)
(* it, and a level, the number of slices it has been led by.  Regions of   *)
(* one level are disjoint, and a key of the regions of two levels is led   *)
(* on in the upper one by a link.  So a key has a value in one layer at    *)
(* most, and a search that comes to it cannot miss it.  The regions are    *)
(* nowhere in the program: the invariant says that there are some.         *)
(*                                                                         *)
(* The trie of index_string.c is made by recursive calls, but its indices  *)
(* have levels and regions of the same kind, and it has the last value of  *)
(* every key.                                                              *)
(***************************************************************************)
EXTENDS MCKVStore, SequenceTheorems, FiniteSetTheorems, NaturalsInduction, WellFoundedInduction, TLAPS

-----------------------------------------------------------------------------
(* Strings and their slices. *)

\* What is left of a key after i slices.
Cut(k, i) == SubSeq(k, i * KEY_SLICE_LENGTH + 1, Len(k))

\* The first i slices of k and m are the same.
Same(k, m, i) == \A j \in 1 .. i * KEY_SLICE_LENGTH : k[j] = m[j]

LEMMA SliceLength == KEY_SLICE_LENGTH \in Nat /\ KEY_SLICE_LENGTH > 0 /\ Zero \in Bytes
BY KVAssumption

LEMMA NullIsNoOther ==
    /\ NULL \notin Values /\ NULL \notin Nat /\ NULL \notin Seq(Bytes) /\ NULL \notin Strings
    /\ \A p \in Strings, v \in Values : [key |-> p, value |-> v] # NULL
BY KVAssumption DEF Strings

LEMMA AreStrings == \A k \in Strings : k \in Seq(Bytes) /\ Len(k) \in Nat /\ Len(k) > 0
<1> TAKE k \in Strings
<1>1. k \in Seq(Bytes) /\ k # <<>>
  BY DEF Strings
<1> QED
  BY <1>1, EmptySeq, LenProperties

LEMMA TailAfter ==
    ASSUME NEW k \in Seq(Bytes), NEW d \in Nat
    PROVE  LET c == SubSeq(k, d + 1, Len(k))
           IN  /\ c \in Seq(Bytes)
               /\ Len(c) = IF d < Len(k) THEN Len(k) - d ELSE 0
               /\ \A j \in 1 .. Len(c) : c[j] = k[d + j]
<1>1. Len(k) \in Nat /\ \A i \in 1 .. Len(k) : k[i] \in Bytes
  BY LenProperties, ElementOfSeq
<1>2. PICK n \in Nat : n = Len(k)
  BY <1>1
<1>3. \A i \in (d + 1) .. n : k[i] \in Bytes
  BY <1>1, <1>2
<1>4. PICK c : c = SubSeq(k, d + 1, n)
  OBVIOUS
<1>5. PICK e \in Int : e = d + 1
  OBVIOUS
<1>6. /\ SubSeq(k, e, n) \in Seq(Bytes)
      /\ Len(SubSeq(k, e, n)) = IF e <= n THEN n - e + 1 ELSE 0
      /\ \A i \in 1 .. n - e + 1 : SubSeq(k, e, n)[i] = k[e + i - 1]
  <2>1. \A i \in e .. n : k[i] \in Bytes
    BY <1>3, <1>5
  <2> QED
    BY <2>1, SubSeqProperties
<1>7. /\ c \in Seq(Bytes)
      /\ Len(c) = IF d < n THEN n - d ELSE 0
      /\ \A i \in 1 .. n - d : c[i] = k[d + i]
  BY <1>4, <1>5, <1>6
<1> QED
  BY <1>2, <1>4, <1>7

LEMMA EqualIfPointwise ==
    ASSUME NEW p \in Seq(Bytes), NEW q \in Seq(Bytes), Len(p) = Len(q), \A j \in 1 .. Len(p) : p[j] = q[j]
    PROVE  p = q
BY SeqEqual

LEMMA RestIs ==
    ASSUME NEW p \in Strings
    PROVE  /\ Slice(p) \in Slices
           /\ Rest(p) \in Seq(Bytes)
           /\ EndsHere(p) => Len(p) \in 1 .. KEY_SLICE_LENGTH
           /\ ~EndsHere(p) => /\ Rest(p) \in Strings /\ Len(Rest(p)) = Len(p) - KEY_SLICE_LENGTH
                              /\ \A j \in 1 .. Len(Rest(p)) : Rest(p)[j] = p[KEY_SLICE_LENGTH + j]
<1>1. p \in Seq(Bytes) /\ Len(p) \in Nat /\ Len(p) > 0
  BY AreStrings
<1>2. Slice(p) \in Slices
  BY <1>1, SliceLength, ElementOfSeq DEF Slice, Slices
<1>3. PICK r : r = Rest(p)
  OBVIOUS
<1>4. /\ r \in Seq(Bytes)
      /\ Len(r) = IF KEY_SLICE_LENGTH < Len(p) THEN Len(p) - KEY_SLICE_LENGTH ELSE 0
      /\ \A j \in 1 .. Len(r) : r[j] = p[KEY_SLICE_LENGTH + j]
  BY <1>1, <1>3, TailAfter, SliceLength DEF Rest
<1>5. ~EndsHere(p) => r \in Strings /\ Len(r) = Len(p) - KEY_SLICE_LENGTH
  BY <1>1, <1>4, SliceLength, EmptySeq DEF EndsHere, Strings
<1>6. EndsHere(p) => Len(p) \in 1 .. KEY_SLICE_LENGTH
  BY <1>1, SliceLength DEF EndsHere
<1> QED
  BY <1>2, <1>3, <1>4, <1>5, <1>6

LEMMA SliceByte ==
    ASSUME NEW p, NEW j \in 1 .. KEY_SLICE_LENGTH
    PROVE  Slice(p)[j] = IF j <= Len(p) THEN p[j] ELSE Zero
BY DEF Slice

LEMMA SlicesAndRest ==
    ASSUME NEW p \in Strings, NEW q \in Strings, Slice(p) = Slice(q)
    PROVE  /\ EndsHere(p) /\ EndsHere(q) /\ Len(p) = Len(q) => p = q
           /\ ~EndsHere(p) /\ ~EndsHere(q) /\ Rest(p) = Rest(q) => p = q
<1>1. /\ p \in Seq(Bytes) /\ Len(p) \in Nat
      /\ q \in Seq(Bytes) /\ Len(q) \in Nat
  BY AreStrings
<1>2. \A j \in 1 .. KEY_SLICE_LENGTH : j <= Len(p) /\ j <= Len(q) => p[j] = q[j]
  BY SliceByte
<1>3. ASSUME EndsHere(p), EndsHere(q), Len(p) = Len(q)
      PROVE  p = q
  <2>1. \A j \in 1 .. Len(p) : p[j] = q[j]
    BY <1>1, <1>2, <1>3, SliceLength DEF EndsHere
  <2> QED
    BY <1>1, <1>3, <2>1, EqualIfPointwise
<1>4. ASSUME ~EndsHere(p), ~EndsHere(q), Rest(p) = Rest(q)
      PROVE  p = q
  <2>1. Len(p) = Len(q)
    BY <1>1, <1>4, RestIs, SliceLength
  <2>2. ASSUME NEW j \in 1 .. Len(p)
        PROVE  p[j] = q[j]
    <3>1. CASE j <= KEY_SLICE_LENGTH
      BY <1>1, <1>2, <2>1, <3>1, SliceLength
    <3>2. CASE j > KEY_SLICE_LENGTH
      <4>1. PICK i \in Nat : i = j - KEY_SLICE_LENGTH
        BY <1>1, <3>2, SliceLength
      <4>2. i \in 1 .. Len(Rest(p)) /\ i \in 1 .. Len(Rest(q)) /\ KEY_SLICE_LENGTH + i = j
        BY <1>1, <1>4, <2>1, <3>2, <4>1, RestIs, SliceLength
      <4>3. Rest(p)[i] = p[j] /\ Rest(q)[i] = q[j]
        BY <1>4, <4>2, RestIs
      <4> QED
        BY <1>4, <4>3
    <3> QED
      BY <1>1, <3>1, <3>2, SliceLength
  <2> QED
    BY <1>1, <2>1, <2>2, EqualIfPointwise
<1> QED
  BY <1>3, <1>4

LEMMA Levels ==
    ASSUME NEW i \in Nat, NEW j \in Nat, i < j
    PROVE  /\ i * KEY_SLICE_LENGTH \in Nat /\ (i + 1) * KEY_SLICE_LENGTH = i * KEY_SLICE_LENGTH + KEY_SLICE_LENGTH
           /\ i * KEY_SLICE_LENGTH + KEY_SLICE_LENGTH <= j * KEY_SLICE_LENGTH
<1>1. PICK l \in Nat : l = KEY_SLICE_LENGTH
  BY SliceLength
<1>2. PICK e \in Nat : j = i + 1 + e
  <2>1. j - i - 1 \in Nat /\ j = i + 1 + (j - i - 1)
    OBVIOUS
  <2> QED
    BY <2>1
<1>3. i * l \in Nat /\ e * l \in Nat
  OBVIOUS
<1>4. (i + 1) * l = i * l + l /\ (i + 1 + e) * l = i * l + l + e * l
  OBVIOUS
<1> QED
  BY <1>1, <1>2, <1>3, <1>4

LEMMA CutIs ==
    ASSUME NEW k \in Strings, NEW i \in Nat, NEW d \in Nat, d = i * KEY_SLICE_LENGTH
    PROVE  /\ Cut(k, i) \in Strings <=> d < Len(k)
           /\ d < Len(k) => Len(Cut(k, i)) = Len(k) - d
           /\ \A j \in 1 .. Len(Cut(k, i)) : Cut(k, i)[j] = k[d + j]
<1>1. k \in Seq(Bytes) /\ Len(k) \in Nat
  BY AreStrings
<1>3. PICK c : c = SubSeq(k, d + 1, Len(k))
  OBVIOUS
<1>4. /\ c \in Seq(Bytes)
      /\ Len(c) = IF d < Len(k) THEN Len(k) - d ELSE 0
      /\ \A j \in 1 .. Len(c) : c[j] = k[d + j]
  BY <1>1, <1>3, TailAfter
<1>5. c \in Strings <=> d < Len(k)
  BY <1>1, <1>4, EmptySeq DEF Strings
<1>6. Cut(k, i) = c
  BY <1>3 DEF Cut
<1> QED
  BY <1>4, <1>5, <1>6

LEMMA WholeKey == \A k \in Strings : Cut(k, 0) = k
<1> TAKE k \in Strings
<1>1. k \in Seq(Bytes) /\ Len(k) \in Nat /\ Len(k) > 0
  BY AreStrings
<1>2. 0 * KEY_SLICE_LENGTH = 0
  BY SliceLength
<1>3. PICK c : c = Cut(k, 0)
  OBVIOUS
<1>4. c \in Seq(Bytes) /\ Len(c) = Len(k) /\ \A j \in 1 .. Len(c) : c[j] = k[0 + j]
  <2>1. PICK d, i \in Nat : d = 0 /\ i = 0 /\ d = i * KEY_SLICE_LENGTH
    BY <1>2
  <2>2. /\ Cut(k, i) \in Strings <=> d < Len(k)
        /\ d < Len(k) => Len(Cut(k, i)) = Len(k) - d
        /\ \A j \in 1 .. Len(Cut(k, i)) : Cut(k, i)[j] = k[d + j]
    BY <2>1, CutIs
  <2> QED
    BY <1>1, <1>3, <2>1, <2>2, AreStrings
<1>5. \A j \in 1 .. Len(c) : c[j] = k[j]
  BY <1>1, <1>4
<1>6. c = k
  BY <1>1, <1>4, <1>5, EqualIfPointwise
<1> QED
  BY <1>3, <1>6

\* One slice more.
LEMMA CutFurther ==
    ASSUME NEW k \in Strings, NEW i \in Nat, Cut(k, i) \in Strings, ~EndsHere(Cut(k, i))
    PROVE  Cut(k, i + 1) = Rest(Cut(k, i)) /\ Cut(k, i + 1) \in Strings
<1>1. k \in Seq(Bytes) /\ Len(k) \in Nat
  BY AreStrings
<1>2. PICK d \in Nat : d = i * KEY_SLICE_LENGTH
  BY Levels
<1>3. (i + 1) * KEY_SLICE_LENGTH = d + KEY_SLICE_LENGTH
  BY <1>2, Levels
<1>4. PICK c : c = Cut(k, i)
  OBVIOUS
<1>5. PICK r : r = Rest(c)
  OBVIOUS
<1>6. PICK f : f = Cut(k, i + 1)
  OBVIOUS
<1>7. c \in Strings /\ Len(c) = Len(k) - d /\ \A j \in 1 .. Len(c) : c[j] = k[d + j]
  BY <1>1, <1>2, <1>4, CutIs
<1>8. ~EndsHere(c) /\ Len(c) \in Nat
  BY <1>4, <1>7, AreStrings
<1>9. /\ r \in Strings /\ Len(r) = Len(c) - KEY_SLICE_LENGTH
      /\ \A j \in 1 .. Len(r) : r[j] = c[KEY_SLICE_LENGTH + j]
  BY <1>5, <1>7, <1>8, RestIs
<1>10. d + KEY_SLICE_LENGTH < Len(k)
  BY <1>1, <1>7, <1>8, SliceLength DEF EndsHere
<1>11. /\ f \in Strings /\ Len(f) = Len(k) - (d + KEY_SLICE_LENGTH)
       /\ \A j \in 1 .. Len(f) : f[j] = k[d + KEY_SLICE_LENGTH + j]
  <2>1. PICK h \in Nat : h = d + KEY_SLICE_LENGTH
    BY SliceLength
  <2>2. PICK n \in Nat : n = i + 1
    OBVIOUS
  <2>3. /\ Cut(k, n) \in Strings <=> h < Len(k)
        /\ h < Len(k) => Len(Cut(k, n)) = Len(k) - h
        /\ \A j \in 1 .. Len(Cut(k, n)) : Cut(k, n)[j] = k[h + j]
    BY <1>3, <2>1, <2>2, CutIs
  <2> QED
    BY <1>6, <1>10, <2>1, <2>2, <2>3
<1>12. Len(f) = Len(r)
  BY <1>1, <1>7, <1>9, <1>11, SliceLength
<1>13. ASSUME NEW j \in 1 .. Len(f)
       PROVE  f[j] = r[j]
  <2>1. Len(f) \in Nat /\ Len(f) = Len(c) - KEY_SLICE_LENGTH
    BY <1>9, <1>11, <1>12, AreStrings
  <2>2. PICK e \in Nat : e = KEY_SLICE_LENGTH + j
    BY <2>1, SliceLength
  <2>3. e \in 1 .. Len(c)
    BY <1>8, <2>1, <2>2, SliceLength
  <2>4. c[e] = k[d + e] /\ d + e = d + KEY_SLICE_LENGTH + j
    BY <1>7, <2>1, <2>2, <2>3, SliceLength
  <2> QED
    BY <1>9, <1>11, <1>12, <2>2, <2>4
<1>14. f = r
  BY <1>9, <1>11, <1>12, <1>13, EqualIfPointwise, AreStrings
<1> QED
  BY <1>4, <1>5, <1>6, <1>11, <1>14

\* What goes on to a level has gone on at those before.
LEMMA GoesOn ==
    ASSUME NEW k \in Strings, NEW i \in Nat, NEW j \in Nat, i < j, Cut(k, j) \in Strings
    PROVE  Cut(k, i) \in Strings /\ ~EndsHere(Cut(k, i))
<1>1. Len(k) \in Nat
  BY AreStrings
<1>2. PICK d \in Nat : d = i * KEY_SLICE_LENGTH
  BY Levels
<1>3. PICK e \in Nat : e = j * KEY_SLICE_LENGTH
  BY SliceLength
<1>4. d + KEY_SLICE_LENGTH <= e
  BY <1>2, <1>3, Levels
<1>5. e < Len(k)
  BY <1>3, CutIs
<1>6. d < Len(k) /\ d + KEY_SLICE_LENGTH < Len(k)
  BY <1>1, <1>4, <1>5, SliceLength
<1>7. Cut(k, i) \in Strings /\ Len(Cut(k, i)) = Len(k) - d
  BY <1>2, <1>6, CutIs
<1> QED
  BY <1>1, <1>6, <1>7, SliceLength DEF EndsHere

LEMMA SameAndCut ==
    ASSUME NEW k \in Strings, NEW m \in Strings, NEW i \in Nat, Same(k, m, i),
           Cut(k, i) \in Strings, Cut(k, i) = Cut(m, i)
    PROVE  k = m
<1>1. k \in Seq(Bytes) /\ Len(k) \in Nat /\ m \in Seq(Bytes) /\ Len(m) \in Nat
  BY AreStrings
<1>2. PICK d \in Nat : d = i * KEY_SLICE_LENGTH
  BY Levels
<1>3. PICK c : c = Cut(k, i)
  OBVIOUS
<1>4. d < Len(k) /\ Len(c) = Len(k) - d /\ \A j \in 1 .. Len(c) : c[j] = k[d + j]
  BY <1>2, <1>3, CutIs
<1>5. d < Len(m) /\ Len(c) = Len(m) - d /\ \A j \in 1 .. Len(c) : c[j] = m[d + j]
  BY <1>2, <1>3, CutIs
<1>6. Len(k) = Len(m)
  BY <1>1, <1>4, <1>5
<1>7. ASSUME NEW j \in 1 .. Len(k)
      PROVE  k[j] = m[j]
  <2>1. CASE j <= d
    BY <1>1, <1>2, <2>1 DEF Same
  <2>2. CASE j > d
    <3>1. PICK e \in Nat : e = j - d
      BY <1>1, <2>2
    <3>2. e \in 1 .. Len(c) /\ d + e = j
      BY <1>1, <1>4, <2>2, <3>1
    <3> QED
      BY <1>4, <1>5, <3>2
  <2> QED
    BY <1>1, <2>1, <2>2
<1> QED
  BY <1>1, <1>6, <1>7, EqualIfPointwise

LEMMA SameFurther ==
    ASSUME NEW k \in Strings, NEW m \in Strings, NEW i \in Nat, Same(k, m, i),
           Cut(k, i) \in Strings, Cut(m, i) \in Strings, Slice(Cut(k, i)) = Slice(Cut(m, i)),
           ~EndsHere(Cut(k, i)), ~EndsHere(Cut(m, i))
    PROVE  Same(k, m, i + 1)
<1>1. Len(k) \in Nat /\ Len(m) \in Nat
  BY AreStrings
<1>2. PICK d \in Nat : d = i * KEY_SLICE_LENGTH
  BY Levels
<1>3. (i + 1) * KEY_SLICE_LENGTH = d + KEY_SLICE_LENGTH
  BY <1>2, Levels
<1>4. PICK c, b : c = Cut(k, i) /\ b = Cut(m, i)
  OBVIOUS
<1>5. Len(c) \in Nat /\ Len(c) > KEY_SLICE_LENGTH /\ \A j \in 1 .. Len(c) : c[j] = k[d + j]
  BY <1>2, <1>4, CutIs, AreStrings, SliceLength DEF EndsHere
<1>6. Len(b) \in Nat /\ Len(b) > KEY_SLICE_LENGTH /\ \A j \in 1 .. Len(b) : b[j] = m[d + j]
  BY <1>2, <1>4, CutIs, AreStrings, SliceLength DEF EndsHere
<1>7. Slice(c) = Slice(b)
  BY <1>4
<1>8. ASSUME NEW j \in 1 .. d + KEY_SLICE_LENGTH
      PROVE  k[j] = m[j]
  <2>1. CASE j <= d
    BY <1>2, <2>1, SliceLength DEF Same
  <2>2. CASE j > d
    <3>1. PICK e \in Nat : e = j - d
      BY <2>2, SliceLength
    <3>2. e \in 1 .. KEY_SLICE_LENGTH /\ d + e = j
      BY <2>2, <3>1, SliceLength
    <3>3. e \in 1 .. Len(c) /\ e \in 1 .. Len(b)
      BY <1>5, <1>6, <3>2, SliceLength
    <3>4. c[e] = b[e]
      BY <1>7, <3>2, <3>3, SliceByte, SliceLength
    <3> QED
      BY <1>5, <1>6, <3>2, <3>3, <3>4
  <2> QED
    BY <2>1, <2>2, SliceLength
<1> QED
  BY <1>3, <1>8 DEF Same

\* The second key is put together from what the two share and what is left of it.
LEMMA PutTogether ==
    ASSUME NEW k \in Strings, NEW m \in Strings, NEW i \in Nat, Same(k, m, i),
           Cut(k, i) \in Strings, Cut(m, i) \in Strings
    PROVE  SubSeq(k, 1, Len(k) - Len(Cut(k, i))) \o Cut(m, i) = m
<1>1. k \in Seq(Bytes) /\ Len(k) \in Nat /\ m \in Seq(Bytes) /\ Len(m) \in Nat
  BY AreStrings
<1>2. PICK d \in Nat : d = i * KEY_SLICE_LENGTH
  BY Levels
<1>3. Len(k) - Len(Cut(k, i)) = d /\ d < Len(k)
  <2>1. Cut(k, i) \in Strings <=> d < Len(k)
    BY <1>2, CutIs
  <2>2. d < Len(k) => Len(Cut(k, i)) = Len(k) - d
    BY <1>2, CutIs
  <2> QED
    BY <1>1, <2>1, <2>2
<1>4. PICK c : c = Cut(m, i)
  OBVIOUS
<1>5. c \in Seq(Bytes) /\ d < Len(m) /\ Len(c) = Len(m) - d /\ \A j \in 1 .. Len(c) : c[j] = m[d + j]
  <2>1. /\ Cut(m, i) \in Strings <=> d < Len(m)
        /\ d < Len(m) => Len(Cut(m, i)) = Len(m) - d
        /\ \A j \in 1 .. Len(Cut(m, i)) : Cut(m, i)[j] = m[d + j]
    BY <1>2, CutIs
  <2> QED
    BY <1>4, <2>1, AreStrings
<1>6. PICK a : a = SubSeq(k, 1, d)
  OBVIOUS
<1>7. a \in Seq(Bytes) /\ Len(a) = d /\ \A j \in 1 .. d : a[j] = k[j]
  <2>1. \A j \in 1 .. d : k[j] \in Bytes
    BY <1>1, <1>3, ElementOfSeq
  <2>2. /\ SubSeq(k, 1, d) \in Seq(Bytes)
        /\ Len(SubSeq(k, 1, d)) = IF 1 <= d THEN d - 1 + 1 ELSE 0
        /\ \A j \in 1 .. d - 1 + 1 : SubSeq(k, 1, d)[j] = k[1 + j - 1]
    BY <2>1, SubSeqProperties
  <2> QED
    BY <1>6, <2>2
<1>8. PICK s : s = a \o c
  OBVIOUS
<1>9. /\ s \in Seq(Bytes) /\ Len(s) = Len(a) + Len(c)
      /\ \A j \in 1 .. Len(a) + Len(c) : s[j] = IF j <= Len(a) THEN a[j] ELSE c[j - Len(a)]
  BY <1>5, <1>7, <1>8, ConcatProperties
<1>10. Len(s) = Len(m)
  BY <1>1, <1>5, <1>7, <1>9
<1>11. ASSUME NEW j \in 1 .. Len(s)
       PROVE  s[j] = m[j]
  <2>1. CASE j <= d
    <3>1. j \in 1 .. d /\ j \in 1 .. Len(a) + Len(c) /\ j <= Len(a)
      BY <1>1, <1>7, <1>9, <1>10, <2>1
    <3>2. s[j] = a[j] /\ a[j] = k[j]
      BY <1>7, <1>9, <3>1
    <3>3. k[j] = m[j]
      BY <1>2, <3>1 DEF Same
    <3> QED
      BY <3>2, <3>3
  <2>2. CASE j > d
    <3>1. PICK e \in Nat : e = j - d
      BY <1>1, <1>10, <2>2
    <3>2. e \in 1 .. Len(c) /\ d + e = j
      BY <1>1, <1>5, <1>10, <2>2, <3>1
    <3> QED
      BY <1>1, <1>5, <1>7, <1>9, <1>10, <2>2, <3>1, <3>2
  <2> QED
    BY <1>1, <1>10, <2>1, <2>2
<1>12. s = m
  BY <1>1, <1>9, <1>10, <1>11, EqualIfPointwise
<1> QED
  BY <1>3, <1>4, <1>6, <1>8, <1>12

LEMMA Meets ==
    ASSUME NEW k \in Strings, NEW m \in Strings, NEW i \in Nat, i > 0, Same(k, m, i), k # m,
           Cut(k, i) \in Strings, Cut(m, i) \in Strings,
           Slice(Cut(k, i)) = Slice(Cut(m, i)), EndsHere(Cut(k, i))
    PROVE  MeetAtEnd(k, m)
<1>1. k \in Seq(Bytes) /\ Len(k) \in Nat /\ m \in Seq(Bytes) /\ Len(m) \in Nat
  BY AreStrings
<1>2. PICK d \in Nat : d = i * KEY_SLICE_LENGTH
  BY Levels
<1>3. d < Len(k) /\ d < Len(m)
  BY <1>2, CutIs
<1>4. i <= d
  <2>1. PICK j, n \in Nat : j = 0 /\ KEY_SLICE_LENGTH = n + 1
    <3>1. KEY_SLICE_LENGTH - 1 \in Nat /\ KEY_SLICE_LENGTH = KEY_SLICE_LENGTH - 1 + 1
      BY SliceLength
    <3> QED
      BY <3>1
  <2>2. d = i * (n + 1)
    BY <1>2, <2>1
  <2>3. i * (n + 1) = i * n + i /\ i * n \in Nat
    OBVIOUS
  <2> QED
    BY <2>2, <2>3
<1>5. i \in 1 .. Len(k)
  BY <1>1, <1>3, <1>4
<1>6. SubSeq(k, 1, d) = SubSeq(m, 1, d)
  <2>1. \A j \in 1 .. d : k[j] \in Bytes /\ m[j] \in Bytes /\ k[j] = m[j]
    BY <1>1, <1>2, <1>3, ElementOfSeq DEF Same
  <2>2. PICK a, b : a = SubSeq(k, 1, d) /\ b = SubSeq(m, 1, d)
    OBVIOUS
  <2>3. a \in Seq(Bytes) /\ Len(a) = d /\ \A j \in 1 .. d : a[j] = k[j]
    <3>1. /\ SubSeq(k, 1, d) \in Seq(Bytes)
          /\ Len(SubSeq(k, 1, d)) = IF 1 <= d THEN d - 1 + 1 ELSE 0
          /\ \A j \in 1 .. d - 1 + 1 : SubSeq(k, 1, d)[j] = k[1 + j - 1]
      BY <2>1, SubSeqProperties
    <3> QED
      BY <2>2, <3>1
  <2>4. b \in Seq(Bytes) /\ Len(b) = d /\ \A j \in 1 .. d : b[j] = m[j]
    <3>1. /\ SubSeq(m, 1, d) \in Seq(Bytes)
          /\ Len(SubSeq(m, 1, d)) = IF 1 <= d THEN d - 1 + 1 ELSE 0
          /\ \A j \in 1 .. d - 1 + 1 : SubSeq(m, 1, d)[j] = m[1 + j - 1]
      BY <2>1, SubSeqProperties
    <3> QED
      BY <2>2, <3>1
  <2>5. a = b
    BY <2>1, <2>3, <2>4, EqualIfPointwise
  <2> QED
    BY <2>2, <2>5
<1>7. SubSeq(k, d + 1, Len(k)) = Cut(k, i) /\ SubSeq(m, d + 1, Len(m)) = Cut(m, i)
  BY <1>2 DEF Cut
<1> QED
  BY <1>2, <1>3, <1>5, <1>6, <1>7 DEF MeetAtEnd

-----------------------------------------------------------------------------
(* Border nodes and the records of a layer. *)

BorderNodes == {bn \in [prefixLinks : [1 .. KEY_SLICE_LENGTH -> Values \cup {NULL}],
                        suffixLink : Values \cup Nat \cup {NULL},
                        keySuffix : Strings \cup {NULL}] : HasSuffix(bn) => bn.suffixLink \in Values}

Relations == UNION {[S -> BorderNodes] : S \in SUBSET Slices}

\* What KV_Get finds for a key of which p is left, at a border node and at a layer, if it
\* is not led on.
ValueIn(bn, p) ==
    IF EndsHere(p) THEN bn.prefixLinks[Len(p)]
    ELSE IF bn.keySuffix = Rest(p) THEN bn.suffixLink ELSE NULL
Look(records, p) == IF Slice(p) \in DOMAIN records THEN ValueIn(records[Slice(p)], p) ELSE NULL

LinkAt(records, s) == IF s \in DOMAIN records THEN GetLink(records[s]) ELSE NULL

LEMMA NewIsBorderNode ==
    /\ NewBorderNode \in BorderNodes /\ ~HasSuffix(NewBorderNode) /\ GetLink(NewBorderNode) = NULL
    /\ \A p \in Strings : ValueIn(NewBorderNode, p) = NULL
<1>1. NewBorderNode \in BorderNodes /\ ~HasSuffix(NewBorderNode) /\ GetLink(NewBorderNode) = NULL
  BY DEF NewBorderNode, BorderNodes, HasSuffix, GetLink
<1>2. ASSUME NEW p \in Strings
      PROVE  ValueIn(NewBorderNode, p) = NULL
  BY RestIs, NullIsNoOther DEF ValueIn, NewBorderNode
<1> QED
  BY <1>1, <1>2

\* bn can have a value for p without losing another.
HasRoom(bn, p) == EndsHere(p) \/ bn.keySuffix = Rest(p) \/ (~HasSuffix(bn) /\ GetLink(bn) = NULL)

\* bn2 is bn with v for p and nothing else.
OnlyAdds(bn, bn2, p, v) ==
    /\ bn2 \in BorderNodes /\ GetLink(bn2) = GetLink(bn)
    /\ ValueIn(bn2, p) = v
    /\ \A q \in Strings : Slice(q) = Slice(p) /\ q # p => ValueIn(bn2, q) = ValueIn(bn, q)
    /\ HasSuffix(bn2) => \/ HasSuffix(bn) /\ bn2.keySuffix = bn.keySuffix
                         \/ ~EndsHere(p) /\ bn2.keySuffix = Rest(p)

LEMMA SetValueIs ==
    ASSUME NEW bn \in BorderNodes, NEW p \in Strings, NEW v \in Values, HasRoom(bn, p)
    PROVE  OnlyAdds(bn, SetValue(bn, p, v), p, v)
<1>1. PICK b : b = SetValue(bn, p, v)
  OBVIOUS
<1>2. CASE EndsHere(p)
  <2>1. PICK l : l = Len(p) /\ l \in 1 .. KEY_SLICE_LENGTH
    BY <1>2, RestIs
  <2>2. b = [bn EXCEPT !.prefixLinks[l] = v]
    BY <1>1, <1>2, <2>1 DEF SetValue, SetPrefixValue
  <2>3. /\ b.keySuffix = bn.keySuffix /\ b.suffixLink = bn.suffixLink
        /\ b.prefixLinks = [bn.prefixLinks EXCEPT ![l] = v]
        /\ bn.prefixLinks \in [1 .. KEY_SLICE_LENGTH -> Values \cup {NULL}]
        /\ b = [prefixLinks |-> b.prefixLinks, suffixLink |-> b.suffixLink, keySuffix |-> b.keySuffix]
    BY <2>2 DEF BorderNodes
  <2>4. b \in BorderNodes /\ GetLink(b) = GetLink(bn)
    BY <2>1, <2>3 DEF BorderNodes, GetLink, HasSuffix
  <2>5. ValueIn(b, p) = v
    BY <1>2, <2>1, <2>3 DEF ValueIn
  <2>6. ASSUME NEW q \in Strings, Slice(q) = Slice(p), q # p
        PROVE  ValueIn(b, q) = ValueIn(bn, q)
    <3>1. EndsHere(q) => Len(q) # l /\ Len(q) \in 1 .. KEY_SLICE_LENGTH
      BY <1>2, <2>1, <2>6, SlicesAndRest, RestIs
    <3> QED
      BY <2>3, <3>1 DEF ValueIn
  <2> QED
    BY <1>1, <2>3, <2>4, <2>5, <2>6 DEF OnlyAdds, HasSuffix
<1>3. CASE ~EndsHere(p)
  <2>1. PICK r : r = Rest(p) /\ r \in Strings
    BY <1>3, RestIs
  <2>2. b = [bn EXCEPT !.keySuffix = r, !.suffixLink = v]
    BY <1>1, <1>3, <2>1 DEF SetValue, SetSuffixValue
  <2>3. /\ b.keySuffix = r /\ b.suffixLink = v /\ b.prefixLinks = bn.prefixLinks
        /\ b = [prefixLinks |-> b.prefixLinks, suffixLink |-> b.suffixLink, keySuffix |-> b.keySuffix]
        /\ bn.prefixLinks \in [1 .. KEY_SLICE_LENGTH -> Values \cup {NULL}]
    BY <2>2 DEF BorderNodes
  <2>4. r # NULL
    BY <2>1, NullIsNoOther
  <2>5. b \in BorderNodes /\ GetLink(b) = NULL
    BY <2>1, <2>3, <2>4 DEF BorderNodes, GetLink, HasSuffix
  <2>6. GetLink(bn) = NULL /\ (bn.keySuffix = r \/ bn.keySuffix = NULL)
    BY <1>3, <2>1, <2>4 DEF HasRoom, GetLink, HasSuffix
  <2>7. ValueIn(b, p) = v
    BY <1>3, <2>1, <2>3 DEF ValueIn
  <2>8. ASSUME NEW q \in Strings, Slice(q) = Slice(p), q # p
        PROVE  ValueIn(b, q) = ValueIn(bn, q)
    <3>1. ~EndsHere(q) => Rest(q) # r /\ Rest(q) # NULL
      BY <1>3, <2>1, <2>8, SlicesAndRest, RestIs, NullIsNoOther
    <3> QED
      BY <2>3, <2>6, <3>1 DEF ValueIn
  <2> QED
    BY <1>1, <1>3, <2>1, <2>3, <2>5, <2>6, <2>7, <2>8 DEF OnlyAdds
<1> QED
  BY <1>2, <1>3

LEMMA RelationIs ==
    ASSUME NEW records \in Relations
    PROVE  /\ DOMAIN records \subseteq Slices
           /\ \A s \in DOMAIN records : records[s] \in BorderNodes
BY DEF Relations

LEMMA RecordIs ==
    ASSUME NEW records \in Relations, NEW s \in Slices, NEW bn \in BorderNodes
    PROVE  /\ Record(records, s, bn) \in Relations
           /\ DOMAIN Record(records, s, bn) = DOMAIN records \cup {s}
           /\ Record(records, s, bn)[s] = bn
           /\ \A t \in DOMAIN records : t # s => Record(records, s, bn)[t] = records[t]
<1>1. /\ DOMAIN records \subseteq Slices
      /\ \A t \in DOMAIN records : records[t] \in BorderNodes
  BY RelationIs
<1>2. PICK S : S = DOMAIN records \cup {s}
  OBVIOUS
<1>3. Record(records, s, bn) \in [S -> BorderNodes] /\ S \in SUBSET Slices
  BY <1>1, <1>2 DEF Record
<1>4. Record(records, s, bn) \in Relations
  BY <1>3 DEF Relations
<1> QED
  BY <1>4 DEF Record

LEMMA NoneIsARelation ==
    /\ NoRecords \in Relations /\ DOMAIN NoRecords = {}
    /\ \A p : Look(NoRecords, p) = NULL
    /\ \A s : LinkAt(NoRecords, s) = NULL
<1>1. NoRecords \in [{} -> BorderNodes] /\ {} \in SUBSET Slices
  BY DEF NoRecords
<1>2. DOMAIN NoRecords = {}
  BY DEF NoRecords
<1> QED
  BY <1>1, <1>2 DEF Relations, Look, LinkAt

LEMMA LookIs ==
    ASSUME NEW records \in Relations, NEW p \in Strings
    PROVE  Look(records, p) \in Values \cup {NULL}
<1>1. CASE Slice(p) \in DOMAIN records
  <2>1. PICK bn \in BorderNodes : bn = records[Slice(p)]
    BY <1>1, RelationIs
  <2>2. ~EndsHere(p) => Rest(p) # NULL
    BY RestIs, NullIsNoOther
  <2>3. ValueIn(bn, p) \in Values \cup {NULL}
    BY <2>2, RestIs DEF ValueIn, BorderNodes, HasSuffix
  <2> QED
    BY <1>1, <2>1, <2>3 DEF Look
<1> QED
  BY <1>1 DEF Look

\* The border node for a slice, a new one if there is none.
Old(records, s) == IF s \in DOMAIN records THEN records[s] ELSE NewBorderNode

\* records2 is records with v for p and nothing else.
OnlyPuts(records, records2, p, v) ==
    /\ records2 \in Relations /\ Slice(p) \in DOMAIN records2
    /\ \A s : LinkAt(records2, s) = LinkAt(records, s)
    /\ Look(records2, p) = v
    /\ \A q \in Strings : q # p => Look(records2, q) = Look(records, q)
    /\ \A s \in DOMAIN records2 : HasSuffix(records2[s]) =>
          \/ s \in DOMAIN records /\ HasSuffix(records[s]) /\ records2[s].keySuffix = records[s].keySuffix
          \/ s = Slice(p) /\ ~EndsHere(p) /\ records2[s].keySuffix = Rest(p)

LEMMA PutsOne ==
    ASSUME NEW records \in Relations, NEW p \in Strings, NEW v \in Values,
           HasRoom(Old(records, Slice(p)), p)
    PROVE  OnlyPuts(records, Record(records, Slice(p), SetValue(Old(records, Slice(p)), p, v)), p, v)
<1>1. PICK s \in Slices : s = Slice(p)
  BY RestIs
<1>2. PICK bn : bn = Old(records, s)
  OBVIOUS
<1>3. bn \in BorderNodes /\ (s \notin DOMAIN records => bn = NewBorderNode) /\ (s \in DOMAIN records => bn = records[s])
  BY <1>2, RelationIs, NewIsBorderNode DEF Old
<1>4. PICK b : b = SetValue(bn, p, v)
  OBVIOUS
<1>5. OnlyAdds(bn, b, p, v)
  <2>1. HasRoom(bn, p)
    BY <1>1, <1>2
  <2> QED
    BY <1>3, <1>4, <2>1, SetValueIs
<1>6. b \in BorderNodes
  BY <1>5 DEF OnlyAdds
<1>7. PICK r : r = Record(records, s, b)
  OBVIOUS
<1>8. /\ r \in Relations /\ DOMAIN r = DOMAIN records \cup {s} /\ r[s] = b
      /\ \A t \in DOMAIN records : t # s => r[t] = records[t]
  BY <1>6, <1>7, RecordIs
<1>9. ASSUME NEW t
      PROVE  LinkAt(r, t) = LinkAt(records, t)
  <2>1. CASE t = s
    BY <1>3, <1>5, <1>8, <2>1, NewIsBorderNode DEF OnlyAdds, LinkAt
  <2>2. CASE t # s
    BY <1>8, <2>2 DEF LinkAt
  <2> QED
    BY <2>1, <2>2
<1>10. Look(r, p) = v
  BY <1>1, <1>5, <1>8 DEF OnlyAdds, Look
<1>11. ASSUME NEW q \in Strings, q # p
       PROVE  Look(r, q) = Look(records, q)
  <2>1. CASE Slice(q) = s
    <3>1. ValueIn(b, q) = ValueIn(bn, q)
      BY <1>1, <1>5, <1>11, <2>1 DEF OnlyAdds
    <3>2. s \notin DOMAIN records => ValueIn(bn, q) = NULL
      BY <1>3, NewIsBorderNode
    <3> QED
      BY <1>3, <1>8, <2>1, <3>1, <3>2 DEF Look
  <2>2. CASE Slice(q) # s
    BY <1>8, <2>2 DEF Look
  <2> QED
    BY <2>1, <2>2
<1>12. ASSUME NEW t \in DOMAIN r, HasSuffix(r[t])
       PROVE  \/ t \in DOMAIN records /\ HasSuffix(records[t]) /\ r[t].keySuffix = records[t].keySuffix
              \/ t = s /\ ~EndsHere(p) /\ r[t].keySuffix = Rest(p)
  <2>1. CASE t = s
    BY <1>3, <1>5, <1>8, <1>12, <2>1, NewIsBorderNode DEF OnlyAdds
  <2>2. CASE t # s
    BY <1>8, <1>12, <2>2
  <2> QED
    BY <2>1, <2>2
<1>13. OnlyPuts(records, r, p, v)
  BY <1>1, <1>8, <1>9, <1>10, <1>11, <1>12 DEF OnlyPuts
<1> QED
  BY <1>1, <1>2, <1>4, <1>7, <1>13

-----------------------------------------------------------------------------
(* The trie: lay are the layers, lev their levels and reg their regions. *)

\* The keys of a region that go on past the slice s.
Below(region, i, s) == {k \in region : Slice(Cut(k, i)) = s /\ ~EndsHere(Cut(k, i))}

Rooted(lay, lev, reg) == DOMAIN lay \subseteq Nat /\ 1 \in DOMAIN lay /\ lev[1] = 0 /\ reg[1] = Strings

Regions(lay, lev, reg) ==
    \A n \in DOMAIN lay :
       /\ lev[n] \in Nat /\ reg[n] \subseteq Strings /\ reg[n] # {}
       /\ \A k \in reg[n] : Cut(k, lev[n]) \in Strings
       /\ \A k, m \in reg[n] : Same(k, m, lev[n])

Apart(lay, lev, reg) == \A n, m \in DOMAIN lay : n # m /\ lev[n] = lev[m] => reg[n] \cap reg[m] = {}

LedOn(lay, lev, reg) ==
    \A n, m \in DOMAIN lay : \A k \in reg[n] \cap reg[m] :
       lev[n] < lev[m] => LinkAt(lay[n], Slice(Cut(k, lev[n]))) # NULL

\* A link from slice s of layer n to layer m.
LeadsTo(lay, lev, reg, n, s, m) ==
    m \in DOMAIN lay /\ n < m /\ lev[m] = lev[n] + 1 /\ reg[m] = Below(reg[n], lev[n], s)

LinksLead(lay, lev, reg) ==
    \A n \in DOMAIN lay, s \in Slices :
       LinkAt(lay[n], s) # NULL => LeadsTo(lay, lev, reg, n, s, LinkAt(lay[n], s))

AllHang(lay) == \A m \in DOMAIN lay \ {1} : \E n \in DOMAIN lay, s \in Slices : LinkAt(lay[n], s) = m

Tree(lay, lev, reg) ==
    /\ Rooted(lay, lev, reg) /\ Regions(lay, lev, reg) /\ Apart(lay, lev, reg)
    /\ LedOn(lay, lev, reg) /\ LinksLead(lay, lev, reg) /\ AllHang(lay)

LEMMA SliceOfCut ==
    ASSUME NEW lay, NEW lev, NEW reg, Tree(lay, lev, reg), NEW n \in DOMAIN lay, NEW k \in reg[n]
    PROVE  /\ lev[n] \in Nat /\ k \in Strings /\ Cut(k, lev[n]) \in Strings
           /\ Slice(Cut(k, lev[n])) \in Slices
BY RestIs DEF Tree, Regions

\* What changes no link changes nothing of this.
LEMMA SameLinks ==
    ASSUME NEW lay, NEW lay2, NEW lev, NEW reg, Tree(lay, lev, reg), DOMAIN lay2 = DOMAIN lay,
           \A n \in DOMAIN lay : \A s : LinkAt(lay2[n], s) = LinkAt(lay[n], s)
    PROVE  Tree(lay2, lev, reg)
<1>1. Rooted(lay2, lev, reg) /\ Regions(lay2, lev, reg) /\ Apart(lay2, lev, reg)
  BY DEF Tree, Rooted, Regions, Apart
<1>2. LedOn(lay2, lev, reg)
  BY DEF Tree, LedOn
<1>3. LinksLead(lay2, lev, reg)
  BY DEF Tree, LinksLead, LeadsTo
<1>4. AllHang(lay2)
  BY DEF Tree, AllHang
<1> QED
  BY <1>1, <1>2, <1>3, <1>4 DEF Tree

\* lay2 is lay with a layer m that hangs from slice s of layer c.
NewLayer(lay, lay2, c, s, m) ==
    /\ m \in Nat /\ (\A n \in DOMAIN lay : n < m) /\ DOMAIN lay2 = DOMAIN lay \cup {m}
    /\ c \in DOMAIN lay /\ s \in Slices /\ LinkAt(lay[c], s) = NULL /\ LinkAt(lay2[c], s) = m
    /\ \A t : LinkAt(lay2[m], t) = NULL
    /\ \A n \in DOMAIN lay, t \in Slices : n # c \/ t # s => LinkAt(lay2[n], t) = LinkAt(lay[n], t)

\* The levels and regions of the old layers stay.
SameRegions(lay, lev, reg, lev2, reg2) == \A n \in DOMAIN lay : lev2[n] = lev[n] /\ reg2[n] = reg[n]

LEMMA Grow ==
    ASSUME NEW lay, NEW lay2, NEW lev, NEW reg, Tree(lay, lev, reg), NEW c, NEW s, NEW m,
           NewLayer(lay, lay2, c, s, m), Below(reg[c], lev[c], s) # {}
    PROVE  \E lev2, reg2 : /\ Tree(lay2, lev2, reg2) /\ SameRegions(lay, lev, reg, lev2, reg2)
                           /\ LeadsTo(lay2, lev2, reg2, c, s, m)
<1> DEFINE lev2 == [n \in DOMAIN lay2 |-> IF n = m THEN lev[c] + 1 ELSE lev[n]]
           reg2 == [n \in DOMAIN lay2 |-> IF n = m THEN Below(reg[c], lev[c], s) ELSE reg[n]]
<1>1. PICK l2, r2 : l2 = lev2 /\ r2 = reg2
  OBVIOUS
<1>2. DOMAIN lay \subseteq Nat /\ m \notin DOMAIN lay
  BY DEF Tree, Rooted, NewLayer
<1>3. /\ \A n \in DOMAIN lay : l2[n] = lev[n] /\ r2[n] = reg[n]
      /\ l2[m] = lev[c] + 1 /\ r2[m] = Below(reg[c], lev[c], s)
      /\ DOMAIN lay2 = DOMAIN lay \cup {m} /\ c \in DOMAIN lay /\ c < m
  BY <1>1, <1>2 DEF NewLayer
<1> HIDE DEF lev2, reg2
<1>4. lev[c] \in Nat /\ (\A n \in DOMAIN lay : lev[n] \in Nat /\ reg[n] \subseteq Strings) /\ r2[m] \subseteq reg[c]
  BY <1>3 DEF Tree, Regions, Below
<1>5. Rooted(lay2, l2, r2)
  BY <1>2, <1>3 DEF Tree, Rooted, NewLayer
<1>6. Regions(lay2, l2, r2)
  <2>1. ASSUME NEW k \in r2[m]
        PROVE  /\ k \in reg[c] /\ k \in Strings /\ Cut(k, lev[c]) \in Strings /\ Slice(Cut(k, lev[c])) = s
               /\ ~EndsHere(Cut(k, lev[c])) /\ Cut(k, lev[c] + 1) \in Strings
    <3>1. /\ k \in reg[c] /\ k \in Strings /\ Cut(k, lev[c]) \in Strings /\ Slice(Cut(k, lev[c])) = s
          /\ ~EndsHere(Cut(k, lev[c]))
      BY <1>3, <2>1 DEF Below, Tree, Regions
    <3> QED
      BY <1>4, <3>1, CutFurther
  <2>2. ASSUME NEW k \in r2[m], NEW h \in r2[m]
        PROVE  Same(k, h, lev[c] + 1)
    <3>1. Same(k, h, lev[c])
      BY <1>3, <2>1, <2>2 DEF Tree, Regions
    <3> QED
      BY <1>4, <2>1, <2>2, <3>1, SameFurther
  <2>3. ASSUME NEW n \in DOMAIN lay2
        PROVE  /\ l2[n] \in Nat /\ r2[n] \subseteq Strings /\ r2[n] # {}
               /\ \A k \in r2[n] : Cut(k, l2[n]) \in Strings
               /\ \A k, h \in r2[n] : Same(k, h, l2[n])
    <3>1. CASE n = m
      BY <1>3, <1>4, <2>1, <2>2, <3>1
    <3>2. CASE n \in DOMAIN lay
      BY <1>3, <3>2 DEF Tree, Regions
    <3> QED
      BY <1>3, <3>1, <3>2
  <2> QED
    BY <2>3 DEF Regions
\* No key of the new region has been led further than to c.
<1>7. ASSUME NEW n \in DOMAIN lay, NEW k \in reg[n], k \in r2[m]
      PROVE  lev[n] <= lev[c] /\ (lev[n] = lev[c] => n = c)
  <2>1. k \in reg[c] /\ Slice(Cut(k, lev[c])) = s
    BY <1>3, <1>7 DEF Below
  <2>2. ~(lev[c] < lev[n])
    BY <1>3, <2>1 DEF Tree, LedOn, NewLayer
  <2>3. lev[n] = lev[c] => n = c
    BY <1>3, <2>1 DEF Tree, Apart
  <2> QED
    BY <1>4, <2>2, <2>3
<1>8. Apart(lay2, l2, r2)
  <2>1. ASSUME NEW n \in DOMAIN lay, l2[n] = l2[m], NEW k \in r2[n], k \in r2[m]
        PROVE  FALSE
    BY <1>3, <1>4, <1>7, <2>1
  <2>2. \A n, h \in DOMAIN lay : n # h /\ l2[n] = l2[h] => r2[n] \cap r2[h] = {}
    BY <1>3 DEF Tree, Apart
  <2> QED
    BY <1>3, <2>1, <2>2 DEF Apart
<1>9. LedOn(lay2, l2, r2)
  <2>1. ASSUME NEW n \in DOMAIN lay2, NEW h \in DOMAIN lay2, NEW k \in r2[n], k \in r2[h], l2[n] < l2[h]
        PROVE  LinkAt(lay2[n], Slice(Cut(k, l2[n]))) # NULL
    <3>1. CASE n = m
      <4>1. h \in DOMAIN lay
        BY <1>3, <1>4, <2>1, <3>1
      <4>2. lev[h] <= lev[c] /\ lev[h] \in Nat
        BY <1>3, <1>4, <1>7, <2>1, <3>1, <4>1
      <4> QED
        BY <1>3, <1>4, <2>1, <3>1, <4>1, <4>2
    <3>2. CASE n = c /\ h = m
      <4>1. Slice(Cut(k, lev[c])) = s
        BY <1>3, <2>1, <3>2 DEF Below
      <4>2. m # NULL
        BY NullIsNoOther DEF NewLayer
      <4> QED
        BY <1>3, <3>2, <4>1, <4>2 DEF NewLayer
    <3>3. CASE n \in DOMAIN lay /\ n # c /\ h = m
      <4>1. lev[n] < lev[c] /\ k \in reg[n] \cap reg[c]
        BY <1>3, <1>4, <1>7, <2>1, <3>3
      <4>2. LinkAt(lay[n], Slice(Cut(k, lev[n]))) # NULL
        BY <1>3, <3>3, <4>1 DEF Tree, LedOn
      <4>3. Slice(Cut(k, lev[n])) \in Slices
        BY <3>3, <4>1, SliceOfCut
      <4> QED
        BY <1>3, <3>3, <4>2, <4>3 DEF NewLayer
    <3>4. CASE n \in DOMAIN lay /\ h \in DOMAIN lay
      <4>1. k \in reg[n] \cap reg[h] /\ lev[n] < lev[h]
        BY <1>3, <2>1, <3>4
      <4>2. LinkAt(lay[n], Slice(Cut(k, lev[n]))) # NULL
        BY <3>4, <4>1 DEF Tree, LedOn
      <4>3. Slice(Cut(k, lev[n])) \in Slices
        BY <3>4, <4>1, SliceOfCut
      <4> QED
        BY <1>3, <3>4, <4>2, <4>3 DEF NewLayer
    <3> QED
      BY <1>3, <2>1, <3>1, <3>2, <3>3, <3>4
  <2> QED
    BY <2>1 DEF LedOn
<1>10. LeadsTo(lay2, l2, r2, c, s, m)
  BY <1>3 DEF LeadsTo
<1>11. LinksLead(lay2, l2, r2)
  <2>1. ASSUME NEW n \in DOMAIN lay2, NEW t \in Slices, LinkAt(lay2[n], t) # NULL
        PROVE  LeadsTo(lay2, l2, r2, n, t, LinkAt(lay2[n], t))
    <3>1. CASE n = m
      BY <2>1, <3>1 DEF NewLayer
    <3>2. CASE n = c /\ t = s
      BY <1>10, <3>2 DEF NewLayer
    <3>3. CASE n \in DOMAIN lay /\ (n # c \/ t # s)
      <4>1. PICK h : h = LinkAt(lay[n], t) /\ h = LinkAt(lay2[n], t)
        BY <3>3 DEF NewLayer
      <4>2. LeadsTo(lay, lev, reg, n, t, h)
        BY <2>1, <3>3, <4>1 DEF Tree, LinksLead
      <4>3. LeadsTo(lay2, l2, r2, n, t, h)
        BY <1>3, <3>3, <4>2 DEF LeadsTo
      <4> QED
        BY <4>1, <4>3
    <3> QED
      BY <1>3, <3>1, <3>2, <3>3
  <2> QED
    BY <2>1 DEF LinksLead
<1>12. AllHang(lay2)
  <2>1. ASSUME NEW h \in DOMAIN lay2 \ {1}
        PROVE  \E n \in DOMAIN lay2, t \in Slices : LinkAt(lay2[n], t) = h
    <3>1. CASE h = m
      BY <1>3, <3>1 DEF NewLayer
    <3>2. CASE h \in DOMAIN lay
      <4>1. PICK n \in DOMAIN lay, t \in Slices : LinkAt(lay[n], t) = h
        BY <2>1, <3>2 DEF Tree, AllHang
      <4>2. h # NULL
        BY <1>2, <3>2, NullIsNoOther
      <4>3. n # c \/ t # s
        BY <4>1, <4>2 DEF NewLayer
      <4>4. LinkAt(lay2[n], t) = h
        BY <4>1, <4>3 DEF NewLayer
      <4> QED
        BY <1>3, <4>4
    <3> QED
      BY <1>3, <2>1, <3>1, <3>2
  <2> QED
    BY <2>1 DEF AllHang
<1>13. SameRegions(lay, lev, reg, l2, r2)
  BY <1>3 DEF SameRegions
<1>14. Tree(lay2, l2, r2)
  BY <1>5, <1>6, <1>8, <1>9, <1>11, <1>12 DEF Tree
<1> QED
  BY <1>10, <1>13, <1>14

\* A link leads the keys that go on past its slice.
LEMMA Follow ==
    ASSUME NEW lay, NEW lev, NEW reg, Tree(lay, lev, reg), NEW c \in DOMAIN lay, NEW k \in reg[c],
           NEW p, p = Cut(k, lev[c]), ~EndsHere(p),
           NEW m, LeadsTo(lay, lev, reg, c, Slice(p), m)
    PROVE  m \in DOMAIN lay /\ k \in reg[m] /\ Rest(p) = Cut(k, lev[m])
<1>1. lev[c] \in Nat /\ k \in Strings /\ p \in Strings
  BY SliceOfCut
<1>2. m \in DOMAIN lay /\ lev[m] = lev[c] + 1 /\ k \in reg[m]
  BY DEF LeadsTo, Below
<1> QED
  BY <1>1, <1>2, CutFurther

\* Where a key has been led on, it has no value.
LEMMA Passed ==
    ASSUME NEW lay, NEW lev, NEW reg, Tree(lay, lev, reg), NEW n \in DOMAIN lay, NEW m \in DOMAIN lay,
           NEW k \in reg[n], k \in reg[m], lev[n] < lev[m]
    PROVE  /\ Look(lay[n], Cut(k, lev[n])) = NULL
           /\ LinkAt(lay[n], Slice(Cut(k, lev[n]))) # NULL /\ ~EndsHere(Cut(k, lev[n]))
<1>1. lev[n] \in Nat /\ lev[m] \in Nat /\ k \in Strings /\ Cut(k, lev[m]) \in Strings
  BY SliceOfCut
<1>2. PICK p : p = Cut(k, lev[n])
  OBVIOUS
<1>3. p \in Strings /\ ~EndsHere(p)
  BY <1>1, <1>2, GoesOn
<1>4. LinkAt(lay[n], Slice(p)) # NULL
  BY <1>2 DEF Tree, LedOn
<1>5. Rest(p) # NULL
  BY <1>3, RestIs, NullIsNoOther
<1>6. Look(lay[n], p) = NULL
  BY <1>3, <1>4, <1>5 DEF Look, ValueIn, LinkAt, GetLink, HasSuffix
<1> QED
  BY <1>2, <1>3, <1>4, <1>6

\* A key has a value in one layer at most.
LEMMA OnlyHere ==
    ASSUME NEW lay, NEW lev, NEW reg, Tree(lay, lev, reg), NEW n \in DOMAIN lay, NEW m \in DOMAIN lay,
           NEW k \in reg[n], k \in reg[m],
           Look(lay[n], Cut(k, lev[n])) # NULL, Look(lay[m], Cut(k, lev[m])) # NULL
    PROVE  n = m
<1>1. ~(lev[n] < lev[m]) /\ ~(lev[m] < lev[n])
  BY Passed
<1>2. lev[n] \in Nat /\ lev[m] \in Nat
  BY SliceOfCut
<1>3. lev[n] = lev[m]
  BY <1>1, <1>2
<1> QED
  BY <1>3 DEF Tree, Apart

\* A key that is not led on from a layer has no value in another.
LEMMA NotLedOn ==
    ASSUME NEW lay, NEW lev, NEW reg, Tree(lay, lev, reg), NEW n \in DOMAIN lay, NEW c \in DOMAIN lay,
           NEW k \in reg[n], k \in reg[c], Look(lay[n], Cut(k, lev[n])) # NULL,
           EndsHere(Cut(k, lev[c])) \/ LinkAt(lay[c], Slice(Cut(k, lev[c]))) = NULL
    PROVE  n = c
<1>1. ~(lev[n] < lev[c]) /\ ~(lev[c] < lev[n])
  BY Passed
<1>2. lev[n] \in Nat /\ lev[c] \in Nat
  BY SliceOfCut
<1>3. lev[n] = lev[c]
  BY <1>1, <1>2
<1> QED
  BY <1>3 DEF Tree, Apart

-----------------------------------------------------------------------------
(* The inductive invariant. *)

Doing(k) == op = "put" /\ k = total

Scalars ==
    /\ numKeys \in Nat
    /\ op \in {"idle", "put", "get", "got"}
    /\ key \in Strings \cup {<<>>} /\ total \in Keys \cup {<<>>}
    /\ value \in Values \cup {NULL} /\ ret \in Values \cup {NULL}
    /\ currNode \in DOMAIN layers
    /\ snd = NULL \/ (snd = [key |-> snd.key, value |-> snd.value] /\ snd.key \in Strings /\ snd.value \in Values)
    /\ DOMAIN map \subseteq Keys /\ (\A k \in DOMAIN map : map[k] \in Values) /\ mixed \subseteq Keys

\* A call has been led rightly.
Searching(lev, reg) ==
    /\ op \in {"put", "get"} =>
          total \in Keys /\ total \in reg[currNode] /\ key = Cut(total, lev[currNode])
    /\ op = "put" => value \in Values
    /\ op # "put" => snd = NULL

\* The second key is one that was put, on its way to the same layer.
IsSecond(lev, reg, k) == k \in reg[currNode] /\ snd.key = Cut(k, lev[currNode])
Second(lev, reg) ==
    snd # NULL =>
       /\ layers[currNode] = NoRecords /\ currNode # 1
       /\ \E k \in DOMAIN map : IsSecond(lev, reg, k) /\ k # total /\ (k \notin mixed => map[k] = snd.value)

NoneEmpty == \A n \in DOMAIN layers \ {1} : layers[n] = NoRecords => snd # NULL /\ n = currNode

\* The value that a layer has for a key is the one last put for it.
Right(lev, reg) ==
    \A n \in DOMAIN layers : \A k \in reg[n] :
       Look(layers[n], Cut(k, lev[n])) # NULL /\ k \notin mixed /\ ~Doing(k)
          => k \in DOMAIN map /\ Look(layers[n], Cut(k, lev[n])) = map[k]

\* Every key that was put has a value in a layer or is the second key.
HasValue(lev, reg, k) == \E n \in DOMAIN layers : k \in reg[n] /\ Look(layers[n], Cut(k, lev[n])) # NULL
There(lev, reg) ==
    \A k \in DOMAIN map \ mixed : HasValue(lev, reg, k) \/ (snd # NULL /\ IsSecond(lev, reg, k))

\* A suffix is what is left of a key that was put.
SuffixOf(lev, reg, n, s, k) ==
    LET p == Cut(k, lev[n])
    IN  k \in reg[n] /\ Slice(p) = s /\ ~EndsHere(p) /\ layers[n][s].keySuffix = Rest(p)
Suffixes(lev, reg) ==
    \A n \in DOMAIN layers : \A s \in DOMAIN layers[n] :
       HasSuffix(layers[n][s]) => \E k \in Strings : SuffixOf(lev, reg, n, s, k) /\ (k \in DOMAIN map \/ Doing(k))

\* The key of KV_Put counts from case 1.0 on, a turn before it is put.
NoneMeet == ~\E k, m \in DOMAIN map : MeetAtEnd(k, m)
Early(lev, reg) == op = "put" /\ total \notin DOMAIN map /\ HasValue(lev, reg, total)
Counts(lev, reg) ==
    /\ IsFiniteSet(DOMAIN map)
    /\ NoneMeet =>
          mixed = {} /\ numKeys = Cardinality(DOMAIN map) + (IF Early(lev, reg) THEN 1 ELSE 0)

Good(lev, reg) ==
    /\ layers \in Seq(Relations) /\ Scalars /\ Tree(layers, lev, reg)
    /\ Searching(lev, reg) /\ Second(lev, reg) /\ NoneEmpty
    /\ Right(lev, reg) /\ There(lev, reg) /\ Suffixes(lev, reg) /\ Counts(lev, reg)
    /\ GetReturnsLastPut

Inv == \E lev, reg : Good(lev, reg)

-----------------------------------------------------------------------------

LEMMA KeysAreStrings == \A k \in Keys : k \in Strings
BY KVAssumption DEF Strings

LEMMA InSearch ==
    ASSUME NEW lev, NEW reg, Good(lev, reg), op \in {"put", "get"}
    PROVE  /\ currNode \in DOMAIN layers /\ layers[currNode] \in Relations /\ lev[currNode] \in Nat
           /\ total \in Keys /\ total \in Strings /\ total \in reg[currNode]
           /\ key = Cut(total, lev[currNode]) /\ key \in Strings /\ Slice(key) \in Slices
           /\ op = "put" => value \in Values
<1>1. currNode \in DOMAIN layers /\ total \in Keys /\ total \in reg[currNode] /\ key = Cut(total, lev[currNode])
  BY DEF Good, Scalars, Searching
<1>2. layers[currNode] \in Relations
  BY <1>1, ElementOfSeq, LenProperties DEF Good
<1>3. lev[currNode] \in Nat /\ key \in Strings /\ Slice(key) \in Slices /\ total \in Strings
  BY <1>1, SliceOfCut DEF Good
<1> QED
  BY <1>1, <1>2, <1>3 DEF Good, Searching

LEMMA SetRecords ==
    ASSUME NEW lay \in Seq(Relations), NEW c \in DOMAIN lay, NEW r \in Relations, NEW lay2,
           lay2 = [lay EXCEPT ![c] = r]
    PROVE  /\ lay2 \in Seq(Relations) /\ DOMAIN lay2 = DOMAIN lay /\ lay2[c] = r
           /\ \A n \in DOMAIN lay : n # c => lay2[n] = lay[n]
<1>1. DOMAIN lay = 1 .. Len(lay)
  BY LenProperties
<1>2. lay2 \in Seq(Relations)
  BY <1>1, ExceptSeq
<1> QED
  BY <1>2

Appended(lay, lay2, m) ==
    /\ lay2 \in Seq(Relations) /\ DOMAIN lay2 = DOMAIN lay \cup {m} /\ lay2[m] = NoRecords
    /\ \A n \in DOMAIN lay : n < m /\ lay2[n] = lay[n]
    /\ m \in Nat

LEMMA AppendsOne == \A lay \in Seq(Relations) : Appended(lay, Append(lay, NoRecords), Len(lay) + 1)
<1> TAKE lay \in Seq(Relations)
<1>1. NoRecords \in Relations
  BY NoneIsARelation
<1>2. PICK lay2 : lay2 = Append(lay, NoRecords)
  OBVIOUS
<1>3. DOMAIN lay = 1 .. Len(lay) /\ Len(lay) \in Nat
  BY LenProperties
<1>4. PICK m \in Nat : m = Len(lay) + 1
  BY <1>3
<1>5. /\ lay2 \in Seq(Relations) /\ Len(lay2) = Len(lay) + 1
      /\ \A n \in 1 .. Len(lay) : lay2[n] = lay[n]
      /\ lay2[Len(lay) + 1] = NoRecords
  BY <1>1, <1>2, AppendProperties
<1>6. DOMAIN lay2 = 1 .. m
  BY <1>4, <1>5, LenProperties
<1>7. Appended(lay, lay2, m)
  BY <1>3, <1>4, <1>5, <1>6 DEF Appended
<1> QED
  BY <1>2, <1>4, <1>7

-----------------------------------------------------------------------------
(* A value is put where the key has been led. *)

\* The records of currNode become r.
Sets(lev, reg, r) ==
    /\ layers' \in Seq(Relations) /\ DOMAIN layers' = DOMAIN layers /\ layers'[currNode] = r
    /\ \A n \in DOMAIN layers : n # currNode => layers'[n] = layers[n]
    /\ Tree(layers', lev, reg)

LEMMA SetsOne ==
    ASSUME NEW lev, NEW reg, Good(lev, reg), op \in {"put", "get"}, NEW r \in Relations,
           layers' = [layers EXCEPT ![currNode] = r],
           \A s : LinkAt(r, s) = LinkAt(layers[currNode], s)
    PROVE  Sets(lev, reg, r)
<1>1. currNode \in DOMAIN layers /\ layers \in Seq(Relations) /\ Tree(layers, lev, reg)
  BY InSearch DEF Good
<1>2. PICK lay, lay2, c : lay = layers /\ lay2 = layers' /\ c = currNode
  OBVIOUS
<1>3. /\ lay2 \in Seq(Relations) /\ DOMAIN lay2 = DOMAIN lay /\ lay2[c] = r
      /\ \A n \in DOMAIN lay : n # c => lay2[n] = lay[n]
  BY <1>1, <1>2, SetRecords
<1>4. \A n \in DOMAIN lay : \A s : LinkAt(lay2[n], s) = LinkAt(lay[n], s)
  BY <1>2, <1>3
<1>5. Tree(lay2, lev, reg)
  BY <1>1, <1>2, <1>3, <1>4, SameLinks
<1> QED
  BY <1>2, <1>3, <1>5 DEF Sets

\* The turn of KV_Put that puts the value beside what is there.
LEMMA PutsHere ==
    ASSUME NEW lev, NEW reg, Good(lev, reg), op = "put", HasRoom(Old(layers[currNode], Slice(key)), key),
           SetHere(SetValue(Old(layers[currNode], Slice(key)), key, value))
    PROVE  \E r \in Relations : OnlyPuts(layers[currNode], r, key, value) /\ Sets(lev, reg, r)
<1>1. /\ currNode \in DOMAIN layers /\ layers[currNode] \in Relations
      /\ key \in Strings /\ Slice(key) \in Slices /\ value \in Values
  BY InSearch
<1>2. PICK rs, p, v : rs = layers[currNode] /\ p = key /\ v = value
  OBVIOUS
<1>3. PICK r : r = Record(rs, Slice(p), SetValue(Old(rs, Slice(p)), p, v))
  OBVIOUS
<1>4. OnlyPuts(rs, r, p, v)
  BY <1>1, <1>2, <1>3, PutsOne
<1>5. r \in Relations /\ \A s : LinkAt(r, s) = LinkAt(rs, s)
  BY <1>4 DEF OnlyPuts
<1>6. layers' = [layers EXCEPT ![currNode] = r]
  BY <1>2, <1>3 DEF SetHere
<1>7. Sets(lev, reg, r)
  BY <1>2, <1>5, <1>6, SetsOne
<1> QED
  BY <1>2, <1>4, <1>5, <1>7

\* There is no other second key.
LEMMA OneSecond ==
    ASSUME NEW lev, NEW reg, Good(lev, reg), NEW k, NEW m,
           IsSecond(lev, reg, k), IsSecond(lev, reg, m)
    PROVE  k = m
<1>1. currNode \in DOMAIN layers /\ Tree(layers, lev, reg) /\ k \in reg[currNode] /\ m \in reg[currNode]
  BY DEF Good, Scalars, IsSecond
<1>2. PICK i : i = lev[currNode]
  OBVIOUS
<1>3. i \in Nat /\ k \in Strings /\ m \in Strings /\ Cut(k, i) \in Strings
  BY <1>1, <1>2, SliceOfCut
<1>4. Same(k, m, i) /\ Cut(k, i) = Cut(m, i)
  BY <1>1, <1>2 DEF Tree, Regions, IsSecond
<1> QED
  BY <1>3, <1>4, SameAndCut

\* The values for the key and the second key are in currNode, and nothing else has changed.
Placed(lev, reg) ==
    /\ layers' \in Seq(Relations) /\ DOMAIN layers' = DOMAIN layers /\ Tree(layers', lev, reg)
    /\ \A n \in DOMAIN layers : \A k \in reg[n] :
          k # total /\ ~(snd # NULL /\ n = currNode /\ IsSecond(lev, reg, k))
             => Look(layers'[n], Cut(k, lev[n])) = Look(layers[n], Cut(k, lev[n]))
    /\ \A n \in DOMAIN layers : \A s \in DOMAIN layers'[n] :
          HasSuffix(layers'[n][s]) =>
             \E k \in Strings : SuffixOf(lev, reg, n, s, k)' /\ (k \in DOMAIN map \/ k = total)
    /\ \A n \in DOMAIN layers \ {1} : layers'[n] # NoRecords

LEMMA OnePlaced ==
    ASSUME NEW lev, NEW reg, Good(lev, reg), op = "put", snd = NULL, NEW r \in Relations,
           OnlyPuts(layers[currNode], r, key, value), Sets(lev, reg, r)
    PROVE  Placed(lev, reg)
<1>1. /\ currNode \in DOMAIN layers /\ layers[currNode] \in Relations /\ lev[currNode] \in Nat
      /\ total \in Strings /\ total \in reg[currNode] /\ key = Cut(total, lev[currNode]) /\ key \in Strings
  BY InSearch
<1>2. Tree(layers, lev, reg) /\ NoneEmpty /\ Suffixes(lev, reg)
  BY DEF Good
<1>3. /\ layers' \in Seq(Relations) /\ DOMAIN layers' = DOMAIN layers /\ layers'[currNode] = r
      /\ \A n \in DOMAIN layers : n # currNode => layers'[n] = layers[n]
      /\ Tree(layers', lev, reg)
  BY DEF Sets
<1>4. ASSUME NEW n \in DOMAIN layers, NEW k \in reg[n], k # total
      PROVE  Look(layers'[n], Cut(k, lev[n])) = Look(layers[n], Cut(k, lev[n]))
  <2>1. CASE n = currNode
    <3>1. PICK q : q = Cut(k, lev[n])
      OBVIOUS
    <3>2. q \in Strings /\ k \in Strings
      BY <1>2, <3>1, SliceOfCut
    <3>3. q # key
      <4>1. Same(k, total, lev[n])
        BY <1>1, <1>2, <2>1 DEF Tree, Regions
      <4> QED
        BY <1>1, <1>4, <2>1, <3>1, <3>2, <4>1, SameAndCut
    <3>4. Look(r, q) = Look(layers[currNode], q)
      BY <3>2, <3>3 DEF OnlyPuts
    <3> QED
      BY <1>3, <2>1, <3>1, <3>4
  <2>2. CASE n # currNode
    BY <1>3, <2>2
  <2> QED
    BY <2>1, <2>2
<1>5. ASSUME NEW n \in DOMAIN layers, NEW s \in DOMAIN layers'[n], HasSuffix(layers'[n][s])
      PROVE  \E k \in Strings : SuffixOf(lev, reg, n, s, k)' /\ (k \in DOMAIN map \/ k = total)
  <2>1. CASE /\ s \in DOMAIN layers[n] /\ HasSuffix(layers[n][s])
             /\ layers'[n][s].keySuffix = layers[n][s].keySuffix
    <3>1. PICK k \in Strings : SuffixOf(lev, reg, n, s, k) /\ (k \in DOMAIN map \/ Doing(k))
      BY <1>2, <2>1 DEF Suffixes
    <3>2. SuffixOf(lev, reg, n, s, k)'
      BY <2>1, <3>1 DEF SuffixOf
    <3> QED
      BY <3>1, <3>2 DEF Doing
  <2>2. CASE n = currNode /\ s = Slice(key) /\ ~EndsHere(key) /\ layers'[n][s].keySuffix = Rest(key)
    <3>1. PICK k \in Strings : k = total
      BY <1>1
    <3>2. SuffixOf(lev, reg, n, s, k)'
      BY <1>1, <2>2, <3>1 DEF SuffixOf
    <3> QED
      BY <3>1, <3>2
  <2>3. CASE n # currNode
    BY <1>3, <1>5, <2>1, <2>3
  <2>4. CASE n = currNode
    <3>1. \/ s \in DOMAIN layers[n] /\ HasSuffix(layers[n][s]) /\ r[s].keySuffix = layers[n][s].keySuffix
          \/ s = Slice(key) /\ ~EndsHere(key) /\ r[s].keySuffix = Rest(key)
      BY <1>3, <1>5, <2>4 DEF OnlyPuts
    <3> QED
      BY <1>3, <2>1, <2>2, <2>4, <3>1
  <2> QED
    BY <2>3, <2>4
<1>6. ASSUME NEW n \in DOMAIN layers \ {1}
      PROVE  layers'[n] # NoRecords
  <2>1. CASE n = currNode
    BY <1>3, <2>1, NoneIsARelation DEF OnlyPuts
  <2>2. CASE n # currNode
    BY <1>2, <1>3, <2>2 DEF NoneEmpty
  <2> QED
    BY <2>1, <2>2
<1> QED
  BY <1>3, <1>4, <1>5, <1>6 DEF Placed

\* What Completed leaves, whatever has been mixed up.
LEMMA CompletedRest ==
    ASSUME NEW lev, NEW reg, Good(lev, reg), op = "put", Placed(lev, reg), Completed, numKeys' \in Nat,
           mixed' \subseteq Keys
    PROVE  /\ layers' \in Seq(Relations) /\ Scalars' /\ Tree(layers', lev, reg)
           /\ Searching(lev, reg)' /\ Second(lev, reg)' /\ NoneEmpty' /\ Suffixes(lev, reg)'
           /\ GetReturnsLastPut'
<1>1. /\ op' = "idle" /\ key' = <<>> /\ value' = NULL /\ total' = <<>> /\ currNode' = 1 /\ snd' = NULL
      /\ map' = [k \in DOMAIN map \cup {total} |-> IF k = total THEN value ELSE map[k]]
      /\ ret' = ret
  BY DEF Completed
<1>2. layers' \in Seq(Relations) /\ DOMAIN layers' = DOMAIN layers /\ Tree(layers', lev, reg)
  BY DEF Placed
<1>3. 1 \in DOMAIN layers'
  BY <1>2 DEF Tree, Rooted
<1>4. total \in Keys /\ value \in Values
  BY InSearch
<1>5. Scalars'
  BY <1>1, <1>3, <1>4 DEF Good, Scalars
<1>6. Searching(lev, reg)' /\ Second(lev, reg)' /\ GetReturnsLastPut'
  BY <1>1 DEF Searching, Second, GetReturnsLastPut
<1>7. NoneEmpty'
  BY <1>2 DEF NoneEmpty, Placed
<1>8. Suffixes(lev, reg)'
  <2>1. ASSUME NEW n \in DOMAIN layers', NEW s \in DOMAIN layers'[n], HasSuffix(layers'[n][s])
        PROVE  \E k \in Strings : SuffixOf(lev, reg, n, s, k)' /\ (k \in DOMAIN map' \/ Doing(k)')
    <3>1. PICK k \in Strings : SuffixOf(lev, reg, n, s, k)' /\ (k \in DOMAIN map \/ k = total)
      BY <1>2, <2>1 DEF Placed
    <3>2. k \in DOMAIN map'
      BY <1>1, <3>1
    <3> QED
      BY <3>1, <3>2
  <2> QED
    BY <2>1 DEF Suffixes
<1> QED
  BY <1>2, <1>5, <1>6, <1>7, <1>8

LEMMA DoneRight ==
    ASSUME NEW lev, NEW reg, Good(lev, reg), op = "put", Placed(lev, reg), Completed, numKeys' \in Nat,
           Look(layers'[currNode], key) = value,
           snd # NULL => Look(layers'[currNode], snd.key) = snd.value,
           mixed' = mixed \ {total}, numKeys' = numKeys + (IF HasValue(lev, reg, total) THEN 0 ELSE 1)
    PROVE  Good(lev, reg)'
<1>1. /\ op' = "idle" /\ snd' = NULL
      /\ map' = [k \in DOMAIN map \cup {total} |-> IF k = total THEN value ELSE map[k]]
  BY DEF Completed
<1>2. mixed \subseteq Keys /\ (snd # NULL => snd.value # NULL) /\ value # NULL
  BY InSearch, NullIsNoOther DEF Good, Scalars
<1>3. /\ currNode \in DOMAIN layers /\ total \in reg[currNode] /\ key = Cut(total, lev[currNode])
  BY InSearch
<1>4. DOMAIN layers' = DOMAIN layers /\ Tree(layers', lev, reg)
  BY DEF Placed
<1>5. \A n \in DOMAIN layers : \A k \in reg[n] :
          k # total /\ ~(snd # NULL /\ n = currNode /\ IsSecond(lev, reg, k))
             => Look(layers'[n], Cut(k, lev[n])) = Look(layers[n], Cut(k, lev[n]))
  BY DEF Placed
<1>6. Right(lev, reg)'
  <2>1. ASSUME NEW n \in DOMAIN layers', NEW k \in reg[n],
               Look(layers'[n], Cut(k, lev[n])) # NULL, k \notin mixed'
        PROVE  k \in DOMAIN map' /\ Look(layers'[n], Cut(k, lev[n])) = map'[k]
    <3>1. CASE k = total
      <4>1. PICK lay : lay = layers'
        OBVIOUS
      <4>2. n = currNode
        BY <1>2, <1>3, <1>4, <2>1, <3>1, <4>1, OnlyHere
      <4> QED
        BY <1>1, <1>3, <3>1, <4>2
    <3>2. CASE k # total /\ snd # NULL /\ n = currNode /\ IsSecond(lev, reg, k)
      <4>1. PICK m \in DOMAIN map : IsSecond(lev, reg, m) /\ (m \notin mixed => map[m] = snd.value)
        BY <3>2 DEF Good, Second
      <4>2. m = k
        BY <3>2, <4>1, OneSecond
      <4>3. k \notin mixed
        BY <2>1, <3>2
      <4>4. Look(layers'[n], Cut(k, lev[n])) = snd.value
        BY <3>2 DEF IsSecond
      <4> QED
        BY <1>1, <3>2, <4>1, <4>2, <4>3, <4>4
    <3>3. CASE k # total /\ ~(snd # NULL /\ n = currNode /\ IsSecond(lev, reg, k))
      <4>1. Look(layers'[n], Cut(k, lev[n])) = Look(layers[n], Cut(k, lev[n])) /\ n \in DOMAIN layers
        BY <1>4, <1>5, <3>3
      <4>2. k \notin mixed /\ ~Doing(k)
        BY <2>1, <3>3 DEF Doing
      <4>3. k \in DOMAIN map /\ Look(layers[n], Cut(k, lev[n])) = map[k]
        BY <2>1, <4>1, <4>2 DEF Good, Right
      <4> QED
        BY <1>1, <3>3, <4>1, <4>3
    <3> QED
      BY <3>1, <3>2, <3>3
  <2> QED
    BY <2>1 DEF Right
<1>7. There(lev, reg)'
  <2>1. ASSUME NEW k \in DOMAIN map' \ mixed'
        PROVE  \E n \in DOMAIN layers' : k \in reg[n] /\ Look(layers'[n], Cut(k, lev[n])) # NULL
    <3>1. CASE k = total
      BY <1>2, <1>3, <1>4, <3>1
    <3>2. CASE snd # NULL /\ IsSecond(lev, reg, k)
      <4>1. Look(layers'[currNode], Cut(k, lev[currNode])) = snd.value /\ k \in reg[currNode]
        BY <3>2 DEF IsSecond
      <4> QED
        BY <1>2, <1>3, <1>4, <3>2, <4>1
    <3>3. CASE k # total /\ ~(snd # NULL /\ IsSecond(lev, reg, k))
      <4>1. k \in DOMAIN map \ mixed
        BY <1>1, <2>1, <3>3
      <4>2. PICK n \in DOMAIN layers : k \in reg[n] /\ Look(layers[n], Cut(k, lev[n])) # NULL
        BY <3>3, <4>1 DEF Good, There, HasValue
      <4> QED
        BY <1>4, <1>5, <3>3, <4>2
    <3> QED
      BY <3>1, <3>2, <3>3
  <2> QED
    BY <2>1 DEF There, HasValue
<1>8. mixed' \subseteq Keys
  BY <1>2
<1>10. Counts(lev, reg)'
  <2>1. op' = "idle" /\ DOMAIN map' = DOMAIN map \cup {total} /\ numKeys \in Nat
    BY <1>1 DEF Good, Scalars
  <2>2. IsFiniteSet(DOMAIN map) /\ IsFiniteSet(DOMAIN map')
    BY <2>1, FS_AddElement DEF Good, Counts
  <2>3. ASSUME NoneMeet'
        PROVE  mixed' = {} /\ numKeys' = Cardinality(DOMAIN map')
    <3>1. NoneMeet
      BY <2>1, <2>3 DEF NoneMeet
    <3>2. mixed = {} /\ numKeys = Cardinality(DOMAIN map) + (IF Early(lev, reg) THEN 1 ELSE 0)
      BY <3>1 DEF Good, Counts
    <3>3. CASE total \in DOMAIN map
      <4>1. HasValue(lev, reg, total) \/ (snd # NULL /\ IsSecond(lev, reg, total))
        BY <3>2, <3>3 DEF Good, There
      <4>2. ~(snd # NULL /\ IsSecond(lev, reg, total))
        <5>1. ASSUME snd # NULL, IsSecond(lev, reg, total)
              PROVE  FALSE
          <6>1. PICK m \in DOMAIN map : IsSecond(lev, reg, m) /\ m # total
            BY <5>1 DEF Good, Second
          <6> QED
            BY <5>1, <6>1, OneSecond
        <5> QED
          BY <5>1
      <4>3. DOMAIN map' = DOMAIN map
        BY <2>1, <3>3
      <4> QED
        <5>1. numKeys = Cardinality(DOMAIN map) /\ numKeys' = numKeys /\ mixed' = {}
          <6>1. ~Early(lev, reg)
            BY <3>3 DEF Early
          <6> QED
            BY <2>1, <3>2, <4>1, <4>2, <6>1, FS_CardinalityType, <2>2
        <5> QED
          BY <4>3, <5>1
    <3>4. CASE total \notin DOMAIN map
      <4>1. PICK c \in Nat : c = Cardinality(DOMAIN map)
        BY <2>2, FS_CardinalityType
      <4>2. Cardinality(DOMAIN map') = c + 1
        BY <2>1, <2>2, <3>4, <4>1, FS_AddElement
      <4>3. Early(lev, reg) <=> HasValue(lev, reg, total)
        BY <3>4 DEF Early
      <4> QED
        BY <3>2, <4>1, <4>2, <4>3
    <3> QED
      BY <3>3, <3>4
  <2>4. ~Early(lev, reg)'
    BY <2>1 DEF Early
  <2> QED
    BY <2>1, <2>2, <2>3, <2>4, FS_CardinalityType DEF Counts
<1>9. /\ layers' \in Seq(Relations) /\ Scalars' /\ Tree(layers', lev, reg)
      /\ Searching(lev, reg)' /\ Second(lev, reg)' /\ NoneEmpty' /\ Suffixes(lev, reg)'
      /\ GetReturnsLastPut'
  BY <1>8, CompletedRest
<1> QED
  BY <1>6, <1>7, <1>9, <1>10 DEF Good

LEMMA SecondIs ==
    ASSUME NEW lev, NEW reg, Good(lev, reg), op = "put", snd # NULL
    PROVE  \E k \in DOMAIN map : /\ IsSecond(lev, reg, k) /\ k # total /\ (k \notin mixed => map[k] = snd.value)
                                 /\ k \in Strings /\ k \in reg[currNode] /\ snd.key = Cut(k, lev[currNode])
                                 /\ snd.key \in Strings /\ snd.key # key /\ snd.value \in Values
<1>1. /\ currNode \in DOMAIN layers /\ lev[currNode] \in Nat
      /\ total \in Strings /\ total \in reg[currNode] /\ key = Cut(total, lev[currNode]) /\ key \in Strings
  BY InSearch
<1>2. PICK k \in DOMAIN map : IsSecond(lev, reg, k) /\ k # total /\ (k \notin mixed => map[k] = snd.value)
  BY DEF Good, Second
<1>3. k \in reg[currNode] /\ snd.key = Cut(k, lev[currNode])
  BY <1>2 DEF IsSecond
<1>4. Tree(layers, lev, reg) /\ snd.key \in Strings /\ snd.value \in Values
  BY DEF Good, Scalars
<1>5. k \in Strings
  BY <1>1, <1>3, <1>4, SliceOfCut
<1>6. snd.key # key
  <2>1. Same(total, k, lev[currNode])
    BY <1>1, <1>3, <1>4 DEF Tree, Regions
  <2> QED
    BY <1>1, <1>2, <1>3, <1>5, <2>1, SameAndCut
<1> QED
  BY <1>2, <1>3, <1>4, <1>5, <1>6

LEMMA TwoPlaced ==
    ASSUME NEW lev, NEW reg, Good(lev, reg), op = "put", snd # NULL,
           NEW r1 \in Relations, NEW r \in Relations, NEW p \in {key, snd.key}, NEW v,
           OnlyPuts(NoRecords, r1, key, value), OnlyPuts(r1, r, p, v), Sets(lev, reg, r)
    PROVE  Placed(lev, reg)
<1>1. /\ currNode \in DOMAIN layers /\ lev[currNode] \in Nat
      /\ total \in Strings /\ total \in reg[currNode] /\ key = Cut(total, lev[currNode]) /\ key \in Strings
  BY InSearch
<1>2. Tree(layers, lev, reg) /\ NoneEmpty /\ Suffixes(lev, reg) /\ layers[currNode] = NoRecords
  BY DEF Good, Second
<1>3. /\ layers' \in Seq(Relations) /\ DOMAIN layers' = DOMAIN layers /\ layers'[currNode] = r
      /\ \A n \in DOMAIN layers : n # currNode => layers'[n] = layers[n]
      /\ Tree(layers', lev, reg)
  BY DEF Sets
<1>4. PICK m \in DOMAIN map : /\ IsSecond(lev, reg, m) /\ m \in Strings /\ m \in reg[currNode]
                              /\ snd.key = Cut(m, lev[currNode])
  BY SecondIs
<1>5. ASSUME NEW n \in DOMAIN layers, NEW k \in reg[n], k # total,
             ~(n = currNode /\ IsSecond(lev, reg, k))
      PROVE  Look(layers'[n], Cut(k, lev[n])) = Look(layers[n], Cut(k, lev[n]))
  <2>1. CASE n = currNode
    <3>1. PICK q : q = Cut(k, lev[n])
      OBVIOUS
    <3>2. q \in Strings /\ k \in Strings
      BY <1>2, <3>1, SliceOfCut
    <3>3. q # key
      <4>1. Same(k, total, lev[n])
        BY <1>1, <1>2, <2>1 DEF Tree, Regions
      <4> QED
        BY <1>1, <1>5, <2>1, <3>1, <3>2, <4>1, SameAndCut
    <3>4. q # snd.key
      BY <1>5, <2>1, <3>1 DEF IsSecond
    <3>5. Look(r1, q) = Look(NoRecords, q) /\ Look(r, q) = Look(r1, q)
      BY <3>2, <3>3, <3>4 DEF OnlyPuts
    <3> QED
      BY <1>2, <1>3, <2>1, <3>1, <3>5
  <2>2. CASE n # currNode
    BY <1>3, <2>2
  <2> QED
    BY <2>1, <2>2
<1>6. ASSUME NEW n \in DOMAIN layers, NEW s \in DOMAIN layers'[n], HasSuffix(layers'[n][s])
      PROVE  \E k \in Strings : SuffixOf(lev, reg, n, s, k)' /\ (k \in DOMAIN map \/ k = total)
  <2>1. CASE n # currNode
    <3>1. PICK k \in Strings : SuffixOf(lev, reg, n, s, k) /\ (k \in DOMAIN map \/ Doing(k))
      BY <1>2, <1>3, <1>6, <2>1 DEF Suffixes
    <3>2. SuffixOf(lev, reg, n, s, k)'
      BY <1>3, <2>1, <3>1 DEF SuffixOf
    <3> QED
      BY <3>1, <3>2 DEF Doing
  <2>2. ASSUME n = currNode, NEW q, NEW k \in Strings, k \in reg[currNode], q = Cut(k, lev[currNode]),
               s = Slice(q), ~EndsHere(q), r[s].keySuffix = Rest(q)
        PROVE  SuffixOf(lev, reg, n, s, k)'
    BY <1>3, <2>2 DEF SuffixOf
  <2>3. CASE n = currNode
    <3>1. DOMAIN NoRecords = {} /\ s \in DOMAIN r /\ HasSuffix(r[s])
      BY <1>3, <1>6, <2>3, NoneIsARelation
    <3>2. \/ s \in DOMAIN r1 /\ HasSuffix(r1[s]) /\ r[s].keySuffix = r1[s].keySuffix
          \/ s = Slice(p) /\ ~EndsHere(p) /\ r[s].keySuffix = Rest(p)
      BY <3>1 DEF OnlyPuts
    <3>3. \A t \in DOMAIN r1 : HasSuffix(r1[t]) => t = Slice(key) /\ ~EndsHere(key) /\ r1[t].keySuffix = Rest(key)
      BY <3>1 DEF OnlyPuts
    <3>4. \/ s = Slice(key) /\ ~EndsHere(key) /\ r[s].keySuffix = Rest(key)
          \/ s = Slice(snd.key) /\ ~EndsHere(snd.key) /\ r[s].keySuffix = Rest(snd.key)
      BY <3>2, <3>3
    <3>5. CASE s = Slice(key) /\ ~EndsHere(key) /\ r[s].keySuffix = Rest(key)
      <4>1. PICK k \in Strings : k = total
        BY <1>1
      <4> QED
        BY <1>1, <2>2, <2>3, <3>5, <4>1
    <3>6. CASE s = Slice(snd.key) /\ ~EndsHere(snd.key) /\ r[s].keySuffix = Rest(snd.key)
      BY <1>4, <2>2, <2>3, <3>6
    <3> QED
      BY <3>4, <3>5, <3>6
  <2> QED
    BY <2>1, <2>3
<1>7. ASSUME NEW n \in DOMAIN layers \ {1}
      PROVE  layers'[n] # NoRecords
  <2>1. CASE n = currNode
    BY <1>3, <2>1, NoneIsARelation DEF OnlyPuts
  <2>2. CASE n # currNode
    BY <1>2, <1>3, <2>2 DEF NoneEmpty
  <2> QED
    BY <2>1, <2>2
<1> QED
  BY <1>3, <1>5, <1>6, <1>7 DEF Placed

\* Case 0.0.0 leaves one value for two keys, and both are mixed.
LEMMA PutBothHereKeeps ==
    ASSUME NEW lev, NEW reg, Good(lev, reg), PutBothHere
    PROVE  Good(lev, reg)'
<1>1. /\ op = "put" /\ snd # NULL /\ Completed
      /\ SetHere(SetValue(SetValue(NewBorderNode, key, value), key, snd.value))
      /\ numKeys' = numKeys + 1 /\ mixed' = mixed \cup {total, sndTotal}
  BY DEF PutBothHere
<1>2. /\ currNode \in DOMAIN layers /\ lev[currNode] \in Nat /\ total \in Keys
      /\ total \in Strings /\ total \in reg[currNode] /\ key = Cut(total, lev[currNode])
      /\ key \in Strings /\ Slice(key) \in Slices /\ value \in Values
  BY <1>1, InSearch
<1>3. layers[currNode] = NoRecords /\ Tree(layers, lev, reg) /\ numKeys \in Nat /\ mixed \subseteq Keys /\ DOMAIN map \subseteq Keys
  BY <1>1 DEF Good, Second, Scalars
<1>4. PICK m \in DOMAIN map :
         /\ IsSecond(lev, reg, m) /\ m # total /\ m \in Strings /\ m \in reg[currNode]
         /\ snd.key = Cut(m, lev[currNode]) /\ snd.key \in Strings /\ snd.value \in Values
  BY <1>1, SecondIs
<1>5. sndTotal = m
  <2>1. PICK i \in Nat : i = lev[currNode]
    BY <1>2
  <2>2. Same(total, m, i)
    BY <1>2, <1>3, <1>4, <2>1 DEF Tree, Regions
  <2>3. PICK k \in Strings : k = total
    BY <1>2
  <2>4. SubSeq(k, 1, Len(k) - Len(Cut(k, i))) \o Cut(m, i) = m
    BY <1>2, <1>4, <2>1, <2>2, <2>3, PutTogether
  <2> QED
    BY <1>2, <1>4, <2>1, <2>3, <2>4 DEF sndTotal
<1>6. PICK s, p, v, w : s = Slice(key) /\ p = key /\ v = value /\ w = snd.value
  OBVIOUS
<1>7. PICK b : b = SetValue(NewBorderNode, p, v)
  OBVIOUS
<1>8. PICK r1 : r1 = Record(NoRecords, s, b)
  OBVIOUS
<1>9. OnlyPuts(NoRecords, r1, p, v)
  <2>1. Old(NoRecords, s) = NewBorderNode /\ HasRoom(NewBorderNode, p)
    BY NoneIsARelation, NewIsBorderNode DEF Old, HasRoom
  <2>2. PICK rs : rs = NoRecords /\ rs \in Relations
    BY NoneIsARelation
  <2>3. p \in Strings /\ v \in Values
    BY <1>2, <1>6
  <2>4. OnlyPuts(rs, Record(rs, Slice(p), SetValue(Old(rs, Slice(p)), p, v)), p, v)
    BY <1>6, <2>1, <2>2, <2>3, PutsOne
  <2> QED
    BY <1>6, <1>7, <1>8, <2>1, <2>2, <2>4
<1>10. PICK r : r = Record(r1, s, SetValue(Old(r1, s), p, w))
  OBVIOUS
<1>11. DOMAIN r1 = {s} /\ r1[s] = b /\ r1 \in Relations
  BY <1>8, <1>9, NoneIsARelation DEF Record, OnlyPuts
<1>12. OnlyPuts(r1, r, p, w)
  <2>1. b = r1[s] /\ Old(r1, s) = b
    BY <1>11 DEF Old
  <2>2. HasRoom(b, p)
    BY <1>7 DEF HasRoom, SetValue, SetSuffixValue, NewBorderNode
  <2> QED
    BY <1>2, <1>4, <1>6, <1>10, <1>11, <2>1, <2>2, PutsOne
<1>13. layers' = [layers EXCEPT ![currNode] = r]
  <2>1. r = Record(NoRecords, s, SetValue(b, p, w))
    BY <1>10, <1>11, NoneIsARelation DEF Record, Old
  <2> QED
    BY <1>1, <1>3, <1>6, <1>7, <2>1 DEF SetHere
<1>14. r \in Relations /\ \A t : LinkAt(r, t) = LinkAt(layers[currNode], t)
  BY <1>3, <1>9, <1>12 DEF OnlyPuts
<1>15. Sets(lev, reg, r)
  BY <1>1, <1>13, <1>14, SetsOne
<1>16. Placed(lev, reg)
  BY <1>1, <1>6, <1>9, <1>11, <1>12, <1>14, <1>15, TwoPlaced
<1>17. mixed' \subseteq Keys /\ numKeys' \in Nat
  BY <1>1, <1>2, <1>3, <1>4, <1>5
<1>18. /\ layers' \in Seq(Relations) /\ Scalars' /\ Tree(layers', lev, reg)
       /\ Searching(lev, reg)' /\ Second(lev, reg)' /\ NoneEmpty' /\ Suffixes(lev, reg)'
       /\ GetReturnsLastPut'
  BY <1>1, <1>16, <1>17, CompletedRest
<1>19. /\ map' = [k \in DOMAIN map \cup {total} |-> IF k = total THEN value ELSE map[k]]
       /\ DOMAIN layers' = DOMAIN layers
  BY <1>1, <1>16 DEF Completed, Placed
<1>20. \A k : k \notin mixed' => k # total /\ ~IsSecond(lev, reg, k) /\ k \notin mixed /\ ~Doing(k)
  BY <1>1, <1>4, <1>5, OneSecond DEF Doing
<1>21. \A n \in DOMAIN layers : \A k \in reg[n] :
          k \notin mixed' => Look(layers'[n], Cut(k, lev[n])) = Look(layers[n], Cut(k, lev[n]))
  BY <1>16, <1>20 DEF Placed
<1>22. Right(lev, reg)'
  <2>1. ASSUME NEW n \in DOMAIN layers', NEW k \in reg[n],
               Look(layers'[n], Cut(k, lev[n])) # NULL, k \notin mixed'
        PROVE  k \in DOMAIN map' /\ Look(layers'[n], Cut(k, lev[n])) = map'[k]
    <3>1. k \in DOMAIN map /\ Look(layers[n], Cut(k, lev[n])) = map[k] /\ k # total
      BY <1>19, <1>20, <1>21, <2>1 DEF Good, Right
    <3> QED
      BY <1>19, <1>21, <2>1, <3>1
  <2> QED
    BY <2>1 DEF Right
<1>23. There(lev, reg)'
  <2>1. ASSUME NEW k \in DOMAIN map' \ mixed'
        PROVE  \E n \in DOMAIN layers' : k \in reg[n] /\ Look(layers'[n], Cut(k, lev[n])) # NULL
    <3>1. PICK n \in DOMAIN layers : k \in reg[n] /\ Look(layers[n], Cut(k, lev[n])) # NULL
      BY <1>19, <1>20, <2>1 DEF Good, There, HasValue
    <3> QED
      BY <1>19, <1>21, <2>1, <3>1
  <2> QED
    BY <2>1 DEF There, HasValue
<1>24. Counts(lev, reg)'
  <2>1. PICK i, k, h : i = lev[currNode] /\ k = total /\ h = m
    OBVIOUS
  <2>2. i \in Nat /\ i > 0
    <3>1. currNode # 1 /\ 1 \in DOMAIN layers /\ lev[1] = 0 /\ reg[1] = Strings
      BY <1>1, <1>3 DEF Good, Second, Tree, Rooted
    <3>2. lev[currNode] # lev[1]
      BY <1>2, <1>3, <3>1 DEF Tree, Apart
    <3> QED
      BY <1>2, <2>1, <3>1, <3>2
  <2>3. Same(k, h, i) /\ Same(h, k, i)
    BY <1>2, <1>3, <1>4, <2>1 DEF Tree, Regions
  <2>4. /\ k \in Strings /\ h \in Strings /\ k # h /\ Cut(k, i) \in Strings /\ Cut(h, i) \in Strings
        /\ Slice(Cut(k, i)) = Slice(Cut(h, i)) /\ (EndsHere(Cut(k, i)) \/ EndsHere(Cut(h, i)))
    BY <1>2, <1>4, <2>1 DEF PutBothHere
  <2>5. MeetAtEnd(k, h) \/ MeetAtEnd(h, k)
    BY <2>2, <2>3, <2>4, Meets
  <2>6. k \in DOMAIN map' /\ h \in DOMAIN map' /\ DOMAIN map' = DOMAIN map \cup {k}
    BY <1>4, <1>19, <2>1
  <2>7. ~NoneMeet'
    BY <2>5, <2>6 DEF NoneMeet
  <2>8. IsFiniteSet(DOMAIN map')
    BY <2>6, FS_AddElement DEF Good, Counts
  <2> QED
    BY <2>7, <2>8 DEF Counts
<1> QED
  BY <1>18, <1>22, <1>23, <1>24 DEF Good

\* Where the key is not led on, it has its value or has none.
LEMMA ValueHere ==
    ASSUME NEW lev, NEW reg, Good(lev, reg), op = "put",
           EndsHere(key) \/ LinkAt(layers[currNode], Slice(key)) = NULL
    PROVE  HasValue(lev, reg, total) <=> Look(layers[currNode], key) # NULL
<1>1. /\ currNode \in DOMAIN layers /\ total \in reg[currNode] /\ key = Cut(total, lev[currNode])
      /\ Tree(layers, lev, reg)
  BY InSearch DEF Good
<1>2. ASSUME NEW n \in DOMAIN layers, total \in reg[n], Look(layers[n], Cut(total, lev[n])) # NULL
      PROVE  n = currNode
  <2>1. PICK lay, c, k : lay = layers /\ c = currNode /\ k = total
    OBVIOUS
  <2>2. EndsHere(Cut(k, lev[c])) \/ LinkAt(lay[c], Slice(Cut(k, lev[c]))) = NULL
    BY <1>1, <2>1
  <2>3. /\ Tree(lay, lev, reg) /\ n \in DOMAIN lay /\ c \in DOMAIN lay /\ k \in reg[n] /\ k \in reg[c]
        /\ Look(lay[n], Cut(k, lev[n])) # NULL
    BY <1>1, <1>2, <2>1
  <2>4. n = c
    BY <2>2, <2>3, NotLedOn
  <2> QED
    BY <2>1, <2>4
<1> QED
  BY <1>1, <1>2 DEF HasValue

LEMMA PutApartKeeps ==
    ASSUME NEW lev, NEW reg, Good(lev, reg), PutApart
    PROVE  Good(lev, reg)'
<1>1. /\ op = "put" /\ snd # NULL /\ Completed /\ Slice(key) # Slice(snd.key)
      /\ layers' = [layers EXCEPT ![currNode] =
                       Record(Record(@, Slice(key), SetValue(NewBorderNode, key, value)),
                              Slice(snd.key), SetValue(NewBorderNode, snd.key, snd.value))]
      /\ numKeys' = numKeys + 1 /\ mixed' = mixed \ {total}
  BY DEF PutApart
<1>2. /\ currNode \in DOMAIN layers /\ key \in Strings /\ value \in Values
  BY <1>1, InSearch
<1>3. layers[currNode] = NoRecords /\ numKeys \in Nat
  BY <1>1 DEF Good, Second, Scalars
<1>4. snd.key \in Strings /\ snd.value \in Values /\ snd.key # key
  BY <1>1, SecondIs
<1>5. PICK rs, p, v, q, w : rs = NoRecords /\ p = key /\ v = value /\ q = snd.key /\ w = snd.value
  OBVIOUS
<1>6. rs \in Relations /\ p \in Strings /\ v \in Values /\ q \in Strings /\ w \in Values /\ Slice(p) # Slice(q)
  BY <1>1, <1>2, <1>4, <1>5, NoneIsARelation
<1>7. PICK r1 : r1 = Record(rs, Slice(p), SetValue(NewBorderNode, p, v))
  OBVIOUS
<1>8. OnlyPuts(rs, r1, p, v)
  <2>1. Old(rs, Slice(p)) = NewBorderNode /\ HasRoom(NewBorderNode, p)
    BY <1>5, NoneIsARelation, NewIsBorderNode DEF Old, HasRoom
  <2> QED
    BY <1>6, <1>7, <2>1, PutsOne
<1>9. r1 \in Relations /\ DOMAIN r1 = {Slice(p)}
  BY <1>5, <1>7, <1>8, NoneIsARelation DEF OnlyPuts, Record
<1>10. PICK r : r = Record(r1, Slice(q), SetValue(NewBorderNode, q, w))
  OBVIOUS
<1>11. OnlyPuts(r1, r, q, w)
  <2>1. Old(r1, Slice(q)) = NewBorderNode /\ HasRoom(NewBorderNode, q)
    BY <1>6, <1>9, NewIsBorderNode DEF Old, HasRoom
  <2> QED
    BY <1>6, <1>9, <1>10, <2>1, PutsOne
<1>12. layers' = [layers EXCEPT ![currNode] = r]
  BY <1>1, <1>3, <1>5, <1>7, <1>10
<1>13. r \in Relations /\ \A t : LinkAt(r, t) = LinkAt(layers[currNode], t)
  BY <1>3, <1>5, <1>8, <1>11 DEF OnlyPuts
<1>14. Sets(lev, reg, r)
  BY <1>1, <1>12, <1>13, SetsOne
<1>15. Placed(lev, reg)
  BY <1>1, <1>5, <1>8, <1>9, <1>11, <1>13, <1>14, TwoPlaced
<1>16. Look(layers'[currNode], key) = value /\ Look(layers'[currNode], snd.key) = snd.value
  <2>1. layers'[currNode] = r
    BY <1>14 DEF Sets
  <2>2. Look(r, q) = w /\ Look(r1, p) = v /\ Look(r, p) = Look(r1, p)
    BY <1>6, <1>8, <1>11 DEF OnlyPuts
  <2> QED
    BY <1>5, <2>1, <2>2
<1>17. numKeys' \in Nat
  BY <1>1, <1>3
<1>18. ~HasValue(lev, reg, total)
  <2>1. LinkAt(layers[currNode], Slice(key)) = NULL /\ Look(layers[currNode], key) = NULL
    BY <1>3, NoneIsARelation
  <2> QED
    BY <1>1, <2>1, ValueHere
<1>19. numKeys' = numKeys + (IF HasValue(lev, reg, total) THEN 0 ELSE 1)
  BY <1>1, <1>18
<1> QED
  BY <1>1, <1>15, <1>16, <1>17, <1>19, DoneRight

LEMMA PutHereKeeps ==
    ASSUME NEW lev, NEW reg, Good(lev, reg), op = "put", snd = NULL,
           HasRoom(Old(layers[currNode], Slice(key)), key),
           SetHere(SetValue(Old(layers[currNode], Slice(key)), key, value)),
           numKeys' \in Nat,
           \/ /\ Completed /\ mixed' = mixed \ {total}
              /\ numKeys' = numKeys + (IF HasValue(lev, reg, total) THEN 0 ELSE 1)
           \/ UNCHANGED <<call, history>> /\ numKeys' = numKeys + 1 /\ ~HasValue(lev, reg, total)
    PROVE  Good(lev, reg)'
<1>1. PICK r \in Relations : OnlyPuts(layers[currNode], r, key, value) /\ Sets(lev, reg, r)
  BY PutsHere
<1>2. Placed(lev, reg)
  BY <1>1, OnePlaced
<1>3. Look(layers'[currNode], key) = value
  BY <1>1 DEF OnlyPuts, Sets
<1>4. CASE /\ Completed /\ mixed' = mixed \ {total}
           /\ numKeys' = numKeys + (IF HasValue(lev, reg, total) THEN 0 ELSE 1)
  BY <1>2, <1>3, <1>4, DoneRight
<1>5. CASE UNCHANGED <<call, history>> /\ numKeys' = numKeys + 1 /\ ~HasValue(lev, reg, total)
  <2>1. /\ op' = op /\ key' = key /\ value' = value /\ currNode' = currNode /\ snd' = snd /\ ret' = ret
        /\ total' = total /\ map' = map /\ mixed' = mixed
    BY <1>5 DEF call, history
  <2>2. layers' \in Seq(Relations) /\ DOMAIN layers' = DOMAIN layers /\ Tree(layers', lev, reg)
    BY <1>2 DEF Placed
  <2>3. Scalars' /\ Searching(lev, reg)' /\ Second(lev, reg)' /\ GetReturnsLastPut'
    BY <2>1, <2>2 DEF Good, Scalars, Searching, Second, GetReturnsLastPut, Contents
  <2>4. NoneEmpty'
    BY <1>2, <2>2 DEF NoneEmpty, Placed
  <2>5. \A n \in DOMAIN layers : \A k \in reg[n] :
           k # total => Look(layers'[n], Cut(k, lev[n])) = Look(layers[n], Cut(k, lev[n]))
    BY <1>2 DEF Placed
  <2>6. \A k : (Doing(k)' <=> Doing(k)) /\ (Doing(k) <=> k = total)
    BY <2>1 DEF Doing
  <2>7. Right(lev, reg)'
    <3>1. ASSUME NEW n \in DOMAIN layers', NEW k \in reg[n],
                 Look(layers'[n], Cut(k, lev[n])) # NULL, k \notin mixed', k # total
          PROVE  k \in DOMAIN map' /\ Look(layers'[n], Cut(k, lev[n])) = map'[k]
      BY <2>1, <2>2, <2>5, <2>6, <3>1 DEF Good, Right
    <3> QED
      BY <2>6, <3>1 DEF Right
  <2>10. /\ currNode \in DOMAIN layers /\ total \in reg[currNode]
         /\ Look(layers'[currNode], Cut(total, lev[currNode])) # NULL
    BY <1>3, InSearch, NullIsNoOther
  <2>8. There(lev, reg)'
    <3>1. ASSUME NEW k \in DOMAIN map' \ mixed', k # total
          PROVE  \E n \in DOMAIN layers' : k \in reg[n] /\ Look(layers'[n], Cut(k, lev[n])) # NULL
      <4>1. PICK n \in DOMAIN layers : k \in reg[n] /\ Look(layers[n], Cut(k, lev[n])) # NULL
        BY <2>1, <2>6, <3>1 DEF Good, There, HasValue
      <4> QED
        BY <2>2, <2>5, <3>1, <4>1
    <3>2. total \in DOMAIN map' \ mixed' =>
             \E n \in DOMAIN layers' : total \in reg[n] /\ Look(layers'[n], Cut(total, lev[n])) # NULL
      BY <2>2, <2>10
    <3> QED
      BY <3>1, <3>2 DEF There, HasValue
  <2>9. Suffixes(lev, reg)'
    <3>1. ASSUME NEW n \in DOMAIN layers', NEW s \in DOMAIN layers'[n], HasSuffix(layers'[n][s])
          PROVE  \E k \in Strings : SuffixOf(lev, reg, n, s, k)' /\ (k \in DOMAIN map' \/ Doing(k)')
      <4>1. PICK k \in Strings : SuffixOf(lev, reg, n, s, k)' /\ (k \in DOMAIN map \/ k = total)
        BY <1>2, <2>2, <3>1 DEF Placed
      <4> QED
        BY <2>1, <2>6, <4>1
    <3> QED
      BY <3>1 DEF Suffixes
  <2>11. Counts(lev, reg)'
    <3>1. ASSUME NoneMeet'
          PROVE  mixed' = {} /\ numKeys' = Cardinality(DOMAIN map') + (IF Early(lev, reg)' THEN 1 ELSE 0)
      <4>1. NoneMeet
        BY <2>1, <3>1 DEF NoneMeet
      <4>2. mixed = {} /\ numKeys = Cardinality(DOMAIN map) + (IF Early(lev, reg) THEN 1 ELSE 0)
        BY <4>1 DEF Good, Counts
      <4>3. total \notin DOMAIN map
        BY <1>5, <4>2 DEF Good, There
      <4>4. ~Early(lev, reg)
        BY <1>5 DEF Early
      <4>5. HasValue(lev, reg, total)'
        BY <2>1, <2>2, <2>10 DEF HasValue
      <4>6. Early(lev, reg)'
        BY <2>1, <4>3, <4>5 DEF Early
      <4>7. IsFiniteSet(DOMAIN map)
        BY DEF Good, Counts
      <4> QED
        BY <1>5, <2>1, <4>2, <4>4, <4>6, <4>7, FS_CardinalityType
    <3> QED
      BY <2>1, <3>1 DEF Good, Counts
  <2> QED
    BY <2>2, <2>3, <2>4, <2>7, <2>8, <2>9, <2>11 DEF Good
<1> QED
  BY <1>4, <1>5

LEMMA PutOneKeeps ==
    ASSUME NEW lev, NEW reg, Good(lev, reg), PutNewSlice \/ PutPrefix \/ PutSameSuffix \/ PutNewSuffix
    PROVE  Good(lev, reg)'
<1>1. op = "put" /\ snd = NULL /\ numKeys \in Nat /\ key \in Strings
  BY InSearch DEF PutNewSlice, PutPrefix, PutSameSuffix, PutNewSuffix, Good, Scalars
<1>2. CASE PutNewSlice
  <2>1. Old(layers[currNode], Slice(key)) = NewBorderNode /\ HasRoom(NewBorderNode, key)
    BY <1>2, NewIsBorderNode DEF PutNewSlice, Present, Old, HasRoom
  <2>2. LinkAt(layers[currNode], Slice(key)) = NULL /\ Look(layers[currNode], key) = NULL
    BY <1>2 DEF PutNewSlice, Present, LinkAt, Look
  <2>3. ~HasValue(lev, reg, total)
    BY <1>1, <2>2, ValueHere
  <2> QED
    BY <1>1, <1>2, <2>1, <2>3, PutHereKeeps DEF PutNewSlice
<1>3. CASE PutPrefix
  <2>1. Old(layers[currNode], Slice(key)) = borderNode /\ HasRoom(borderNode, key)
    BY <1>3 DEF PutPrefix, Present, Old, HasRoom, borderNode
  <2>2. SetPrefixValue(borderNode, Len(key), value) = SetValue(borderNode, key, value)
    BY <1>3 DEF PutPrefix, SetValue
  <2>3. SetHere(SetValue(borderNode, key, value))
    BY <1>3, <2>2 DEF PutPrefix
  <2>4. EndsHere(key) /\ Look(layers[currNode], key) = borderNode.prefixLinks[Len(key)]
    BY <1>3 DEF PutPrefix, Present, borderNode, Look, ValueIn
  <2>5. HasValue(lev, reg, total) <=> borderNode.prefixLinks[Len(key)] # NULL
    BY <1>1, <2>4, ValueHere
  <2>6. numKeys' = numKeys + (IF HasValue(lev, reg, total) THEN 0 ELSE 1) /\ numKeys' \in Nat
    BY <1>1, <1>3, <2>5 DEF PutPrefix
  <2>7. Completed /\ mixed' = mixed \ {total}
    BY <1>3 DEF PutPrefix
  <2> QED
    BY <1>1, <2>1, <2>3, <2>6, <2>7, PutHereKeeps
<1>4. CASE PutSameSuffix
  <2>1. Old(layers[currNode], Slice(key)) = borderNode /\ HasRoom(borderNode, key)
    BY <1>4 DEF PutSameSuffix, Present, Old, HasRoom, borderNode
  <2>2. SetSuffixValue(borderNode, Rest(key), value) = SetValue(borderNode, key, value)
    BY <1>4 DEF PutSameSuffix, SetValue
  <2>3. SetHere(SetValue(borderNode, key, value))
    BY <1>4, <2>2 DEF PutSameSuffix
  <2>4. LinkAt(layers[currNode], Slice(key)) = NULL /\ Look(layers[currNode], key) # NULL
    <3>1. /\ layers[currNode] \in Relations /\ Slice(key) \in DOMAIN layers[currNode]
          /\ borderNode = layers[currNode][Slice(key)] /\ ~EndsHere(key) /\ borderNode.keySuffix = Rest(key)
      BY <1>1, <1>4, InSearch DEF PutSameSuffix, Present, borderNode
    <3>2. PICK bn \in BorderNodes : bn = layers[currNode][Slice(key)]
      BY <3>1, RelationIs
    <3>3. HasSuffix(bn) /\ bn.keySuffix = Rest(key)
      BY <1>1, <3>1, <3>2, RestIs, NullIsNoOther DEF HasSuffix
    <3>4. bn.suffixLink # NULL
      BY <3>3, NullIsNoOther DEF BorderNodes
    <3> QED
      BY <3>1, <3>2, <3>3, <3>4 DEF LinkAt, GetLink, Look, ValueIn
  <2>5. HasValue(lev, reg, total)
    BY <1>1, <2>4, ValueHere
  <2>6. numKeys' = numKeys + (IF HasValue(lev, reg, total) THEN 0 ELSE 1) /\ numKeys' \in Nat
    BY <1>1, <1>4, <2>5 DEF PutSameSuffix
  <2>7. Completed /\ mixed' = mixed \ {total}
    BY <1>4 DEF PutSameSuffix
  <2> QED
    BY <1>1, <2>1, <2>3, <2>6, <2>7, PutHereKeeps
<1>5. CASE PutNewSuffix
  <2>1. Old(layers[currNode], Slice(key)) = borderNode /\ HasRoom(borderNode, key)
    BY <1>5 DEF PutNewSuffix, Present, Old, HasRoom, borderNode
  <2>2. SetSuffixValue(borderNode, Rest(key), value) = SetValue(borderNode, key, value)
    BY <1>5 DEF PutNewSuffix, SetValue
  <2>3. SetHere(SetValue(borderNode, key, value))
    BY <1>5, <2>2 DEF PutNewSuffix
  <2>4. LinkAt(layers[currNode], Slice(key)) = NULL /\ Look(layers[currNode], key) = NULL
    <3>1. ~EndsHere(key) => Rest(key) # NULL
      BY <1>1, RestIs, NullIsNoOther
    <3> QED
      BY <1>5, <3>1 DEF PutNewSuffix, Present, borderNode, HasSuffix, LinkAt, Look, ValueIn
  <2>5. ~HasValue(lev, reg, total)
    BY <1>1, <2>4, ValueHere
  <2>6. numKeys' = numKeys + (IF HasValue(lev, reg, total) THEN 0 ELSE 1) /\ numKeys' \in Nat
    BY <1>1, <1>5, <2>5 DEF PutNewSuffix
  <2>7. Completed /\ mixed' = mixed \ {total}
    BY <1>5 DEF PutNewSuffix
  <2> QED
    BY <1>1, <2>1, <2>3, <2>6, <2>7, PutHereKeeps
<1> QED
  BY <1>2, <1>3, <1>4, <1>5

-----------------------------------------------------------------------------
(* Two keys go on to a new layer. *)

\* A layer m has been added that hangs from the slice of the key, where bn is now.
Deeper(lev, reg, lev2, reg2, m, bn) ==
    /\ layers' \in Seq(Relations) /\ DOMAIN layers' = DOMAIN layers \cup {m} /\ m \notin DOMAIN layers
    /\ layers'[m] = NoRecords
    /\ layers'[currNode] = Record(layers[currNode], Slice(key), bn)
    /\ \A n \in DOMAIN layers : n # currNode => layers'[n] = layers[n]
    /\ Tree(layers', lev2, reg2) /\ SameRegions(layers, lev, reg, lev2, reg2)
    /\ LeadsTo(layers', lev2, reg2, currNode, Slice(key), m)

\* r is records with bn at s.
Recorded(records, s, bn, r) ==
    /\ r \in Relations /\ DOMAIN r = DOMAIN records \cup {s} /\ r[s] = bn
    /\ \A t \in DOMAIN records : t # s => r[t] = records[t]

LEMMA RecordsOne ==
    \A records \in Relations, s \in Slices, bn \in BorderNodes : Recorded(records, s, bn, Record(records, s, bn))
<1> TAKE records \in Relations, s \in Slices, bn \in BorderNodes
<1> QED
  BY RecordIs DEF Recorded

\* lay2 is lay with bn in layer c and an empty layer m.
WithLayer(lay, lay2, c, s, bn, m) ==
    /\ lay2 \in Seq(Relations) /\ DOMAIN lay2 = DOMAIN lay \cup {m} /\ m \in Nat
    /\ lay2[m] = NoRecords /\ lay2[c] = Record(lay[c], s, bn)
    /\ \A n \in DOMAIN lay : n < m /\ (n # c => lay2[n] = lay[n])
    /\ DOMAIN lay2[c] = DOMAIN lay[c] \cup {s} /\ lay2[c][s] = bn
    /\ \A t \in DOMAIN lay[c] : t # s => lay2[c][t] = lay[c][t]

LEMMA AddsLayer ==
    ASSUME NEW lay \in Seq(Relations), NEW c \in DOMAIN lay, NEW s \in Slices, NEW bn \in BorderNodes,
           NEW m, m = Len(lay) + 1, NEW r, r = Record(lay[c], s, bn),
           NEW mid, mid = [lay EXCEPT ![c] = r], NEW lay2, lay2 = Append(mid, NoRecords)
    PROVE  WithLayer(lay, lay2, c, s, bn, m)
<1>1. PICK rs : rs = lay[c]
  OBVIOUS
<1>2. rs \in Relations
  BY <1>1, ElementOfSeq, LenProperties
<1>3. r = Record(rs, s, bn)
  BY <1>1
<1>4. r \in Relations /\ DOMAIN r = DOMAIN rs \cup {s} /\ r[s] = bn /\ \A t \in DOMAIN rs : t # s => r[t] = rs[t]
  <2>1. Recorded(rs, s, bn, r)
    BY <1>2, <1>3, RecordsOne
  <2> QED
    BY <2>1 DEF Recorded
<1>5. /\ mid \in Seq(Relations) /\ DOMAIN mid = DOMAIN lay /\ mid[c] = r
      /\ \A n \in DOMAIN lay : n # c => mid[n] = lay[n]
  BY <1>4, SetRecords
<1>6. Len(mid) = Len(lay)
  BY <1>5, LenProperties
<1>7. m = Len(mid) + 1
  BY <1>6
<1>8. /\ lay2 \in Seq(Relations) /\ DOMAIN lay2 = DOMAIN mid \cup {m} /\ lay2[m] = NoRecords
      /\ \A n \in DOMAIN mid : n < m /\ lay2[n] = mid[n]
      /\ m \in Nat
  <2>1. Appended(mid, lay2, m)
    BY <1>5, <1>7, AppendsOne
  <2> QED
    BY <2>1 DEF Appended
<1> QED
  BY <1>1, <1>3, <1>4, <1>5, <1>8 DEF WithLayer

LEMMA GoesDeeper ==
    ASSUME NEW lev, NEW reg, Good(lev, reg), op = "put", ~EndsHere(key),
           LinkAt(layers[currNode], Slice(key)) = NULL,
           NEW m, m = Len(layers) + 1, NEW bn \in BorderNodes, GetLink(bn) = m,
           layers' = Append([layers EXCEPT ![currNode] = Record(@, Slice(key), bn)], NoRecords)
    PROVE  \E lev2, reg2 : Deeper(lev, reg, lev2, reg2, m, bn)
<1>1. /\ currNode \in DOMAIN layers /\ layers[currNode] \in Relations /\ layers \in Seq(Relations)
      /\ Tree(layers, lev, reg)
      /\ total \in reg[currNode] /\ key = Cut(total, lev[currNode]) /\ Slice(key) \in Slices
  BY InSearch DEF Good
<1>2. PICK lay, c, s : lay = layers /\ c = currNode /\ s = Slice(key)
  OBVIOUS
<1>3. PICK r : r = Record(lay[c], s, bn)
  OBVIOUS
<1>5. PICK mid : mid = [lay EXCEPT ![c] = r]
  OBVIOUS
<1>8. PICK lay2 : lay2 = layers'
  OBVIOUS
<1>9. lay2 = Append(mid, NoRecords)
  BY <1>2, <1>3, <1>5, <1>8
<1>4. WithLayer(lay, lay2, c, s, bn, m)
  <2>1. lay \in Seq(Relations) /\ c \in DOMAIN lay /\ s \in Slices /\ m = Len(lay) + 1
    BY <1>1, <1>2
  <2> QED
    BY <1>3, <1>5, <1>9, <2>1, AddsLayer
<1>10. /\ lay2 \in Seq(Relations) /\ DOMAIN lay2 = DOMAIN lay \cup {m} /\ lay2[m] = NoRecords
       /\ \A n \in DOMAIN lay : n < m /\ (n # c => lay2[n] = lay[n])
       /\ m \in Nat /\ lay2[c] = r
       /\ DOMAIN r = DOMAIN lay[c] \cup {s} /\ r[s] = bn /\ \A t \in DOMAIN lay[c] : t # s => r[t] = lay[c][t]
  BY <1>3, <1>4 DEF WithLayer
<1>11. DOMAIN lay \subseteq Nat /\ m \notin DOMAIN lay
  BY <1>1, <1>2, <1>10 DEF Tree, Rooted
<1>12. NewLayer(lay, lay2, c, s, m)
  <2>1. LinkAt(lay[c], s) = NULL /\ c \in DOMAIN lay /\ s \in Slices
    BY <1>1, <1>2
  <2>2. LinkAt(lay2[c], s) = m
    BY <1>10, <2>1 DEF LinkAt
  <2>3. \A t : LinkAt(lay2[m], t) = NULL
    <3>1. \A t : LinkAt(NoRecords, t) = NULL
      BY NoneIsARelation
    <3> QED
      BY <1>10, <3>1
  <2>4. ASSUME NEW n \in DOMAIN lay, NEW t \in Slices, n # c \/ t # s
        PROVE  LinkAt(lay2[n], t) = LinkAt(lay[n], t)
    BY <1>10, <2>4 DEF LinkAt
  <2> QED
    BY <1>10, <2>1, <2>2, <2>3, <2>4 DEF NewLayer
<1>13. Below(reg[c], lev[c], s) # {}
  BY <1>1, <1>2 DEF Below
<1>14. Tree(lay, lev, reg)
  BY <1>1, <1>2
<1>15. PICK lev2, reg2 : /\ Tree(lay2, lev2, reg2) /\ SameRegions(lay, lev, reg, lev2, reg2)
                         /\ LeadsTo(lay2, lev2, reg2, c, s, m)
  BY <1>12, <1>13, <1>14, Grow
<1>16. Deeper(lev, reg, lev2, reg2, m, bn)
  <2>1. c \in DOMAIN lay
    BY <1>1, <1>2
  <2> QED
    BY <1>2, <1>3, <1>8, <1>10, <1>11, <1>15, <2>1 DEF Deeper
<1> QED
  BY <1>16

\* k is the second key, and nothing but its value is gone from the old layers.
BothLed(lev, reg, m, k) ==
    /\ k \in DOMAIN map /\ k \in reg[currNode] /\ k # total
    /\ Slice(Cut(k, lev[currNode])) = Slice(key) /\ ~EndsHere(Cut(k, lev[currNode]))
    /\ snd' = [key |-> Rest(Cut(k, lev[currNode])), value |-> snd'.value]
    /\ snd'.value \in Values /\ (k \notin mixed => map[k] = snd'.value)
    /\ (snd # NULL => \A h : IsSecond(lev, reg, h) => h = k)
    /\ \A n \in DOMAIN layers : \A h \in reg[n] :
          \/ Look(layers'[n], Cut(h, lev[n])) = Look(layers[n], Cut(h, lev[n]))
          \/ h = k /\ Look(layers'[n], Cut(h, lev[n])) = NULL

LEMMA DeeperKeeps ==
    ASSUME NEW lev, NEW reg, Good(lev, reg), op = "put", ~EndsHere(key),
           NEW lev2, NEW reg2, NEW m, NEW bn \in BorderNodes, ~HasSuffix(bn),
           Deeper(lev, reg, lev2, reg2, m, bn),
           NEW k, BothLed(lev, reg, m, k),
           currNode' = m, key' = Rest(key), UNCHANGED <<numKeys, op, value, ret, total, history>>
    PROVE  Good(lev2, reg2)'
<1>1. /\ currNode \in DOMAIN layers /\ layers[currNode] \in Relations /\ lev[currNode] \in Nat
      /\ total \in Keys /\ total \in Strings /\ total \in reg[currNode]
      /\ key = Cut(total, lev[currNode]) /\ key \in Strings /\ Slice(key) \in Slices /\ value \in Values
  BY InSearch
<1>2. /\ numKeys' = numKeys /\ op' = "put" /\ value' = value /\ ret' = ret /\ total' = total
      /\ map' = map /\ mixed' = mixed
  BY DEF history
<1>3. /\ layers' \in Seq(Relations) /\ DOMAIN layers' = DOMAIN layers \cup {m} /\ m \notin DOMAIN layers
      /\ layers'[m] = NoRecords
      /\ layers'[currNode] = Record(layers[currNode], Slice(key), bn)
      /\ \A n \in DOMAIN layers : n # currNode => layers'[n] = layers[n]
      /\ Tree(layers', lev2, reg2)
      /\ \A n \in DOMAIN layers : lev2[n] = lev[n] /\ reg2[n] = reg[n]
      /\ LeadsTo(layers', lev2, reg2, currNode, Slice(key), m)
  BY DEF Deeper, SameRegions
<1>4. ASSUME NEW h, NEW p, h \in reg[currNode], p = Cut(h, lev[currNode]), Slice(p) = Slice(key), ~EndsHere(p)
      PROVE  h \in reg2[m] /\ Rest(p) = Cut(h, lev2[m])
  <2>1. PICK lay, c : lay = layers' /\ c = currNode
    OBVIOUS
  <2>2. c \in DOMAIN lay /\ h \in reg2[c] /\ p = Cut(h, lev2[c])
    BY <1>1, <1>3, <1>4, <2>1
  <2>3. Tree(lay, lev2, reg2) /\ LeadsTo(lay, lev2, reg2, c, Slice(p), m)
    BY <1>3, <1>4, <2>1
  <2> QED
    BY <1>4, <2>2, <2>3, Follow
<1>5. total \in reg2[m] /\ Rest(key) = Cut(total, lev2[m])
  BY <1>1, <1>4
<1>6. k \in reg2[m] /\ snd'.key = Cut(k, lev2[m]) /\ snd' # NULL
  <2>1. k \in reg2[m] /\ Rest(Cut(k, lev[currNode])) = Cut(k, lev2[m])
    BY <1>4 DEF BothLed
  <2>2. snd'.key = Rest(Cut(k, lev[currNode]))
    BY DEF BothLed
  <2>3. snd' # NULL
    <3>1. snd'.value \in Values /\ snd'.key \in Strings
      <4>1. Cut(k, lev[currNode]) \in Strings
        BY <1>1, SliceOfCut DEF BothLed, Good
      <4> QED
        BY <2>2, <4>1, RestIs DEF BothLed
    <3> QED
      BY <3>1, NullIsNoOther DEF BothLed
  <2> QED
    BY <2>1, <2>2, <2>3
<1>7. Scalars'
  <2>1. Rest(key) \in Strings
    BY <1>1, RestIs
  <2>2. Cut(k, lev[currNode]) \in Strings
    BY <1>1, SliceOfCut DEF BothLed, Good
  <2>3. Rest(Cut(k, lev[currNode])) \in Strings
    BY <2>2, RestIs DEF BothLed
  <2>4. snd' = [key |-> snd'.key, value |-> snd'.value] /\ snd'.key \in Strings /\ snd'.value \in Values
    BY <2>3 DEF BothLed
  <2> QED
    BY <1>2, <1>3, <2>1, <2>4 DEF Good, Scalars
<1>8. Searching(lev2, reg2)'
  BY <1>1, <1>2, <1>5 DEF Searching
<1>9. Second(lev2, reg2)'
  <2>1. 1 \in DOMAIN layers
    BY DEF Good, Tree, Rooted
  <2> QED
    BY <1>2, <1>3, <1>6, <2>1 DEF Second, IsSecond, BothLed
<1>10. GetReturnsLastPut'
  BY <1>2 DEF GetReturnsLastPut
<1>11. /\ Slice(key) \in DOMAIN layers'[currNode] /\ layers'[currNode][Slice(key)] = bn
       /\ \A t \in DOMAIN layers'[currNode] :
             t # Slice(key) => t \in DOMAIN layers[currNode] /\ layers'[currNode][t] = layers[currNode][t]
  <2>1. PICK rs \in Relations, s \in Slices, r \in {layers'[currNode]} :
           rs = layers[currNode] /\ s = Slice(key) /\ r = layers'[currNode]
    BY <1>1
  <2>2. r = Record(rs, s, bn)
    BY <1>3, <2>1
  <2>3. DOMAIN r = DOMAIN rs \cup {s} /\ r[s] = bn /\ \A t \in DOMAIN rs : t # s => r[t] = rs[t]
    BY <2>2, RecordIs
  <2> QED
    BY <2>1, <2>3
<1>12. NoneEmpty'
  <2>1. ASSUME NEW n \in DOMAIN layers, n # 1
        PROVE  layers'[n] # NoRecords
    <3>1. CASE n = currNode
      BY <1>11, <3>1, NoneIsARelation
    <3>2. CASE n # currNode
      BY <1>3, <2>1, <3>2 DEF Good, NoneEmpty
    <3> QED
      BY <3>1, <3>2
  <2> QED
    BY <1>3, <1>6, <2>1 DEF NoneEmpty
<1>13. \A n \in DOMAIN layers : \A h \in reg[n] :
          \/ Look(layers'[n], Cut(h, lev[n])) = Look(layers[n], Cut(h, lev[n]))
          \/ h = k /\ Look(layers'[n], Cut(h, lev[n])) = NULL
  BY DEF BothLed
<1>14. \A h : Doing(h)' <=> Doing(h)
  BY <1>2 DEF Doing
<1>15. Right(lev2, reg2)'
  <2>1. ASSUME NEW n \in DOMAIN layers', NEW h \in reg2[n],
               Look(layers'[n], Cut(h, lev2[n])) # NULL, h \notin mixed, ~Doing(h)
        PROVE  h \in DOMAIN map /\ Look(layers'[n], Cut(h, lev2[n])) = map[h]
    <3>1. n # m
      BY <1>3, <2>1, NoneIsARelation
    <3>2. n \in DOMAIN layers /\ h \in reg[n] /\ lev2[n] = lev[n]
      BY <1>3, <2>1, <3>1
    <3>3. Look(layers'[n], Cut(h, lev[n])) = Look(layers[n], Cut(h, lev[n]))
      BY <1>13, <2>1, <3>2
    <3> QED
      BY <2>1, <3>2, <3>3 DEF Good, Right
  <2> QED
    BY <1>2, <1>14, <2>1 DEF Right
<1>16. There(lev2, reg2)'
  <2>1. ASSUME NEW h \in DOMAIN map \ mixed, h # k
        PROVE  \E n \in DOMAIN layers' : h \in reg2[n] /\ Look(layers'[n], Cut(h, lev2[n])) # NULL
    <3>1. PICK n \in DOMAIN layers : h \in reg[n] /\ Look(layers[n], Cut(h, lev[n])) # NULL
      BY <2>1 DEF Good, There, HasValue, BothLed
    <3> QED
      BY <1>3, <1>13, <2>1, <3>1
  <2>2. IsSecond(lev2, reg2, k)'
    BY <1>6 DEF IsSecond
  <2>3. \A h \in DOMAIN map' \ mixed' :
           HasValue(lev2, reg2, h)' \/ (snd' # NULL /\ IsSecond(lev2, reg2, h)')
    BY <1>2, <1>6, <2>1, <2>2 DEF HasValue
  <2> QED
    BY <2>3 DEF There
<1>17. Suffixes(lev2, reg2)'
  <2>1. ASSUME NEW n \in DOMAIN layers', NEW s \in DOMAIN layers'[n], HasSuffix(layers'[n][s])
        PROVE  \E h \in Strings : SuffixOf(lev2, reg2, n, s, h)' /\ (h \in DOMAIN map' \/ Doing(h)')
    <3>1. n # m
      BY <1>3, <2>1, NoneIsARelation
    <3>2. n \in DOMAIN layers /\ s \in DOMAIN layers[n] /\ layers'[n][s] = layers[n][s]
      BY <1>3, <1>11, <2>1, <3>1
    <3>3. PICK h \in Strings : SuffixOf(lev, reg, n, s, h) /\ (h \in DOMAIN map \/ Doing(h))
      BY <2>1, <3>2 DEF Good, Suffixes
    <3>4. SuffixOf(lev2, reg2, n, s, h)'
      BY <1>3, <3>2, <3>3 DEF SuffixOf
    <3> QED
      BY <1>2, <1>14, <3>3, <3>4
  <2> QED
    BY <2>1 DEF Suffixes
<1>18. HasValue(lev2, reg2, total)' <=> HasValue(lev, reg, total)
  <2>1. ASSUME NEW n \in DOMAIN layers, total \in reg[n]
        PROVE  Look(layers'[n], Cut(total, lev[n])) = Look(layers[n], Cut(total, lev[n]))
    BY <1>13, <2>1 DEF BothLed
  <2>2. Look(layers'[m], Cut(total, lev2[m])) = NULL
    BY <1>3, NoneIsARelation
  <2> QED
    BY <1>2, <1>3, <2>1, <2>2 DEF HasValue
<1>19. Counts(lev2, reg2)'
  <2>1. Early(lev2, reg2)' <=> Early(lev, reg)
    BY <1>2, <1>18 DEF Early
  <2>2. NoneMeet' <=> NoneMeet
    BY <1>2 DEF NoneMeet
  <2> QED
    BY <1>2, <2>1, <2>2 DEF Good, Counts
<1> QED
  BY <1>3, <1>7, <1>8, <1>9, <1>10, <1>12, <1>15, <1>16, <1>17, <1>19 DEF Good

\* A border node with a link has the values of before but for the suffix.
LEMMA SetLinkIs ==
    ASSUME NEW bn \in BorderNodes, NEW m \in Nat
    PROVE  /\ SetLink(bn, m) \in BorderNodes /\ ~HasSuffix(SetLink(bn, m)) /\ GetLink(SetLink(bn, m)) = m
           /\ \A q \in Strings : ValueIn(SetLink(bn, m), q) = IF EndsHere(q) THEN ValueIn(bn, q) ELSE NULL
<1>1. PICK b : b = SetLink(bn, m)
  OBVIOUS
<1>2. /\ b.keySuffix = NULL /\ b.suffixLink = m /\ b.prefixLinks = bn.prefixLinks
      /\ b = [prefixLinks |-> b.prefixLinks, suffixLink |-> b.suffixLink, keySuffix |-> b.keySuffix]
      /\ bn.prefixLinks \in [1 .. KEY_SLICE_LENGTH -> Values \cup {NULL}]
  BY <1>1 DEF SetLink, BorderNodes
<1>3. b \in BorderNodes /\ ~HasSuffix(b) /\ GetLink(b) = m
  BY <1>2 DEF BorderNodes, HasSuffix, GetLink
<1>4. ASSUME NEW q \in Strings
      PROVE  ValueIn(b, q) = IF EndsHere(q) THEN ValueIn(bn, q) ELSE NULL
  <2>1. ~EndsHere(q) => Rest(q) # NULL
    BY RestIs, NullIsNoOther
  <2> QED
    BY <1>2, <2>1 DEF ValueIn
<1> QED
  BY <1>1, <1>3, <1>4

\* What changes where bn gets a link.
LEMMA LookDeeper ==
    ASSUME NEW lev, NEW reg, Good(lev, reg), op = "put", NEW lev2, NEW reg2, NEW m \in Nat, NEW b \in BorderNodes,
           Deeper(lev, reg, lev2, reg2, m, SetLink(b, m)),
           NEW n \in DOMAIN layers, NEW h \in reg[n], NEW q, q = Cut(h, lev[n])
    PROVE  \/ Look(layers'[n], q) = Look(layers[n], q)
           \/ /\ n = currNode /\ Slice(q) = Slice(key)
              /\ Look(layers'[n], q) = IF EndsHere(q) THEN ValueIn(b, q) ELSE NULL
<1>1. /\ currNode \in DOMAIN layers /\ layers[currNode] \in Relations /\ Slice(key) \in Slices
      /\ Tree(layers, lev, reg)
  BY InSearch DEF Good
<1>2. q \in Strings
  BY <1>1, SliceOfCut
<1>3. PICK rs \in Relations, s \in Slices, r \in {layers'[currNode]}, bn \in {SetLink(b, m)} :
         rs = layers[currNode] /\ s = Slice(key)
  BY <1>1
<1>4. r = Record(rs, s, bn) /\ (n # currNode => layers'[n] = layers[n])
  BY <1>3 DEF Deeper
<1>5. bn \in BorderNodes /\ ValueIn(bn, q) = IF EndsHere(q) THEN ValueIn(b, q) ELSE NULL
  BY <1>2, <1>3, SetLinkIs
<1>6. Recorded(rs, s, bn, r)
  BY <1>4, <1>5, RecordsOne
<1>7. CASE n # currNode
  BY <1>4, <1>7
<1>8. CASE n = currNode /\ Slice(q) = s
  BY <1>3, <1>5, <1>6, <1>8 DEF Recorded, Look
<1>9. CASE n = currNode /\ Slice(q) # s
  BY <1>3, <1>6, <1>9 DEF Recorded, Look
<1> QED
  BY <1>3, <1>7, <1>8, <1>9

LEMMA PushBothDownKeeps ==
    ASSUME NEW lev, NEW reg, Good(lev, reg), PushBothDown
    PROVE  \E lev2, reg2 : Good(lev2, reg2)'
<1>1. /\ op = "put" /\ snd # NULL /\ Slice(key) = Slice(snd.key) /\ ~EndsHere(key) /\ ~EndsHere(snd.key)
      /\ key' = Rest(key) /\ snd' = [snd EXCEPT !.key = Rest(@)]
      /\ UNCHANGED <<numKeys, op, value, ret, total, history>>
  BY DEF PushBothDown
<1>2. layers[currNode] = NoRecords /\ currNode \in DOMAIN layers /\ layers \in Seq(Relations)
  BY <1>1 DEF Good, Second, Scalars
<1>3. PICK m \in Nat : m = Len(layers) + 1
  BY <1>2, LenProperties
<1>4. PICK bn : bn = SetLink(NewBorderNode, m)
  OBVIOUS
<1>5. bn \in BorderNodes /\ ~HasSuffix(bn) /\ GetLink(bn) = m
  BY <1>4, SetLinkIs, NewIsBorderNode
<1>6. /\ layers' = Append([layers EXCEPT ![currNode] = Record(@, Slice(key), bn)], NoRecords)
      /\ currNode' = m
  BY <1>3, <1>4 DEF PushBothDown, SetNewLink
<1>7. LinkAt(layers[currNode], Slice(key)) = NULL
  BY <1>2, NoneIsARelation
<1>8. PICK lev2, reg2 : Deeper(lev, reg, lev2, reg2, m, bn)
  BY <1>1, <1>3, <1>5, <1>6, <1>7, GoesDeeper
<1>9. PICK k \in DOMAIN map :
         /\ IsSecond(lev, reg, k) /\ k # total /\ (k \notin mixed => map[k] = snd.value)
         /\ k \in reg[currNode] /\ snd.key = Cut(k, lev[currNode])
         /\ snd.key \in Strings /\ snd.value \in Values
  BY <1>1, SecondIs
<1>10. snd = [key |-> snd.key, value |-> snd.value]
  BY <1>1 DEF Good, Scalars
<1>11. snd' = [key |-> Rest(snd.key), value |-> snd.value]
  BY <1>1, <1>10
<1>12. BothLed(lev, reg, m, k)
  <2>1. ASSUME NEW n \in DOMAIN layers, NEW h \in reg[n]
        PROVE  Look(layers'[n], Cut(h, lev[n])) = Look(layers[n], Cut(h, lev[n]))
    <3>1. PICK q : q = Cut(h, lev[n])
      OBVIOUS
    <3>2. q \in Strings
      BY <3>1, SliceOfCut DEF Good
    <3>3. ValueIn(NewBorderNode, q) = NULL /\ Look(NoRecords, q) = NULL
      BY <3>2, NewIsBorderNode, NoneIsARelation
    <3>4. Deeper(lev, reg, lev2, reg2, m, SetLink(NewBorderNode, m)) /\ NewBorderNode \in BorderNodes
      BY <1>4, <1>8, NewIsBorderNode
    <3>5. \/ Look(layers'[n], q) = Look(layers[n], q)
          \/ /\ n = currNode /\ Slice(q) = Slice(key)
             /\ Look(layers'[n], q) = IF EndsHere(q) THEN ValueIn(NewBorderNode, q) ELSE NULL
      BY <1>1, <3>1, <3>4, LookDeeper
    <3> QED
      BY <1>2, <3>1, <3>3, <3>5
  <2>2. \A h : IsSecond(lev, reg, h) => h = k
    BY <1>9, OneSecond
  <2> QED
    BY <1>1, <1>9, <1>11, <2>1, <2>2 DEF BothLed
<1>13. Good(lev2, reg2)'
  BY <1>1, <1>5, <1>6, <1>8, <1>12, DeeperKeeps
<1> QED
  BY <1>13

LEMMA ExportSuffixKeeps ==
    ASSUME NEW lev, NEW reg, Good(lev, reg), ExportSuffix
    PROVE  \E lev2, reg2 : Good(lev2, reg2)'
<1>1. /\ op = "put" /\ snd = NULL /\ Present /\ ~EndsHere(key)
      /\ HasSuffix(borderNode) /\ borderNode.keySuffix # Rest(key)
      /\ snd' = [key |-> borderNode.keySuffix, value |-> borderNode.suffixLink]
      /\ key' = Rest(key) /\ UNCHANGED <<numKeys, op, value, ret, total, history>>
  BY DEF ExportSuffix
<1>2. /\ currNode \in DOMAIN layers /\ layers[currNode] \in Relations /\ layers \in Seq(Relations)
      /\ total \in reg[currNode] /\ key = Cut(total, lev[currNode])
  BY <1>1, InSearch DEF Good
<1>3. PICK b : b = borderNode
  OBVIOUS
<1>4. Slice(key) \in DOMAIN layers[currNode] /\ b = layers[currNode][Slice(key)] /\ b \in BorderNodes /\ HasSuffix(b)
  BY <1>1, <1>2, <1>3, RelationIs DEF Present, borderNode
<1>5. b.suffixLink \in Values
  BY <1>4 DEF BorderNodes
<1>6. PICK m \in Nat : m = Len(layers) + 1
  BY <1>2, LenProperties
<1>7. PICK bn : bn = SetLink(b, m)
  OBVIOUS
<1>8. bn \in BorderNodes /\ ~HasSuffix(bn) /\ GetLink(bn) = m
  BY <1>4, <1>7, SetLinkIs
<1>9. /\ layers' = Append([layers EXCEPT ![currNode] = Record(@, Slice(key), bn)], NoRecords)
      /\ currNode' = m
  BY <1>3, <1>6, <1>7 DEF ExportSuffix, SetNewLink
<1>10. LinkAt(layers[currNode], Slice(key)) = NULL
  BY <1>4 DEF LinkAt, GetLink
<1>11. PICK lev2, reg2 : Deeper(lev, reg, lev2, reg2, m, bn)
  BY <1>1, <1>6, <1>8, <1>9, <1>10, GoesDeeper
\* The suffix is what is left of a key that was put.
<1>12. PICK k \in Strings : /\ k \in reg[currNode] /\ k \in DOMAIN map \cup {total}
                            /\ Slice(Cut(k, lev[currNode])) = Slice(key) /\ ~EndsHere(Cut(k, lev[currNode]))
                            /\ b.keySuffix = Rest(Cut(k, lev[currNode]))
  <2>1. PICK k \in Strings : /\ SuffixOf(lev, reg, currNode, Slice(key), k) /\ (k \in DOMAIN map \/ Doing(k))
    BY <1>2, <1>4 DEF Good, Suffixes
  <2> QED
    BY <1>4, <2>1 DEF SuffixOf, Doing
<1>13. k # total /\ k \in DOMAIN map
  BY <1>1, <1>2, <1>3, <1>12
<1>14. PICK p : p = Cut(k, lev[currNode])
  OBVIOUS
<1>15. Look(layers[currNode], p) = b.suffixLink
  BY <1>4, <1>12, <1>14 DEF Look, ValueIn
<1>16. k \notin mixed => map[k] = b.suffixLink
  <2>1. b.suffixLink # NULL /\ ~Doing(k)
    BY <1>5, <1>13, NullIsNoOther DEF Doing
  <2> QED
    BY <1>2, <1>12, <1>14, <1>15, <2>1 DEF Good, Right
<1>17. BothLed(lev, reg, m, k)
  <2>1. ASSUME NEW n \in DOMAIN layers, NEW h \in reg[n]
        PROVE  \/ Look(layers'[n], Cut(h, lev[n])) = Look(layers[n], Cut(h, lev[n]))
               \/ h = k /\ Look(layers'[n], Cut(h, lev[n])) = NULL
    <3>1. PICK q : q = Cut(h, lev[n])
      OBVIOUS
    <3>2. q \in Strings /\ h \in Strings /\ lev[n] \in Nat
      BY <3>1, SliceOfCut DEF Good
    <3>3. CASE Look(layers'[n], q) = Look(layers[n], q)
      BY <3>1, <3>3
    <3>4. CASE /\ n = currNode /\ Slice(q) = Slice(key)
               /\ Look(layers'[n], q) = IF EndsHere(q) THEN ValueIn(b, q) ELSE NULL
      <4>1. Look(layers[n], q) = ValueIn(b, q)
        BY <1>4, <3>4 DEF Look
      <4>2. CASE EndsHere(q)
        BY <3>1, <3>4, <4>1, <4>2
      <4>3. CASE ~EndsHere(q) /\ b.keySuffix # Rest(q)
        <5>1. ValueIn(b, q) = NULL
          BY <4>3 DEF ValueIn
        <5> QED
          BY <3>1, <3>4, <4>1, <4>3, <5>1
      <4>4. CASE ~EndsHere(q) /\ b.keySuffix = Rest(q)
        <5>1. p \in Strings
          BY <1>2, <1>12, <1>14, SliceOfCut DEF Good
        <5>2. p = q
          BY <1>12, <1>14, <3>2, <3>4, <4>4, <5>1, SlicesAndRest
        <5>3. Same(h, k, lev[n])
          BY <1>2, <1>12, <3>4 DEF Good, Tree, Regions
        <5>4. h = k
          BY <1>14, <3>1, <3>2, <3>4, <5>1, <5>2, <5>3, SameAndCut
        <5> QED
          BY <3>1, <3>4, <4>4, <5>4
      <4> QED
        BY <4>2, <4>3, <4>4
    <3>5. Deeper(lev, reg, lev2, reg2, m, SetLink(b, m))
      BY <1>7, <1>11
    <3> QED
      BY <1>1, <1>4, <3>1, <3>3, <3>4, <3>5, LookDeeper
  <2> QED
    BY <1>1, <1>3, <1>5, <1>12, <1>13, <1>16, <2>1 DEF BothLed
<1>18. Good(lev2, reg2)'
  BY <1>1, <1>8, <1>9, <1>11, <1>17, DeeperKeeps
<1> QED
  BY <1>18

-----------------------------------------------------------------------------
(* The turns that write nothing. *)

LEMMA StoreStays ==
    ASSUME NEW lev, NEW reg, Good(lev, reg), layers' = layers, UNCHANGED history, snd = NULL, snd' = NULL,
           op = "put" => op' = "put" /\ total' = total
    PROVE  /\ layers' \in Seq(Relations) /\ Tree(layers', lev, reg) /\ Second(lev, reg)' /\ NoneEmpty'
           /\ Right(lev, reg)' /\ There(lev, reg)' /\ Suffixes(lev, reg)'
<1>1. map' = map /\ mixed' = mixed
  BY DEF history
<1>2. \A k : Doing(k) => Doing(k)'
  BY DEF Doing
<1>3. layers' \in Seq(Relations) /\ Tree(layers', lev, reg)
  BY DEF Good
<1>4. Second(lev, reg)' /\ NoneEmpty'
  BY DEF Good, Second, NoneEmpty
<1>5. Right(lev, reg)'
  BY <1>1, <1>2 DEF Good, Right
<1>6. There(lev, reg)'
  BY <1>1, <1>2 DEF Good, There, HasValue
<1>7. Suffixes(lev, reg)'
  <2>1. ASSUME NEW n \in DOMAIN layers, NEW s \in DOMAIN layers[n], HasSuffix(layers[n][s])
        PROVE  \E k \in Strings : SuffixOf(lev, reg, n, s, k)' /\ (k \in DOMAIN map' \/ Doing(k)')
    <3>1. PICK k \in Strings : SuffixOf(lev, reg, n, s, k) /\ (k \in DOMAIN map \/ Doing(k))
      BY <2>1 DEF Good, Suffixes
    <3>2. SuffixOf(lev, reg, n, s, k)'
      BY <3>1 DEF SuffixOf
    <3> QED
      BY <1>1, <1>2, <3>1, <3>2
  <2> QED
    BY <2>1 DEF Suffixes
<1> QED
  BY <1>3, <1>4, <1>5, <1>6, <1>7

\* Before a call puts its key and after it, the count is the number of keys.
LEMMA CountStays ==
    ASSUME NEW lev, NEW reg, Good(lev, reg), UNCHANGED <<layers, numKeys, history>>,
           \/ op' = op /\ total' = total
           \/ op # "put" /\ op' # "put"
           \/ op = "idle"
    PROVE  Counts(lev, reg)'
<1>1. layers' = layers /\ numKeys' = numKeys /\ map' = map /\ mixed' = mixed
  BY DEF history
<1>2. NoneMeet' <=> NoneMeet
  BY <1>1 DEF NoneMeet
<1>3. \A k : HasValue(lev, reg, k)' <=> HasValue(lev, reg, k)
  BY <1>1 DEF HasValue
<1>4. NoneMeet => (Early(lev, reg)' <=> Early(lev, reg))
  <2>1. CASE op' = op /\ total' = total
    BY <1>1, <1>3, <2>1 DEF Early
  <2>2. CASE op # "put" /\ op' # "put"
    BY <2>2 DEF Early
  <2>3. CASE op = "idle" /\ NoneMeet
    <3>1. mixed = {}
      BY <2>3 DEF Good, Counts
    <3>2. ASSUME NEW k, HasValue(lev, reg, k)
          PROVE  k \in DOMAIN map
      BY <2>3, <3>1, <3>2 DEF Good, Right, HasValue, Doing
    <3>3. ~Early(lev, reg)
      BY <2>3 DEF Early
    <3>4. PICK t : t = total'
      OBVIOUS
    <3>5. HasValue(lev, reg, total)' <=> HasValue(lev, reg, t)
      BY <1>1, <3>4 DEF HasValue
    <3>6. ~Early(lev, reg)'
      BY <1>1, <3>2, <3>4, <3>5 DEF Early
    <3> QED
      BY <3>3, <3>6
  <2> QED
    BY <2>1, <2>2, <2>3
<1> QED
  BY <1>1, <1>2, <1>4 DEF Good, Counts

LEMMA FollowKeeps ==
    ASSUME NEW lev, NEW reg, Good(lev, reg), PutFollow \/ GetFollow
    PROVE  Good(lev, reg)'
<1>1. /\ op \in {"put", "get"} /\ snd = NULL /\ Present /\ ~EndsHere(key) /\ GetLink(borderNode) # NULL
      /\ currNode' = GetLink(borderNode) /\ key' = Rest(key)
      /\ UNCHANGED <<layers, numKeys, op, value, snd, ret, total, history>>
  BY DEF PutFollow, GetFollow, Good, Searching
<1>2. /\ currNode \in DOMAIN layers /\ total \in Keys /\ total \in reg[currNode]
      /\ key = Cut(total, lev[currNode]) /\ key \in Strings /\ Slice(key) \in Slices
      /\ op = "put" => value \in Values
  BY <1>1, InSearch
<1>3. PICK lay, c, p, k, m : lay = layers /\ c = currNode /\ p = key /\ k = total /\ m = currNode'
  OBVIOUS
<1>4. m = LinkAt(lay[c], Slice(p)) /\ m # NULL
  BY <1>1, <1>3 DEF Present, borderNode, LinkAt
<1>5. Tree(lay, lev, reg) /\ c \in DOMAIN lay /\ Slice(p) \in Slices
  BY <1>2, <1>3 DEF Good
<1>6. LeadsTo(lay, lev, reg, c, Slice(p), m)
  BY <1>4, <1>5 DEF Tree, LinksLead
<1>7. k \in reg[c] /\ p = Cut(k, lev[c]) /\ ~EndsHere(p)
  BY <1>1, <1>2, <1>3
<1>8. m \in DOMAIN lay /\ k \in reg[m] /\ Rest(p) = Cut(k, lev[m])
  BY <1>5, <1>6, <1>7, Follow
<1>9. Rest(key) \in Strings
  BY <1>1, <1>2, RestIs
<1>10. Scalars'
  BY <1>1, <1>3, <1>8, <1>9 DEF Good, Scalars, history
<1>11. Searching(lev, reg)'
  BY <1>1, <1>2, <1>3, <1>8 DEF Searching
<1>12. GetReturnsLastPut'
  BY <1>1 DEF GetReturnsLastPut
<1>13. /\ layers' \in Seq(Relations) /\ Tree(layers', lev, reg) /\ Second(lev, reg)' /\ NoneEmpty'
       /\ Right(lev, reg)' /\ There(lev, reg)' /\ Suffixes(lev, reg)'
  BY <1>1, StoreStays
<1>14. Counts(lev, reg)'
  BY <1>1, CountStays
<1> QED
  BY <1>10, <1>11, <1>12, <1>13, <1>14 DEF Good

\* What a layer has for the key is right where the key is not led on.
LEMMA AnswerRight ==
    ASSUME NEW lev, NEW reg, Good(lev, reg), op = "get", total \notin mixed,
           EndsHere(key) \/ LinkAt(layers[currNode], Slice(key)) = NULL
    PROVE  Look(layers[currNode], key) = Contents(total)
<1>1. /\ currNode \in DOMAIN layers /\ total \in reg[currNode] /\ key = Cut(total, lev[currNode])
      /\ Tree(layers, lev, reg) /\ snd = NULL /\ ~Doing(total)
  BY InSearch DEF Good, Searching, Doing
<1>2. CASE Look(layers[currNode], key) # NULL
  BY <1>1, <1>2 DEF Good, Right, Contents
<1>3. CASE Look(layers[currNode], key) = NULL
  <2>1. ASSUME total \in DOMAIN map
        PROVE  FALSE
    <3>1. PICK n \in DOMAIN layers : total \in reg[n] /\ Look(layers[n], Cut(total, lev[n])) # NULL
      BY <1>1, <2>1 DEF Good, There, HasValue
    <3>2. PICK lay, c, k : lay = layers /\ c = currNode /\ k = total
      OBVIOUS
    <3>3. EndsHere(Cut(k, lev[c])) \/ LinkAt(lay[c], Slice(Cut(k, lev[c]))) = NULL
      BY <1>1, <3>2
    <3>4. /\ Tree(lay, lev, reg) /\ n \in DOMAIN lay /\ c \in DOMAIN lay /\ k \in reg[n] /\ k \in reg[c]
          /\ Look(lay[n], Cut(k, lev[n])) # NULL
      BY <1>1, <3>1, <3>2
    <3>5. n = c
      BY <3>3, <3>4, NotLedOn
    <3> QED
      BY <1>1, <1>3, <3>1, <3>2, <3>5
  <2> QED
    BY <1>3, <2>1 DEF Contents
<1> QED
  BY <1>2, <1>3

LEMMA AnswerKeeps ==
    ASSUME NEW lev, NEW reg, Good(lev, reg), GetAbsent \/ GetPrefix \/ GetSuffix \/ GetNothing
    PROVE  Good(lev, reg)'
<1>1. /\ currNode \in DOMAIN layers /\ layers[currNode] \in Relations /\ key \in Strings
      /\ op = "get" /\ snd = NULL
  BY InSearch DEF GetAbsent, GetPrefix, GetSuffix, GetNothing, Good, Searching
<1>2. ~EndsHere(key) => Rest(key) # NULL
  BY <1>1, RestIs, NullIsNoOther
<1>3. PICK v : v = Look(layers[currNode], key)
  OBVIOUS
<1>4. /\ Answer(v)
      /\ EndsHere(key) \/ LinkAt(layers[currNode], Slice(key)) = NULL
  <2>1. CASE GetAbsent
    BY <1>3, <2>1 DEF GetAbsent, Present, Look, LinkAt
  <2>2. CASE GetPrefix
    BY <1>3, <2>2 DEF GetPrefix, Present, borderNode, Look, ValueIn
  <2>3. CASE GetSuffix
    BY <1>3, <2>3 DEF GetSuffix, Present, borderNode, Look, ValueIn, LinkAt, GetLink
  <2>4. CASE GetNothing
    BY <1>2, <1>3, <2>4 DEF GetNothing, Present, borderNode, Look, ValueIn, LinkAt, HasSuffix
  <2> QED
    BY <2>1, <2>2, <2>3, <2>4
<1>5. op' = "got" /\ ret' = v /\ UNCHANGED <<layers, numKeys, key, value, currNode, snd, total, history>>
  BY <1>4 DEF Answer
<1>6. v \in Values \cup {NULL}
  BY <1>1, <1>3, LookIs
<1>7. Scalars'
  BY <1>5, <1>6 DEF Good, Scalars, history
<1>8. Searching(lev, reg)'
  BY <1>1, <1>5 DEF Searching
<1>9. GetReturnsLastPut'
  <2>1. total \notin mixed => v = Contents(total)
    BY <1>1, <1>3, <1>4, AnswerRight
  <2> QED
    BY <1>5, <2>1 DEF GetReturnsLastPut, Contents, history
<1>10. /\ layers' \in Seq(Relations) /\ Tree(layers', lev, reg) /\ Second(lev, reg)' /\ NoneEmpty'
       /\ Right(lev, reg)' /\ There(lev, reg)' /\ Suffixes(lev, reg)'
  BY <1>1, <1>5, StoreStays
<1>11. Counts(lev, reg)'
  BY <1>1, <1>5, CountStays
<1> QED
  BY <1>7, <1>8, <1>9, <1>10, <1>11 DEF Good

LEMMA CallKeeps ==
    ASSUME NEW lev, NEW reg, Good(lev, reg), NEW k \in Keys, KV_Get(k) \/ \E v \in Values : KV_Put(k, v)
    PROVE  Good(lev, reg)'
<1>1. /\ op = "idle" /\ op' \in {"put", "get"} /\ key' = k /\ total' = k /\ currNode' = 1
      /\ op' = "put" => value' \in Values
      /\ op' = "get" => value' = value
      /\ UNCHANGED <<layers, numKeys, snd, ret, history>>
  BY DEF KV_Get, KV_Put
<1>2. snd = NULL /\ 1 \in DOMAIN layers /\ lev[1] = 0 /\ reg[1] = Strings
  BY <1>1 DEF Good, Searching, Tree, Rooted
<1>3. k \in Strings /\ Cut(k, 0) = k
  BY KeysAreStrings, WholeKey
<1>4. Scalars'
  BY <1>1, <1>2, <1>3 DEF Good, Scalars, history
<1>5. Searching(lev, reg)'
  BY <1>1, <1>2, <1>3 DEF Searching
<1>6. GetReturnsLastPut'
  BY <1>1 DEF GetReturnsLastPut
<1>7. /\ layers' \in Seq(Relations) /\ Tree(layers', lev, reg) /\ Second(lev, reg)' /\ NoneEmpty'
      /\ Right(lev, reg)' /\ There(lev, reg)' /\ Suffixes(lev, reg)'
  BY <1>1, <1>2, StoreStays
<1>8. Counts(lev, reg)'
  BY <1>1, CountStays
<1> QED
  BY <1>4, <1>5, <1>6, <1>7, <1>8 DEF Good

LEMMA ReturnKeeps ==
    ASSUME NEW lev, NEW reg, Good(lev, reg), Return
    PROVE  Good(lev, reg)'
<1>1. /\ op = "got" /\ op' = "idle" /\ key' = <<>> /\ total' = <<>> /\ currNode' = 1 /\ ret' = NULL
      /\ UNCHANGED <<layers, numKeys, value, snd, history>>
  BY DEF Return
<1>2. snd = NULL /\ 1 \in DOMAIN layers
  BY <1>1 DEF Good, Searching, Tree, Rooted
<1>3. Scalars'
  BY <1>1, <1>2 DEF Good, Scalars, history
<1>4. Searching(lev, reg)' /\ GetReturnsLastPut'
  BY <1>1, <1>2 DEF Searching, GetReturnsLastPut
<1>5. /\ layers' \in Seq(Relations) /\ Tree(layers', lev, reg) /\ Second(lev, reg)' /\ NoneEmpty'
      /\ Right(lev, reg)' /\ There(lev, reg)' /\ Suffixes(lev, reg)'
  BY <1>1, <1>2, StoreStays
<1>6. Counts(lev, reg)'
  BY <1>1, CountStays
<1> QED
  BY <1>3, <1>4, <1>5, <1>6 DEF Good

-----------------------------------------------------------------------------
(* The invariant holds at first, and every step keeps it. *)

LEMMA AtFirst == Init => Inv
<1> SUFFICES ASSUME Init PROVE Inv
  OBVIOUS
<1>1. PICK lay : lay = layers
  OBVIOUS
<1>2. PICK lev, reg : lev = [n \in {1} |-> 0] /\ reg = [n \in {1} |-> Strings]
  OBVIOUS
<1>3. /\ lay \in Seq(Relations) /\ DOMAIN lay = {1} /\ lay[1] = NoRecords
      /\ lev[1] = 0 /\ reg[1] = Strings
  BY <1>1, <1>2, NoneIsARelation DEF Init
<1>4. <<Zero>> \in Strings
  BY SliceLength DEF Strings
<1>5. Tree(lay, lev, reg)
  <2>1. Rooted(lay, lev, reg)
    BY <1>3 DEF Rooted
  <2>2. Regions(lay, lev, reg)
    <3>1. \A k \in Strings : Cut(k, 0) \in Strings
      BY WholeKey
    <3>2. ASSUME NEW k \in Strings, NEW m \in Strings
          PROVE  Same(k, m, 0)
      BY SliceLength DEF Same
    <3> QED
      BY <1>3, <1>4, <3>1, <3>2 DEF Regions
  <2>3. Apart(lay, lev, reg) /\ LedOn(lay, lev, reg) /\ LinksLead(lay, lev, reg) /\ AllHang(lay)
    BY <1>3, NoneIsARelation DEF Apart, LedOn, LinksLead, AllHang
  <2> QED
    BY <2>1, <2>2, <2>3 DEF Tree
<1>6. Scalars
  BY <1>1, <1>3 DEF Init, Scalars
<1>7. Searching(lev, reg) /\ Second(lev, reg) /\ NoneEmpty /\ GetReturnsLastPut
  BY <1>1, <1>3 DEF Init, Searching, Second, NoneEmpty, GetReturnsLastPut
<1>8. Right(lev, reg) /\ There(lev, reg) /\ Suffixes(lev, reg)
  BY <1>1, <1>3, NoneIsARelation DEF Init, Right, There, Suffixes
<1>10. Counts(lev, reg)
  <2>1. DOMAIN map = {} /\ mixed = {} /\ numKeys = 0 /\ ~Early(lev, reg)
    BY DEF Init, Early
  <2> QED
    BY <2>1, FS_EmptySet DEF Counts
<1>9. Good(lev, reg)
  BY <1>1, <1>3, <1>5, <1>6, <1>7, <1>8, <1>10 DEF Good
<1> QED
  BY <1>9 DEF Inv

LEMMA EachStep == Inv /\ [Next]_vars => Inv'
<1> SUFFICES ASSUME Inv, [Next]_vars PROVE Inv'
  OBVIOUS
<1>1. PICK lev, reg : Good(lev, reg)
  BY DEF Inv
<1>2. SUFFICES \E lev2, reg2 : Good(lev2, reg2)'
  BY DEF Inv
<1>3. CASE UNCHANGED vars
  <2>1. Good(lev, reg)'
    BY <1>1, <1>3 DEF vars, call, history, Good, Scalars, Searching, Second, IsSecond, NoneEmpty, Right,
                     There, HasValue, Suffixes, SuffixOf, Doing, GetReturnsLastPut, Contents,
                     Counts, NoneMeet, Early
  <2> QED
    BY <2>1
<1>4. ASSUME NEW k \in Keys, KV_Get(k) \/ \E v \in Values : KV_Put(k, v)
      PROVE  \E lev2, reg2 : Good(lev2, reg2)'
  <2>1. Good(lev, reg)'
    BY <1>1, <1>4, CallKeeps
  <2> QED
    BY <2>1
<1>5. CASE PutBothHere
  <2>1. Good(lev, reg)'
    BY <1>1, <1>5, PutBothHereKeeps
  <2> QED
    BY <2>1
<1>6. CASE PushBothDown
  BY <1>1, <1>6, PushBothDownKeeps
<1>7. CASE PutApart
  <2>1. Good(lev, reg)'
    BY <1>1, <1>7, PutApartKeeps
  <2> QED
    BY <2>1
<1>8. CASE PutNewSlice \/ PutPrefix \/ PutSameSuffix \/ PutNewSuffix
  <2>1. Good(lev, reg)'
    BY <1>1, <1>8, PutOneKeeps
  <2> QED
    BY <2>1
<1>9. CASE ExportSuffix
  BY <1>1, <1>9, ExportSuffixKeeps
<1>10. CASE PutFollow \/ GetFollow
  <2>1. Good(lev, reg)'
    BY <1>1, <1>10, FollowKeeps
  <2> QED
    BY <2>1
<1>11. CASE GetAbsent \/ GetPrefix \/ GetSuffix \/ GetNothing
  <2>1. Good(lev, reg)'
    BY <1>1, <1>11, AnswerKeeps
  <2> QED
    BY <2>1
<1>12. CASE Return
  <2>1. Good(lev, reg)'
    BY <1>1, <1>12, ReturnKeeps
  <2> QED
    BY <2>1
<1> QED
  BY <1>3, <1>4, <1>5, <1>6, <1>7, <1>8, <1>9, <1>10, <1>11, <1>12 DEF Next, Turn, PutTurn, GetTurn

\* kvstore.c:180-338: after any calls there are levels and regions that make the layers
\* a trie, and the layers have the last value of every key that is not mixed up, in one
\* border node, or KV_Put has it in hand as sndValue.
THEOREM TrieInvariance == Spec => []Inv
<1> QED
  BY AtFirst, EachStep, PTL DEF Spec

LEMMA InvTypes == Inv => TypeOK
<1> SUFFICES ASSUME Inv PROVE TypeOK
  OBVIOUS
<1>1. PICK lev, reg : Good(lev, reg)
  BY DEF Inv
<1>2. layers \in Seq(Relations) /\ Scalars /\ Tree(layers, lev, reg)
  BY <1>1 DEF Good
<1>3. ASSUME NEW n \in DOMAIN layers
      PROVE  DOMAIN layers[n] \subseteq Slices /\ \A s \in DOMAIN layers[n] : IsBorderNode(layers[n][s])
  <2>1. PICK rs \in Relations : rs = layers[n]
    BY <1>2, <1>3, ElementOfSeq, LenProperties
  <2>2. DOMAIN rs \subseteq Slices /\ \A s \in DOMAIN rs : rs[s] \in BorderNodes
    BY RelationIs
  <2>3. ASSUME NEW s \in DOMAIN rs
        PROVE  IsBorderNode(rs[s])
    <3>1. PICK bn \in BorderNodes : bn = rs[s]
      BY <2>2, <2>3
    <3>2. ~HasSuffix(bn) => bn.suffixLink \in DOMAIN layers \cup {NULL}
      <4>1. SUFFICES ASSUME ~HasSuffix(bn), bn.suffixLink # NULL PROVE bn.suffixLink \in DOMAIN layers
        OBVIOUS
      <4>2. LinkAt(layers[n], s) = bn.suffixLink /\ s \in Slices
        BY <2>1, <2>2, <2>3, <3>1, <4>1 DEF LinkAt, GetLink
      <4> QED
        BY <1>2, <1>3, <4>1, <4>2 DEF Tree, LinksLead, LeadsTo
    <3>3. IsBorderNode(bn)
      BY <3>2 DEF IsBorderNode, BorderNodes
    <3> QED
      BY <3>1, <3>3
  <2> QED
    BY <2>1, <2>2, <2>3
<1> QED
  BY <1>2, <1>3 DEF TypeOK, Scalars

LEMMA InvTrie == Inv => LayersFormTrie
<1> SUFFICES ASSUME Inv PROVE LayersFormTrie
  OBVIOUS
<1>1. PICK lev, reg : Good(lev, reg)
  BY DEF Inv
<1>2. layers \in Seq(Relations) /\ Tree(layers, lev, reg)
  BY <1>1 DEF Good
<1>3. \A n \in DOMAIN layers : DOMAIN layers[n] \subseteq Slices
  <2>1. \A n \in DOMAIN layers : layers[n] \in Relations
    BY <1>2, ElementOfSeq, LenProperties
  <2> QED
    BY <2>1, RelationIs
<1>4. ASSUME NEW m \in DOMAIN layers \ {1}
      PROVE  \E link \in Links : link[1] < m /\ {l \in Links : LinkOf(l) = m} = {link}
  <2>1. PICK n \in DOMAIN layers, s \in Slices : LinkAt(layers[n], s) = m
    BY <1>2, <1>4 DEF Tree, AllHang
  <2>2. m # NULL
    BY <1>2, <1>4, NullIsNoOther DEF Tree, Rooted
  <2>3. n < m /\ lev[m] = lev[n] + 1 /\ reg[m] = Below(reg[n], lev[n], s)
    BY <1>2, <2>1, <2>2 DEF Tree, LinksLead, LeadsTo
  <2>4. PICK link : link = <<n, s>>
    OBVIOUS
  <2>5. link \in Links /\ link[1] < m /\ LinkOf(link) = m
    <3>1. s \in DOMAIN layers[n] /\ GetLink(layers[n][s]) = m
      BY <2>1, <2>2 DEF LinkAt
    <3> QED
      BY <2>2, <2>3, <2>4, <3>1 DEF Links, LinkOf
  <2>6. ASSUME NEW l \in Links, LinkOf(l) = m
        PROVE  l = link
    <3>1. PICK h \in DOMAIN layers, t \in Slices : l = <<h, t>> /\ t \in DOMAIN layers[h] /\ GetLink(layers[h][t]) = m
      BY <2>6 DEF Links, LinkOf
    <3>2. LinkAt(layers[h], t) = m
      BY <3>1 DEF LinkAt
    <3>3. lev[m] = lev[h] + 1 /\ reg[m] = Below(reg[h], lev[h], t)
      BY <1>2, <2>2, <3>2 DEF Tree, LinksLead, LeadsTo
    <3>4. reg[m] # {} /\ lev[h] \in Nat /\ lev[n] \in Nat
      BY <1>2, <1>4 DEF Tree, Regions
    <3>5. PICK k : k \in reg[m]
      BY <3>4
    <3>6. lev[h] = lev[n] /\ k \in reg[h] /\ k \in reg[n]
      BY <2>3, <3>3, <3>4, <3>5 DEF Below
    <3>7. h = n
      BY <1>2, <3>6 DEF Tree, Apart
    <3>8. t = s
      BY <2>3, <3>3, <3>5, <3>7 DEF Below
    <3> QED
      BY <2>4, <3>1, <3>7, <3>8
  <2> QED
    BY <2>5, <2>6
<1>5. op = "idle" => \A n \in DOMAIN layers \ {1} : layers[n] # NoRecords
  BY <1>1 DEF Good, NoneEmpty, Searching
<1> QED
  BY <1>4, <1>5 DEF LayersFormTrie

-----------------------------------------------------------------------------

\* kvstore_int.h:47-57, bordernode.c:48-53: the variables keep the types of the C program,
\* and no border node has a value for a suffix that it does not have.
THEOREM TypesStay == Spec => []TypeOK
<1> QED
  BY InvTypes, TrieInvariance, PTL

\* kvstore.h:69-78: KV_Get returns what was last put for the key, and NULL if nothing was,
\* for keys of any length and however they share slices, unless case 0.0.0 has mixed the
\* key with another since it was put.
THEOREM GetIsRight == Spec => []GetReturnsLastPut
<1>1. Inv => GetReturnsLastPut
  BY DEF Inv, Good
<1> QED
  BY <1>1, TrieInvariance, PTL

\* kvstore.c:217-236, :305-320: every layer but the root hangs from one border node, of an
\* older layer, and none is left empty.
THEOREM LayersStayTrie == Spec => []LayersFormTrie
<1> QED
  BY InvTrie, TrieInvariance, PTL

\* kvstore.c:207-338: numKeys is incremented in five places, once for every key that is put
\* for the first time and never for one that is there, also where the count comes a turn
\* before the key is (case 1.0), as long as no two of the keys make case 0.0.0 possible.
THEOREM KeysAreCounted == Spec => []CountsKeys
<1>1. Inv => CountsKeys
  <2> SUFFICES ASSUME Inv PROVE CountsKeys
    OBVIOUS
  <2>1. PICK lev, reg : Good(lev, reg)
    BY DEF Inv
  <2>2. op = "idle" => ~Early(lev, reg)
    BY DEF Early
  <2>3. IsFiniteSet(DOMAIN map) /\ Cardinality(DOMAIN map) \in Nat
    BY <2>1, FS_CardinalityType DEF Good, Counts
  <2> QED
    BY <2>1, <2>2, <2>3 DEF CountsKeys, Good, Counts, NoneMeet
<1> QED
  BY <1>1, TrieInvariance, PTL

-----------------------------------------------------------------------------
(* index_string.c: where the calls of put end.  They follow the links, as in KVStore. *)

\* index_string.c has the slices and border nodes of kvstore.c.
LEMMA SameOperators ==
    /\ \A p : Index!Slice(p) = Slice(p) /\ Index!Rest(p) = Rest(p) /\ (Index!EndsHere(p) <=> EndsHere(p))
    /\ \A p, i : Index!Cut(p, i) = Cut(p, i)
    /\ \A bn : (Index!HasSuffix(bn) <=> HasSuffix(bn)) /\ Index!GetLink(bn) = GetLink(bn)
    /\ \A bn, p, v : Index!SetValue(bn, p, v) = SetValue(bn, p, v)
    /\ \A bn, m : Index!SetLink(bn, m) = SetLink(bn, m)
    /\ \A r, s, bn : Index!Iput(r, s, bn) = Record(r, s, bn)
    /\ Index!Iempty = NoRecords /\ Index!NewBorderNode = NewBorderNode
<1>1. /\ \A p : Index!Slice(p) = Slice(p) /\ Index!Rest(p) = Rest(p) /\ (Index!EndsHere(p) <=> EndsHere(p))
      /\ \A p, i : Index!Cut(p, i) = Cut(p, i)
  BY DEF Index!Slice, Slice, Index!Rest, Rest, Index!EndsHere, EndsHere, Index!Cut, Cut
<1>2. \A bn : (Index!HasSuffix(bn) <=> HasSuffix(bn)) /\ Index!GetLink(bn) = GetLink(bn)
  BY DEF Index!HasSuffix, HasSuffix, Index!GetLink, GetLink
<1>3. ASSUME NEW bn, NEW p, NEW v PROVE Index!SetValue(bn, p, v) = SetValue(bn, p, v)
  BY <1>1 DEF Index!SetValue, SetValue, Index!SetPrefixValue, SetPrefixValue, Index!SetSuffixValue, SetSuffixValue
<1>4. \A bn, m : Index!SetLink(bn, m) = SetLink(bn, m)
  BY DEF Index!SetLink, SetLink
<1>5. \A r, s, bn : Index!Iput(r, s, bn) = Record(r, s, bn)
  BY DEF Index!Iput, Record
<1>6. Index!Iempty = NoRecords /\ Index!NewBorderNode = NewBorderNode
  BY DEF Index!Iempty, NoRecords, Index!NewBorderNode, NewBorderNode
<1> QED
  BY <1>1, <1>2, <1>3, <1>4, <1>5, <1>6

\* The index that put goes on to with p from layer n.
Onward(lay, n, p) == IF EndsHere(p) THEN NULL ELSE LinkAt(lay[n], Slice(p))

LEMMA SubindexIs == \A n, p : Index!subindex(n, p) = Onward(indices, n, p)
<1> TAKE n, p
<1>1. GetLink(NewBorderNode) = NULL
  BY NewIsBorderNode
<1> QED
  BY <1>1, SameOperators DEF Index!subindex, Index!bnode, Onward, LinkAt

LEMMA OldIs == \A n, p : Index!bnode(n, p) = Old(indices[n], Slice(p))
BY SameOperators DEF Index!bnode, Old

LEMMA IxInduction ==
    ASSUME NEW S, 0 \in S, \A n \in Nat : n \in S => n + 1 \in S
    PROVE  Nat \subseteq S
<1> SUFFICES ASSUME Nat \ S # {} PROVE FALSE
  OBVIOUS
<1>1. \E x \in Nat \ S : \A y \in Nat \ S : ~(<<y, x>> \in OpToRel(<, Nat))
  BY NatLessThanWellFounded, WFMin, Zenon
<1>2. PICK x \in Nat \ S : \A y \in Nat \ S : ~(y < x)
  BY <1>1 DEF OpToRel
<1>3. x - 1 \in Nat /\ x - 1 \notin Nat \ S
  BY <1>2
<1>4. (x - 1) + 1 \in S
  BY <1>3
<1> QED
  BY <1>2, <1>4

\* A function of a layer and a level that follows the links.
FromHere(lay, k, w, n, i) ==
    IF Onward(lay, n, Cut(k, i)) = NULL THEN [index |-> n, key |-> Cut(k, i)]
    ELSE w[<<Onward(lay, n, Cut(k, i)), i + 1>>]
Places(A, B) == A \X B
Follows(lay, k, v, w) == v = [c \in Places(DOMAIN lay, 0 .. Len(k)) |-> FromHere(lay, k, w, c[1], c[2])]

LEMMA PlacesAre ==
    ASSUME NEW A, NEW B
    PROVE  /\ \A a \in A, b \in B : <<a, b>> \in Places(A, B) /\ <<a, b>>[1] = a /\ <<a, b>>[2] = b
           /\ \A c \in Places(A, B) : c[1] \in A /\ c[2] \in B /\ c = <<c[1], c[2]>>
BY DEF Places

LEMMA FollowsIs ==
    ASSUME NEW lay, NEW k, NEW v, NEW w, Follows(lay, k, v, w), NEW i \in 0 .. Len(k), NEW n \in DOMAIN lay
    PROVE  v[<<n, i>>] = FromHere(lay, k, w, n, i)
<1>1. PICK D : D = Places(DOMAIN lay, 0 .. Len(k))
  OBVIOUS
<1>2. PICK c : c = <<n, i>>
  OBVIOUS
<1>3. c \in D /\ c[1] = n /\ c[2] = i
  BY <1>1, <1>2, PlacesAre
<1>4. v = [x \in D |-> FromHere(lay, k, w, x[1], x[2])]
  BY <1>1 DEF Follows
<1> QED
  BY <1>2, <1>3, <1>4

\* At the last level no key goes on.
LEMMA LevelEnds ==
    ASSUME NEW k \in Strings
    PROVE  ~(Cut(k, Len(k)) \in Strings) /\ EndsHere(Cut(k, Len(k)))
<1>1. PICK l \in Nat : l = Len(k) /\ l > 0
  BY AreStrings
<1>2. PICK d \in Nat : d = l * KEY_SLICE_LENGTH
  BY SliceLength
<1>3. l <= d
  <2>1. PICK n \in Nat : KEY_SLICE_LENGTH = n + 1
    <3>1. KEY_SLICE_LENGTH - 1 \in Nat /\ KEY_SLICE_LENGTH = KEY_SLICE_LENGTH - 1 + 1
      BY SliceLength
    <3> QED
      BY <3>1
  <2>2. d = l * (n + 1)
    BY <1>2, <2>1
  <2>3. l * (n + 1) = l * n + l /\ l * n \in Nat
    OBVIOUS
  <2> QED
    BY <2>2, <2>3
<1>4. ~(d < Len(k))
  BY <1>1, <1>3
<1>5. PICK c : c = SubSeq(k, d + 1, Len(k))
  OBVIOUS
<1>6. Len(c) = 0
  BY <1>4, <1>5, TailAfter, AreStrings
<1>7. Cut(k, l) = c
  BY <1>2, <1>5 DEF Cut
<1>8. ~(Cut(k, l) \in Strings)
  BY <1>1, <1>2, <1>4, CutIs
<1>9. EndsHere(c)
  BY <1>6, SliceLength DEF EndsHere
<1> QED
  BY <1>1, <1>7, <1>8, <1>9

Closed(lay, k) == \A n \in DOMAIN lay, i \in 0 .. Len(k) : Onward(lay, n, Cut(k, i)) \in DOMAIN lay \cup {NULL}

LEMMA FollowExists ==
    ASSUME NEW lay, NEW k \in Strings, Closed(lay, k)
    PROVE  \E v : Follows(lay, k, v, v)
<1> DEFINE L == Len(k)
           D == Places(DOMAIN lay, 0 .. Len(k))
           T == {j \in Nat : \E v : /\ v = [c \in D |-> v[c]]
                                   /\ \A n \in DOMAIN lay, i \in 0 .. L : L - i <= j => v[<<n, i>>] = FromHere(lay, k, v, n, i)}
<1>1. L \in Nat /\ \A n : Onward(lay, n, Cut(k, L)) = NULL
  BY AreStrings, LevelEnds DEF Onward
<1>2. 0 \in T
  <2>1. PICK v : v = [c \in D |-> [index |-> c[1], key |-> Cut(k, L)]]
    OBVIOUS
  <2>2. ASSUME NEW n \in DOMAIN lay, NEW i \in 0 .. L, L - i <= 0
        PROVE  v[<<n, i>>] = FromHere(lay, k, v, n, i)
    <3>1. i = L
      BY <1>1, <2>2
    <3>2. v[<<n, i>>] = [index |-> n, key |-> Cut(k, L)]
      <4>1. PICK c : c = <<n, i>>
        OBVIOUS
      <4>2. c \in D /\ c[1] = n
        BY <4>1, PlacesAre
      <4> HIDE DEF D
      <4> QED
        BY <2>1, <4>1, <4>2
    <3> QED
      BY <1>1, <3>1, <3>2 DEF FromHere
  <2>3. v = [c \in D |-> v[c]]
    BY <2>1
  <2> HIDE DEF D, L
  <2> QED
    BY <2>2, <2>3
<1>3. ASSUME NEW j \in Nat, j \in T PROVE j + 1 \in T
  <2>1. PICK v : /\ v = [c \in D |-> v[c]]
                 /\ \A n \in DOMAIN lay, i \in 0 .. L : L - i <= j => v[<<n, i>>] = FromHere(lay, k, v, n, i)
    BY <1>3
  <2>2. PICK w : w = [c \in D |-> IF L - c[2] <= j THEN v[c] ELSE FromHere(lay, k, v, c[1], c[2])]
    OBVIOUS
  <2>3. ASSUME NEW n \in DOMAIN lay, NEW i \in 0 .. L
        PROVE  w[<<n, i>>] = IF L - i <= j THEN v[<<n, i>>] ELSE FromHere(lay, k, v, n, i)
    <3>1. PICK c : c = <<n, i>>
      OBVIOUS
    <3>2. c \in D /\ c[1] = n /\ c[2] = i
      BY <3>1, PlacesAre
    <3> HIDE DEF D
    <3> QED
      BY <2>2, <3>1, <3>2
  <2>4. ASSUME NEW n \in DOMAIN lay, NEW i \in 0 .. L, L - i <= j + 1
        PROVE  w[<<n, i>>] = FromHere(lay, k, w, n, i)
    <3>1. w[<<n, i>>] = FromHere(lay, k, v, n, i)
      BY <2>1, <2>3
    <3>2. PICK o : o = Onward(lay, n, Cut(k, i))
      OBVIOUS
    <3>3. CASE o = NULL
      BY <3>1, <3>2, <3>3 DEF FromHere
    <3>4. CASE o # NULL
      <4>1. i # L /\ i + 1 \in 0 .. L /\ L - (i + 1) <= j
        BY <1>1, <2>4, <3>2, <3>4
      <4>2. o \in DOMAIN lay
        BY <3>2, <3>4 DEF Closed
      <4>3. w[<<o, i + 1>>] = v[<<o, i + 1>>]
        BY <2>3, <4>1, <4>2
      <4> QED
        BY <3>1, <3>2, <3>4, <4>3 DEF FromHere
    <3> QED
      BY <3>3, <3>4
  <2>5. w = [c \in D |-> w[c]]
    BY <2>2
  <2> HIDE DEF D, L
  <2> QED
    BY <2>4, <2>5
<1> HIDE DEF T
<1>4. L \in T
  BY <1>1, <1>2, <1>3, IxInduction
<1>5. PICK v : /\ v = [c \in D |-> v[c]]
               /\ \A n \in DOMAIN lay, i \in 0 .. L : L - i <= L => v[<<n, i>>] = FromHere(lay, k, v, n, i)
  BY <1>4 DEF T
<1>6. ASSUME NEW n \in DOMAIN lay, NEW i \in 0 .. L
      PROVE  v[<<n, i>>] = FromHere(lay, k, v, n, i)
  <2>1. L - i <= L
    BY <1>1
  <2> HIDE DEF L
  <2> QED
    BY <1>5, <2>1
<1>7. ASSUME NEW c \in D
      PROVE  v[c] = FromHere(lay, k, v, c[1], c[2])
  <2>1. c[1] \in DOMAIN lay /\ c[2] \in 0 .. L /\ c = <<c[1], c[2]>>
    BY PlacesAre
  <2> QED
    BY <1>6, <2>1
<1>8. v = [c \in D |-> FromHere(lay, k, v, c[1], c[2])]
  <2> HIDE DEF D
  <2> QED
    BY <1>5, <1>7
<1> QED
  BY <1>8 DEF Follows

\* Where the calls of put end, and what is left of the key there.
EndsAt(lay, lev, reg, k, c) ==
    \E n \in DOMAIN lay : /\ c = [index |-> n, key |-> Cut(k, lev[n])] /\ k \in reg[n]
                          /\ Onward(lay, n, Cut(k, lev[n])) = NULL

LEMMA LinksClosed ==
    ASSUME NEW lay \in Seq(Relations), NEW lev, NEW reg, Tree(lay, lev, reg), NEW k
    PROVE  Closed(lay, k)
<1>1. ASSUME NEW n \in DOMAIN lay, NEW i \in 0 .. Len(k), Onward(lay, n, Cut(k, i)) # NULL
      PROVE  Onward(lay, n, Cut(k, i)) \in DOMAIN lay
  <2>1. PICK s : s = Slice(Cut(k, i))
    OBVIOUS
  <2>2. Onward(lay, n, Cut(k, i)) = LinkAt(lay[n], s) /\ s \in DOMAIN lay[n]
    BY <1>1, <2>1 DEF Onward, LinkAt
  <2>3. s \in Slices
    BY <2>2, RelationIs, ElementOfSeq, LenProperties
  <2> QED
    BY <1>1, <2>2, <2>3 DEF Tree, LinksLead, LeadsTo
<1> QED
  BY <1>1 DEF Closed

LedTo(lay, lev, reg, k, v, n, i) == n \in DOMAIN lay /\ k \in reg[n] /\ lev[n] = i /\ v[<<1, 0>>] = v[<<n, i>>]

LEMMA FollowEnds ==
    ASSUME NEW lay \in Seq(Relations), NEW lev, NEW reg, Tree(lay, lev, reg), NEW k \in Strings,
           NEW v, Follows(lay, k, v, v)
    PROVE  EndsAt(lay, lev, reg, k, v[<<1, 0>>])
<1> DEFINE S == {i \in 0 .. Len(k) : \E n : LedTo(lay, lev, reg, k, v, n, i)}
<1>1. Len(k) \in Nat
  BY AreStrings
<1>2. 0 \in S
  <2>1. LedTo(lay, lev, reg, k, v, 1, 0)
    BY DEF Tree, Rooted, LedTo
  <2> QED
    BY <1>1, <2>1
<1>3. ASSUME ~EndsAt(lay, lev, reg, k, v[<<1, 0>>]), NEW i \in 0 .. Len(k), i \in S
      PROVE  i # Len(k) /\ i + 1 \in S
  <2>0. PICK n : LedTo(lay, lev, reg, k, v, n, i)
    BY <1>3
  <2>1. n \in DOMAIN lay /\ k \in reg[n] /\ lev[n] = i /\ v[<<1, 0>>] = v[<<n, i>>]
    BY <2>0 DEF LedTo
  <2>2. PICK p : p = Cut(k, i)
    OBVIOUS
  <2>3. p \in Strings /\ i \in Nat
    BY <2>1, <2>2, SliceOfCut
  <2>4. v[<<n, i>>] = FromHere(lay, k, v, n, i)
    BY <2>1, FollowsIs
  <2>5. Onward(lay, n, p) # NULL
    BY <1>3, <2>1, <2>2, <2>4 DEF EndsAt, FromHere
  <2>6. PICK m : m = Onward(lay, n, p)
    OBVIOUS
  <2>7. ~EndsHere(p) /\ m = LinkAt(lay[n], Slice(p)) /\ m # NULL /\ Slice(p) \in Slices
    BY <2>3, <2>5, <2>6, RestIs DEF Onward
  <2>8. LeadsTo(lay, lev, reg, n, Slice(p), m)
    BY <2>1, <2>7 DEF Tree, LinksLead
  <2>9. m \in DOMAIN lay /\ k \in reg[m] /\ lev[m] = i + 1
    BY <2>1, <2>2, <2>3, <2>7, <2>8 DEF LeadsTo, Below
  <2>10. v[<<1, 0>>] = v[<<m, i + 1>>]
    BY <2>1, <2>2, <2>4, <2>5, <2>6 DEF FromHere
  <2>11. i # Len(k)
    BY <2>2, <2>7, LevelEnds
  <2>12. LedTo(lay, lev, reg, k, v, m, i + 1)
    BY <2>9, <2>10 DEF LedTo
  <2>13. i + 1 \in 0 .. Len(k)
    BY <1>1, <2>11
  <2> QED
    BY <2>11, <2>12, <2>13
<1> HIDE DEF S
<1>4. ASSUME ~EndsAt(lay, lev, reg, k, v[<<1, 0>>]) PROVE FALSE
  <2> DEFINE T == {j \in Nat : j \in S}
  <2>1. ASSUME NEW j \in Nat, j \in T PROVE j + 1 \in T
    <3>1. j \in 0 .. Len(k)
      BY <2>1 DEF S
    <3> QED
      BY <1>3, <1>4, <2>1, <3>1
  <2>2. 0 \in T
    BY <1>2
  <2> HIDE DEF T
  <2>3. Len(k) \in T
    BY <1>1, <2>1, <2>2, IxInduction
  <2> QED
    BY <1>1, <1>3, <1>4, <2>3 DEF T
<1> QED
  BY <1>4

LEMMA LastCallIs ==
    ASSUME indices \in Seq(Relations), NEW lev, NEW reg, Tree(indices, lev, reg), NEW k \in Strings
    PROVE  EndsAt(indices, lev, reg, k, Index!lastCall(k))
<1> DEFINE Is(v) == v = [c \in (DOMAIN indices) \X (0 .. Len(k)) |->
                           LET key0   == Index!Cut(k, c[2])
                               index == Index!subindex(c[1], key0)
                           IN  IF index = NULL THEN [index |-> c[1], key |-> key0] ELSE v[<<index, c[2] + 1>>]]
<1>1. Index!lastCall(k) = (CHOOSE v : Is(v))[<<1, 0>>]
  BY DEF Index!lastCall
<1>2. ASSUME NEW v PROVE Is(v) <=> Follows(indices, k, v, v)
  <2> DEFINE e1(c) == LET key0   == Index!Cut(k, c[2])
                          index == Index!subindex(c[1], key0)
                      IN  IF index = NULL THEN [index |-> c[1], key |-> key0] ELSE v[<<index, c[2] + 1>>]
  <2>1. ASSUME NEW c PROVE e1(c) = FromHere(indices, k, v, c[1], c[2])
    BY SubindexIs, SameOperators DEF FromHere
  <2>2. PICK D : D = (DOMAIN indices) \X (0 .. Len(k))
    OBVIOUS
  <2>3. D = Places(DOMAIN indices, 0 .. Len(k))
    BY <2>2 DEF Places
  <2>4. Is(v) <=> v = [c \in D |-> e1(c)]
    BY <2>2
  <2> HIDE DEF e1
  <2>5. [c \in D |-> e1(c)] = [c \in D |-> FromHere(indices, k, v, c[1], c[2])]
    BY <2>1
  <2> HIDE DEF Is
  <2> QED
    BY <2>3, <2>4, <2>5 DEF Follows
<1>3. PICK v : Is(v) /\ Index!lastCall(k) = v[<<1, 0>>]
  <2>1. \E v : Follows(indices, k, v, v)
    BY LinksClosed, FollowExists
  <2> QED
    BY <1>1, <1>2, <2>1
<1> HIDE DEF Is
<1>4. Follows(indices, k, v, v)
  BY <1>2, <1>3
<1>5. EndsAt(indices, lev, reg, k, v[<<1, 0>>])
  BY <1>4, FollowEnds
<1> QED
  BY <1>3, <1>5

-----------------------------------------------------------------------------
(* What is stored. *)

Found(lay, lev, n, k) == Look(lay[n], Cut(k, lev[n]))

\* The layers have the values of f and no others.
Sound(lay, lev, reg, f) ==
    \A n \in DOMAIN lay : \A k \in reg[n] :
       Found(lay, lev, n, k) # NULL => k \in DOMAIN f /\ f[k] = Found(lay, lev, n, k)
Complete(lay, lev, reg, f) ==
    \A k \in DOMAIN f : \E n \in DOMAIN lay : k \in reg[n] /\ Found(lay, lev, n, k) # NULL

\* A suffix is what is left of some key.
Owns(lay, lev, reg, n, s, k) ==
    /\ k \in reg[n] /\ Slice(Cut(k, lev[n])) = s /\ ~EndsHere(Cut(k, lev[n]))
    /\ lay[n][s].keySuffix = Rest(Cut(k, lev[n]))
Owned(lay, lev, reg) ==
    \A n \in DOMAIN lay : \A s \in DOMAIN lay[n] : HasSuffix(lay[n][s]) => \E k \in Strings : Owns(lay, lev, reg, n, s, k)

Stores(lay, lev, reg, f) ==
    /\ lay \in Seq(Relations) /\ Tree(lay, lev, reg)
    /\ Sound(lay, lev, reg, f) /\ Complete(lay, lev, reg, f) /\ Owned(lay, lev, reg)

LEMMA InLayer ==
    ASSUME NEW lay \in Seq(Relations), NEW n \in DOMAIN lay
    PROVE  lay[n] \in Relations
BY ElementOfSeq, LenProperties

LEMMA HeldIs ==
    ASSUME NEW lev, NEW reg, Stores(indices, lev, reg, map), NEW k \in Strings
    PROVE  Held(Index!lastCall(k)) = Contents(k)
<1>1. PICK c : c = Index!lastCall(k)
  OBVIOUS
<1>2. indices \in Seq(Relations) /\ Tree(indices, lev, reg)
  BY DEF Stores
<1>3. EndsAt(indices, lev, reg, k, c)
  BY <1>1, <1>2, LastCallIs
<1>4. PICK n \in DOMAIN indices : /\ c = [index |-> n, key |-> Cut(k, lev[n])] /\ k \in reg[n]
                                 /\ Onward(indices, n, Cut(k, lev[n])) = NULL
  BY <1>3 DEF EndsAt
<1>5. PICK p \in Strings : p = Cut(k, lev[n])
  BY <1>2, <1>4, SliceOfCut
<1>6. c.index = n /\ c.key = p
  BY <1>4, <1>5
<1>7. Held(c) = ValueIn(Old(indices[n], Slice(p)), p)
  BY <1>6, OldIs, SameOperators DEF Held, ValueIn
<1>8. ValueIn(Old(indices[n], Slice(p)), p) = Look(indices[n], p)
  BY NewIsBorderNode DEF Old, Look
<1>9. Held(c) = Found(indices, lev, n, k)
  BY <1>5, <1>7, <1>8 DEF Found
<1>10. CASE k \in DOMAIN map
  <2>1. PICK m \in DOMAIN indices : k \in reg[m] /\ Found(indices, lev, m, k) # NULL
    BY <1>10 DEF Stores, Complete
  <2>2. EndsHere(Cut(k, lev[n])) \/ LinkAt(indices[n], Slice(Cut(k, lev[n]))) = NULL
    BY <1>4 DEF Onward
  <2>3. Look(indices[m], Cut(k, lev[m])) # NULL
    BY <2>1 DEF Found
  <2>4. m = n
    BY <1>2, <1>4, <2>1, <2>2, <2>3, NotLedOn
  <2> QED
    BY <1>1, <1>4, <1>9, <1>10, <2>1, <2>4 DEF Stores, Sound, Contents
<1>11. CASE k \notin DOMAIN map
  <2>1. Found(indices, lev, n, k) = NULL
    BY <1>4, <1>11 DEF Stores, Sound
  <2> QED
    BY <1>1, <1>9, <1>11, <2>1 DEF Contents
<1> QED
  BY <1>10, <1>11

\* f with v for k.
With(f, k, v) == [x \in DOMAIN f \cup {k} |-> IF x = k THEN v ELSE f[x]]

\* Keys of one region are told apart by what is left of them.
LEMMA ApartByRest ==
    ASSUME NEW lay, NEW lev, NEW reg, Tree(lay, lev, reg), NEW n \in DOMAIN lay, NEW k \in reg[n], NEW m \in reg[n],
           Cut(k, lev[n]) = Cut(m, lev[n])
    PROVE  k = m
<1>1. lev[n] \in Nat /\ k \in Strings /\ m \in Strings /\ Cut(k, lev[n]) \in Strings
  BY SliceOfCut
<1>2. Same(k, m, lev[n])
  BY DEF Tree, Regions
<1> QED
  BY <1>1, <1>2, SameAndCut

\* lay2 is lay with v for p, for which there is room, in layer c.
PutAt(lay, c, p, v, lay2) ==
    LET bn == Old(lay[c], Slice(p))
    IN  /\ EndsHere(p) \/ ~HasSuffix(bn) \/ bn.keySuffix = Rest(p)
        /\ lay2 = [lay EXCEPT ![c] = Record(lay[c], Slice(p), SetValue(bn, p, v))]

LEMMA StoresOne ==
    ASSUME NEW lay, NEW lev, NEW reg, NEW f, Stores(lay, lev, reg, f),
           NEW k \in Strings, NEW v \in Values, NEW c \in DOMAIN lay, k \in reg[c],
           NEW p, p = Cut(k, lev[c]), Onward(lay, c, p) = NULL, NEW lay2, PutAt(lay, c, p, v, lay2)
    PROVE  Stores(lay2, lev, reg, With(f, k, v))
<1>0. PICK s, bn, r : /\ s = Slice(p) /\ bn = Old(lay[c], s) /\ r = Record(lay[c], s, SetValue(bn, p, v))
                      /\ EndsHere(p) \/ ~HasSuffix(bn) \/ bn.keySuffix = Rest(p)
                      /\ lay2 = [lay EXCEPT ![c] = r]
  BY DEF PutAt
<1>1. lay \in Seq(Relations) /\ Tree(lay, lev, reg) /\ lay[c] \in Relations
  BY InLayer DEF Stores
<1>2. p \in Strings /\ s \in Slices
  BY <1>0, <1>1, SliceOfCut
<1>3. HasRoom(bn, p)
  <2>1. ~EndsHere(p) => GetLink(bn) = NULL
    BY <1>0, NewIsBorderNode DEF Onward, LinkAt, Old
  <2> QED
    BY <1>0, <2>1 DEF HasRoom
<1>4. PICK rs \in Relations : rs = lay[c]
  BY <1>1
<1>5. OnlyPuts(rs, r, p, v)
  BY <1>0, <1>2, <1>3, <1>4, PutsOne
<1>6. r \in Relations /\ (\A t : LinkAt(r, t) = LinkAt(rs, t)) /\ Look(r, p) = v
  BY <1>5 DEF OnlyPuts
<1>7. /\ lay2 \in Seq(Relations) /\ DOMAIN lay2 = DOMAIN lay /\ lay2[c] = r
      /\ \A n \in DOMAIN lay : n # c => lay2[n] = lay[n]
  BY <1>0, <1>1, <1>6, SetRecords
<1>8. Tree(lay2, lev, reg)
  <2>1. \A n \in DOMAIN lay : \A t : LinkAt(lay2[n], t) = LinkAt(lay[n], t)
    BY <1>4, <1>6, <1>7
  <2> QED
    BY <1>1, <1>7, <2>1, SameLinks
<1>9. PICK g : g = With(f, k, v)
  OBVIOUS
<1>10. DOMAIN g = DOMAIN f \cup {k} /\ g[k] = v /\ \A x \in DOMAIN f : x # k => g[x] = f[x]
  BY <1>9 DEF With
<1>11. v # NULL
  BY NullIsNoOther
<1>12. ASSUME NEW n \in DOMAIN lay, NEW h \in reg[n], h # k
       PROVE  Found(lay2, lev, n, h) = Found(lay, lev, n, h)
  <2>1. CASE n = c
    <3>1. PICK q \in Strings : q = Cut(h, lev[n])
      BY <1>1, SliceOfCut
    <3>2. q # p
      BY <1>1, <1>12, <2>1, <3>1, ApartByRest
    <3>3. Look(r, q) = Look(rs, q)
      BY <1>5, <3>2 DEF OnlyPuts
    <3> QED
      BY <1>4, <1>7, <2>1, <3>1, <3>3 DEF Found
  <2>2. CASE n # c
    BY <1>7, <2>2 DEF Found
  <2> QED
    BY <2>1, <2>2
<1>13. ASSUME NEW n \in DOMAIN lay, k \in reg[n], Found(lay2, lev, n, k) # NULL
       PROVE  n = c
  <2>1. Look(lay2[n], Cut(k, lev[n])) # NULL
    BY <1>13 DEF Found
  <2>2. Look(lay2[c], Cut(k, lev[c])) # NULL
    BY <1>6, <1>7, <1>11
  <2>3. n \in DOMAIN lay2 /\ c \in DOMAIN lay2 /\ k \in reg[n] /\ k \in reg[c]
    BY <1>7, <1>13
  <2> QED
    BY <1>8, <2>1, <2>2, <2>3, OnlyHere
<1>14. Found(lay2, lev, c, k) = v
  BY <1>6, <1>7 DEF Found
<1>15. Sound(lay2, lev, reg, g)
  <2>1. ASSUME NEW n \in DOMAIN lay, NEW h \in reg[n], Found(lay2, lev, n, h) # NULL
        PROVE  h \in DOMAIN g /\ g[h] = Found(lay2, lev, n, h)
    <3>1. CASE h = k
      BY <1>10, <1>13, <1>14, <2>1, <3>1
    <3>2. CASE h # k
      <4>1. Found(lay, lev, n, h) = Found(lay2, lev, n, h)
        BY <1>12, <3>2
      <4>2. h \in DOMAIN f /\ f[h] = Found(lay, lev, n, h)
        BY <2>1, <4>1 DEF Stores, Sound
      <4> QED
        BY <1>10, <3>2, <4>1, <4>2
    <3> QED
      BY <3>1, <3>2
  <2> QED
    BY <1>7, <2>1 DEF Sound
<1>16. Complete(lay2, lev, reg, g)
  <2>1. ASSUME NEW h \in DOMAIN g
        PROVE  \E n \in DOMAIN lay : h \in reg[n] /\ Found(lay2, lev, n, h) # NULL
    <3>1. CASE h = k
      BY <1>11, <1>14, <3>1
    <3>2. CASE h # k
      <4>1. PICK n \in DOMAIN lay : h \in reg[n] /\ Found(lay, lev, n, h) # NULL
        BY <1>10, <3>2 DEF Stores, Complete
      <4> QED
        BY <1>12, <3>2, <4>1
    <3> QED
      BY <3>1, <3>2
  <2> QED
    BY <1>7, <2>1 DEF Complete
<1>17. Owned(lay2, lev, reg)
  <2>1. ASSUME NEW n \in DOMAIN lay, NEW t \in DOMAIN lay2[n], HasSuffix(lay2[n][t])
        PROVE  \E h \in Strings : Owns(lay2, lev, reg, n, t, h)
    <3>1. CASE t \in DOMAIN lay[n] /\ HasSuffix(lay[n][t]) /\ lay2[n][t].keySuffix = lay[n][t].keySuffix
      <4>1. PICK h \in Strings : Owns(lay, lev, reg, n, t, h)
        BY <3>1 DEF Stores, Owned
      <4> QED
        BY <3>1, <4>1 DEF Owns
    <3>2. CASE n = c /\ t = s /\ ~EndsHere(p) /\ lay2[n][t].keySuffix = Rest(p)
      BY <1>0, <3>2 DEF Owns
    <3>3. CASE n # c
      BY <1>7, <2>1, <3>1, <3>3
    <3>4. CASE n = c
      <4>1. \/ t \in DOMAIN rs /\ HasSuffix(rs[t]) /\ r[t].keySuffix = rs[t].keySuffix
            \/ t = Slice(p) /\ ~EndsHere(p) /\ r[t].keySuffix = Rest(p)
        BY <1>5, <1>7, <2>1, <3>4 DEF OnlyPuts
      <4> QED
        BY <1>0, <1>4, <1>7, <3>1, <3>2, <3>4, <4>1
    <3> QED
      BY <3>3, <3>4
  <2> QED
    BY <1>7, <2>1 DEF Owned
<1> QED
  BY <1>7, <1>8, <1>9, <1>15, <1>16, <1>17 DEF Stores

-----------------------------------------------------------------------------
(* create_pair *)

LEMMA DepthIs ==
    ASSUME NEW p1 \in Strings, NEW p2 \in Strings, NEW d, d = Index!depth(p1, p2)
    PROVE  /\ d \in Nat /\ Index!Parts(Cut(p1, d), Cut(p2, d))
           /\ \A i \in 0 .. d - 1 : ~Index!Parts(Cut(p1, i), Cut(p2, i))
<1> DEFINE P(i) == Index!Parts(Cut(p1, i), Cut(p2, i))
           T == {i \in Nat : P(i)}
<1>1. PICK l \in Nat : l = Len(p1)
  BY AreStrings
<1>2. P(l)
  BY <1>1, LevelEnds, SameOperators DEF Index!Parts
<1>3. \E x \in T : \A y \in T : ~(<<y, x>> \in OpToRel(<, Nat))
  <2>1. T # {} /\ T \subseteq Nat
    BY <1>2
  <2> HIDE DEF T
  <2> QED
    BY <2>1, NatLessThanWellFounded, WFMin, Zenon
<1>4. PICK x \in T : \A y \in T : ~(y < x)
  BY <1>3 DEF OpToRel
<1>5. x \in 0 .. l
  BY <1>1, <1>2, <1>4
<1>6. \A i \in 0 .. x - 1 : ~P(i)
  BY <1>4, <1>5
<1>7. d = CHOOSE e \in 0 .. Len(p1) : P(e) /\ \A i \in 0 .. e - 1 : ~P(i)
  BY SameOperators DEF Index!depth
<1>8. P(x) /\ x \in 0 .. Len(p1)
  BY <1>1, <1>4, <1>5
<1> HIDE DEF P
<1>9. d \in 0 .. Len(p1) /\ P(d) /\ \A i \in 0 .. d - 1 : ~P(i)
  BY <1>6, <1>7, <1>8
<1>10. d \in Nat
  BY <1>1, <1>9
<1> QED
  BY <1>9, <1>10 DEF P

\* What is there for two keys that part in this slice.
BothIn(r, p1, p2, v1, v2) ==
    /\ r \in Relations /\ (\A t : LinkAt(r, t) = NULL)
    /\ Look(r, p1) = v1 /\ Look(r, p2) = v2
    /\ \A q \in Strings : q # p1 /\ q # p2 => Look(r, q) = NULL
    /\ \A t \in DOMAIN r : HasSuffix(r[t]) =>
          \/ t = Slice(p1) /\ ~EndsHere(p1) /\ r[t].keySuffix = Rest(p1)
          \/ t = Slice(p2) /\ ~EndsHere(p2) /\ r[t].keySuffix = Rest(p2)

LEMMA LastIs ==
    ASSUME NEW p1 \in Strings, NEW p2 \in Strings, p1 # p2, Index!Parts(p1, p2), NEW v1 \in Values, NEW v2 \in Values,
           NEW r, r = Index!lastIndex(p1, p2, v1, v2)
    PROVE  BothIn(r, p1, p2, v1, v2)
<1>1. NoRecords \in Relations /\ DOMAIN NoRecords = {} /\ (\A q : Look(NoRecords, q) = NULL) /\ \A t : LinkAt(NoRecords, t) = NULL
  BY NoneIsARelation
<1>2. /\ NewBorderNode \in BorderNodes /\ ~HasSuffix(NewBorderNode) /\ GetLink(NewBorderNode) = NULL
      /\ \A q \in Strings : ValueIn(NewBorderNode, q) = NULL
  BY NewIsBorderNode
<1>3. PICK s1 \in Slices, s2 \in Slices : s1 = Slice(p1) /\ s2 = Slice(p2)
  BY RestIs
<1>4. CASE s1 # s2
  <2>1. PICK r2 : r2 = Record(NoRecords, s2, SetValue(NewBorderNode, p2, v2))
    OBVIOUS
  <2>2. r = Record(r2, s1, SetValue(NewBorderNode, p1, v1))
    BY <1>3, <1>4, <2>1, SameOperators DEF Index!lastIndex
  <2>3. OnlyPuts(NoRecords, r2, p2, v2)
    <3>1. Old(NoRecords, Slice(p2)) = NewBorderNode
      BY <1>1 DEF Old
    <3>2. HasRoom(Old(NoRecords, Slice(p2)), p2)
      BY <1>2, <3>1 DEF HasRoom
    <3>3. r2 = Record(NoRecords, Slice(p2), SetValue(Old(NoRecords, Slice(p2)), p2, v2))
      BY <1>3, <2>1, <3>1
    <3> QED
      BY <1>1, <3>2, <3>3, PutsOne
  <2>4. r2 \in Relations /\ DOMAIN r2 = {s2}
    <3>1. r2 \in Relations
      BY <2>3 DEF OnlyPuts
    <3> QED
      BY <1>1, <2>1, <3>1 DEF Record
  <2>5. OnlyPuts(r2, r, p1, v1)
    <3>1. Old(r2, Slice(p1)) = NewBorderNode
      BY <1>3, <1>4, <2>4 DEF Old
    <3>2. HasRoom(Old(r2, Slice(p1)), p1)
      BY <1>2, <3>1 DEF HasRoom
    <3>3. r = Record(r2, Slice(p1), SetValue(Old(r2, Slice(p1)), p1, v1))
      BY <1>3, <2>2, <3>1
    <3> QED
      BY <2>4, <3>2, <3>3, PutsOne
  <2>6. r \in Relations /\ (\A t : LinkAt(r, t) = NULL) /\ Look(r, p1) = v1 /\ Look(r, p2) = v2
    BY <1>1, <2>3, <2>5 DEF OnlyPuts
  <2>7. \A q \in Strings : q # p1 /\ q # p2 => Look(r, q) = NULL
    BY <1>1, <2>3, <2>5 DEF OnlyPuts
  <2>8. ASSUME NEW t \in DOMAIN r, HasSuffix(r[t])
        PROVE  \/ t = Slice(p1) /\ ~EndsHere(p1) /\ r[t].keySuffix = Rest(p1)
               \/ t = Slice(p2) /\ ~EndsHere(p2) /\ r[t].keySuffix = Rest(p2)
    <3>1. \/ t \in DOMAIN r2 /\ HasSuffix(r2[t]) /\ r[t].keySuffix = r2[t].keySuffix
          \/ t = Slice(p1) /\ ~EndsHere(p1) /\ r[t].keySuffix = Rest(p1)
      BY <2>5, <2>8 DEF OnlyPuts
    <3>2. t \in DOMAIN r2 /\ HasSuffix(r2[t]) => t = Slice(p2) /\ ~EndsHere(p2) /\ r2[t].keySuffix = Rest(p2)
      BY <1>1, <2>3 DEF OnlyPuts
    <3> QED
      BY <3>1, <3>2
  <2> QED
    BY <2>6, <2>7, <2>8 DEF BothIn
<1>5. CASE s1 = s2
  <2>1. PICK b1 : b1 = SetValue(NewBorderNode, p1, v1)
    OBVIOUS
  <2>2. PICK b2 : b2 = SetValue(b1, p2, v2)
    OBVIOUS
  <2>3. r = Record(NoRecords, s1, b2)
    BY <1>3, <1>5, <2>1, <2>2, SameOperators DEF Index!lastIndex
  <2>4. OnlyAdds(NewBorderNode, b1, p1, v1)
    <3>1. HasRoom(NewBorderNode, p1)
      BY <1>2 DEF HasRoom
    <3> QED
      BY <1>2, <2>1, <3>1, SetValueIs
  <2>5. EndsHere(p1) \/ EndsHere(p2)
    BY <1>3, <1>5, SameOperators DEF Index!Parts
  <2>6. b1 \in BorderNodes /\ GetLink(b1) = NULL /\ (EndsHere(p1) => ~HasSuffix(b1))
    BY <1>2, <2>4 DEF OnlyAdds
  <2>7. OnlyAdds(b1, b2, p2, v2)
    <3>1. HasRoom(b1, p2)
      BY <2>5, <2>6 DEF HasRoom
    <3> QED
      BY <2>2, <2>6, <3>1, SetValueIs
  <2>8. b2 \in BorderNodes /\ GetLink(b2) = NULL
    BY <2>6, <2>7 DEF OnlyAdds
  <2>9. r \in Relations /\ DOMAIN r = {s1} /\ r[s1] = b2
    <3>1. Recorded(NoRecords, s1, b2, r)
      BY <1>1, <2>3, <2>8, RecordsOne
    <3> QED
      BY <1>1, <3>1 DEF Recorded
  <2>10. \A t : LinkAt(r, t) = NULL
    BY <2>8, <2>9 DEF LinkAt
  <2>11. Look(r, p1) = v1 /\ Look(r, p2) = v2
    <3>1. ValueIn(b1, p1) = v1 /\ ValueIn(b2, p1) = ValueIn(b1, p1) /\ ValueIn(b2, p2) = v2
      BY <1>3, <1>5, <2>4, <2>7 DEF OnlyAdds
    <3> QED
      BY <1>3, <1>5, <2>9, <3>1 DEF Look
  <2>12. ASSUME NEW q \in Strings, q # p1, q # p2 PROVE Look(r, q) = NULL
    <3>1. Slice(q) = s1 => ValueIn(b2, q) = ValueIn(b1, q) /\ ValueIn(b1, q) = ValueIn(NewBorderNode, q)
      BY <1>3, <1>5, <2>4, <2>7, <2>12 DEF OnlyAdds
    <3> QED
      BY <1>2, <2>9, <3>1 DEF Look
  <2>13. ASSUME NEW t \in DOMAIN r, HasSuffix(r[t])
         PROVE  \/ t = Slice(p1) /\ ~EndsHere(p1) /\ r[t].keySuffix = Rest(p1)
                \/ t = Slice(p2) /\ ~EndsHere(p2) /\ r[t].keySuffix = Rest(p2)
    <3>1. t = s1 /\ HasSuffix(b2) /\ r[t] = b2
      BY <2>9, <2>13
    <3>2. \/ HasSuffix(b1) /\ b2.keySuffix = b1.keySuffix
          \/ ~EndsHere(p2) /\ b2.keySuffix = Rest(p2)
      BY <2>7, <3>1 DEF OnlyAdds
    <3>3. HasSuffix(b1) => ~EndsHere(p1) /\ b1.keySuffix = Rest(p1)
      BY <1>2, <2>4 DEF OnlyAdds
    <3> QED
      BY <1>3, <1>5, <3>1, <3>2, <3>3
  <2> QED
    BY <2>9, <2>10, <2>11, <2>12, <2>13 DEF BothIn
<1> QED
  BY <1>4, <1>5

\* An index with one link.
OnlyLinks(r, t, m) ==
    /\ r \in Relations /\ LinkAt(r, t) = m /\ (\A u : u # t => LinkAt(r, u) = NULL)
    /\ (\A q \in Strings : Look(r, q) = NULL) /\ \A u \in DOMAIN r : ~HasSuffix(r[u])

LEMMA LinkIs ==
    ASSUME NEW t \in Slices, NEW m \in Nat, NEW r, r = Record(NoRecords, t, SetLink(NewBorderNode, m))
    PROVE  OnlyLinks(r, t, m)
<1>1. NoRecords \in Relations /\ DOMAIN NoRecords = {}
  BY NoneIsARelation
<1>2. PICK b : b = SetLink(NewBorderNode, m)
  OBVIOUS
<1>3. /\ b \in BorderNodes /\ ~HasSuffix(b) /\ GetLink(b) = m
      /\ \A q \in Strings : ValueIn(b, q) = NULL
  BY <1>2, NewIsBorderNode, SetLinkIs
<1>4. r \in Relations /\ DOMAIN r = {t} /\ r[t] = b
  <2>1. Recorded(NoRecords, t, b, r)
    BY <1>1, <1>2, <1>3, RecordsOne
  <2> QED
    BY <1>1, <2>1 DEF Recorded
<1> QED
  BY <1>3, <1>4 DEF OnlyLinks, LinkAt, Look

-----------------------------------------------------------------------------
(* The layers that create_pair makes hang from one another, and both keys come to the last. *)

\* res is lay with b at slice s of layer c, d layers with one link each, and r at the end.
Chains(lay, res, c, s, b, d, p1, r) ==
    /\ DOMAIN lay = 1 .. Len(lay) /\ Len(lay) \in Nat /\ d \in Nat
    /\ res \in Seq(Relations) /\ DOMAIN res = 1 .. Len(lay) + d + 1
    /\ Recorded(lay[c], s, b, res[c]) /\ (\A n \in DOMAIN lay : n # c => res[n] = lay[n])
    /\ \A i \in 0 .. d - 1 : OnlyLinks(res[Len(lay) + i + 1], Slice(Cut(p1, i)), Len(lay) + i + 2)
    /\ res[Len(lay) + d + 1] = r

\* The part of it that ends with the layer after the first l + j ones, still empty.
Begun(res, l, j) == [n \in 1 .. l + j + 1 |-> IF n = l + j + 1 THEN NoRecords ELSE res[n]]

Starts(lay, res, m) == DOMAIN lay = 1 .. m /\ lay[m] = NoRecords /\ \A n \in 1 .. m - 1 : lay[n] = res[n]

LEMMA BegunIs ==
    ASSUME NEW res, NEW l \in Nat, NEW j \in Nat
    PROVE  Starts(Begun(res, l, j), res, l + j + 1)
<1>1. PICK m \in Nat : m = l + j + 1 /\ m > 0
  OBVIOUS
<1>2. Begun(res, l, j) = [n \in 1 .. m |-> IF n = m THEN NoRecords ELSE res[n]]
  BY <1>1 DEF Begun
<1>3. Starts(Begun(res, l, j), res, m)
  <2>1. m \in 1 .. m /\ \A n \in 1 .. m - 1 : n \in 1 .. m /\ n # m
    BY <1>1
  <2> QED
    BY <1>2, <2>1 DEF Starts
<1> QED
  BY <1>1, <1>3

\* k has been led to layer m, and p is left of it.
Comes(lev, reg, m, k, p) == k \in reg[m] /\ Cut(k, lev[m]) = p

\* A layer hangs from the last one.
LEMMA GrowOne ==
    ASSUME NEW lay, NEW lay2, NEW lev, NEW reg, Tree(lay, lev, reg), NEW c, NEW s, NEW m,
           NewLayer(lay, lay2, c, s, m),
           NEW k1, NEW k2, NEW q1, NEW q2, Comes(lev, reg, c, k1, q1), Comes(lev, reg, c, k2, q2),
           Slice(q1) = s, Slice(q2) = s, ~EndsHere(q1), ~EndsHere(q2)
    PROVE  \E lev2, reg2 : /\ Tree(lay2, lev2, reg2) /\ SameRegions(lay, lev, reg, lev2, reg2)
                           /\ Comes(lev2, reg2, m, k1, Rest(q1)) /\ Comes(lev2, reg2, m, k2, Rest(q2))
<1>1. c \in DOMAIN lay /\ k1 \in reg[c] /\ k2 \in reg[c] /\ q1 = Cut(k1, lev[c]) /\ q2 = Cut(k2, lev[c])
  BY DEF NewLayer, Comes
<1>2. Below(reg[c], lev[c], s) # {}
  BY <1>1 DEF Below
<1>3. PICK lev2, reg2 : /\ Tree(lay2, lev2, reg2) /\ SameRegions(lay, lev, reg, lev2, reg2)
                        /\ LeadsTo(lay2, lev2, reg2, c, s, m)
  BY <1>2, Grow
<1>4. c \in DOMAIN lay2 /\ lev2[c] = lev[c] /\ reg2[c] = reg[c]
  BY <1>1, <1>3 DEF NewLayer, SameRegions
<1>5. Comes(lev2, reg2, m, k1, Rest(q1))
  <2>1. k1 \in reg2[c] /\ q1 = Cut(k1, lev2[c]) /\ LeadsTo(lay2, lev2, reg2, c, Slice(q1), m)
    BY <1>1, <1>3, <1>4
  <2> QED
    BY <1>3, <1>4, <2>1, Follow DEF Comes
<1>6. Comes(lev2, reg2, m, k2, Rest(q2))
  <2>1. k2 \in reg2[c] /\ q2 = Cut(k2, lev2[c]) /\ LeadsTo(lay2, lev2, reg2, c, Slice(q2), m)
    BY <1>1, <1>3, <1>4
  <2> QED
    BY <1>3, <1>4, <2>1, Follow DEF Comes
<1> QED
  BY <1>3, <1>5, <1>6

Grown(lay, lev, reg, res, j, k1, k2, p1, p2) ==
    \E lev2, reg2 : /\ Tree(Begun(res, Len(lay), j), lev2, reg2) /\ SameRegions(lay, lev, reg, lev2, reg2)
                    /\ Comes(lev2, reg2, Len(lay) + j + 1, k1, Cut(p1, j))
                    /\ Comes(lev2, reg2, Len(lay) + j + 1, k2, Cut(p2, j))

LEMMA GrownFirst ==
    ASSUME NEW lay, NEW lev, NEW reg, Tree(lay, lev, reg), NEW res, NEW c \in DOMAIN lay, NEW s \in Slices, NEW b,
           NEW d, NEW p1 \in Strings, NEW p2 \in Strings, NEW r, Chains(lay, res, c, s, b, d, p1, r),
           GetLink(b) = Len(lay) + 1, LinkAt(lay[c], s) = NULL,
           NEW k1, NEW k2, NEW q1, NEW q2, Comes(lev, reg, c, k1, q1), Comes(lev, reg, c, k2, q2),
           Slice(q1) = s, Slice(q2) = s, ~EndsHere(q1), ~EndsHere(q2), Rest(q1) = p1, Rest(q2) = p2
    PROVE  Grown(lay, lev, reg, res, 0, k1, k2, p1, p2)
<1>1. PICK l \in Nat : l = Len(lay) /\ DOMAIN lay = 1 .. l
  BY DEF Chains
<1>2. PICK m \in Nat : m = l + 1 /\ m = l + 0 + 1
  BY <1>1
<1>3. PICK lay2 : lay2 = Begun(res, l, 0)
  OBVIOUS
<1>4. DOMAIN lay2 = 1 .. m /\ lay2[m] = NoRecords /\ \A n \in 1 .. m - 1 : lay2[n] = res[n]
  <2>1. Starts(Begun(res, l, 0), res, l + 0 + 1)
    BY BegunIs
  <2>2. Starts(lay2, res, m)
    BY <1>2, <1>3, <2>1
  <2> QED
    BY <2>2 DEF Starts
<1>5. \A n \in DOMAIN lay : lay2[n] = res[n] /\ n < m
  BY <1>1, <1>2, <1>4
<1>6. DOMAIN lay2 = DOMAIN lay \cup {m}
  BY <1>1, <1>2, <1>4
<1>7. /\ DOMAIN res[c] = DOMAIN lay[c] \cup {s} /\ res[c][s] = b /\ (\A t \in DOMAIN lay[c] : t # s => res[c][t] = lay[c][t])
      /\ \A n \in DOMAIN lay : n # c => res[n] = lay[n]
  BY DEF Chains, Recorded
<1>8. NewLayer(lay, lay2, c, s, m)
  <2>1. LinkAt(lay2[c], s) = m
    BY <1>1, <1>2, <1>5, <1>7 DEF LinkAt
  <2>2. \A t : LinkAt(lay2[m], t) = NULL
    BY <1>4, NoneIsARelation
  <2>3. ASSUME NEW n \in DOMAIN lay, NEW t \in Slices, n # c \/ t # s
        PROVE  LinkAt(lay2[n], t) = LinkAt(lay[n], t)
    BY <1>5, <1>7, <2>3 DEF LinkAt
  <2> QED
    BY <1>5, <1>6, <2>1, <2>2, <2>3 DEF NewLayer
<1>9. PICK lev2, reg2 : /\ Tree(lay2, lev2, reg2) /\ SameRegions(lay, lev, reg, lev2, reg2)
                        /\ Comes(lev2, reg2, m, k1, Rest(q1)) /\ Comes(lev2, reg2, m, k2, Rest(q2))
  BY <1>8, GrowOne
<1>10. Cut(p1, 0) = p1 /\ Cut(p2, 0) = p2
  BY WholeKey
<1> QED
  BY <1>1, <1>2, <1>3, <1>9, <1>10 DEF Grown

LEMMA GrownNext ==
    ASSUME NEW lay, NEW lev, NEW reg, NEW res, NEW c \in DOMAIN lay, NEW s, NEW b,
           NEW d, NEW p1 \in Strings, NEW p2 \in Strings, NEW r, Chains(lay, res, c, s, b, d, p1, r),
           NEW j \in 0 .. d - 1, ~Index!Parts(Cut(p1, j), Cut(p2, j)), NEW k1, NEW k2,
           Grown(lay, lev, reg, res, j, k1, k2, p1, p2)
    PROVE  Grown(lay, lev, reg, res, j + 1, k1, k2, p1, p2)
<1>1. PICK l \in Nat : l = Len(lay) /\ DOMAIN lay = 1 .. l /\ d \in Nat
  BY DEF Chains
<1>2. PICK m \in Nat : m = l + j + 1
  BY <1>1
<1>3. PICK i \in Nat : i = j + 1 /\ m + 1 = l + i + 1 /\ j \in Nat
  BY <1>1, <1>2
<1>4. PICK lay1, lay2 : lay1 = Begun(res, l, j) /\ lay2 = Begun(res, l, i)
  OBVIOUS
<1>5. DOMAIN lay1 = 1 .. m /\ lay1[m] = NoRecords /\ \A n \in 1 .. m - 1 : lay1[n] = res[n]
  <2>1. Starts(Begun(res, l, j), res, l + j + 1)
    BY <1>3, BegunIs
  <2>2. Starts(lay1, res, m)
    BY <1>2, <1>4, <2>1
  <2> QED
    BY <2>2 DEF Starts
<1>6. DOMAIN lay2 = 1 .. m + 1 /\ lay2[m + 1] = NoRecords /\ \A n \in 1 .. m : lay2[n] = res[n]
  <2>1. PICK h \in Nat : h = m + 1
    OBVIOUS
  <2>2. DOMAIN lay2 = 1 .. h /\ lay2[h] = NoRecords /\ \A n \in 1 .. h - 1 : lay2[n] = res[n]
    <3>1. Starts(Begun(res, l, i), res, l + i + 1)
      BY BegunIs
    <3>2. Starts(lay2, res, h)
      BY <1>3, <1>4, <2>1, <3>1
    <3> QED
      BY <3>2 DEF Starts
  <2>3. h - 1 = m
    BY <2>1
  <2> QED
    BY <2>1, <2>2, <2>3
<1>7. PICK q1, q2 : q1 = Cut(p1, j) /\ q2 = Cut(p2, j)
  OBVIOUS
<1>8. PICK lev1, reg1 : /\ Tree(lay1, lev1, reg1) /\ SameRegions(lay, lev, reg, lev1, reg1)
                        /\ Comes(lev1, reg1, m, k1, q1) /\ Comes(lev1, reg1, m, k2, q2)
  BY <1>1, <1>2, <1>4, <1>7 DEF Grown
<1>9. m \in DOMAIN lay1
  BY <1>2, <1>5, <1>3
<1>10. q1 \in Strings /\ q2 \in Strings
  BY <1>8, <1>9, SliceOfCut DEF Comes
<1>11. PICK t \in Slices : t = Slice(q1)
  BY <1>10, RestIs
<1>12. Slice(q2) = t /\ ~EndsHere(q1) /\ ~EndsHere(q2)
  BY <1>7, <1>11, SameOperators DEF Index!Parts
<1>13. OnlyLinks(res[m], t, m + 1)
  <2>1. l + j + 2 = m + 1
    BY <1>1, <1>2, <1>3
  <2> QED
    BY <1>1, <1>2, <1>7, <1>11, <2>1 DEF Chains
<1>14. NewLayer(lay1, lay2, m, t, m + 1)
  <2>1. LinkAt(lay1[m], t) = NULL /\ LinkAt(lay2[m], t) = m + 1
    BY <1>5, <1>6, <1>9, <1>13, NoneIsARelation DEF OnlyLinks
  <2>2. \A u : LinkAt(lay2[m + 1], u) = NULL
    BY <1>6, NoneIsARelation
  <2>3. ASSUME NEW n \in DOMAIN lay1, NEW u \in Slices, n # m \/ u # t
        PROVE  LinkAt(lay2[n], u) = LinkAt(lay1[n], u)
    <3>1. CASE n = m
      BY <1>5, <1>6, <1>9, <1>13, <2>3, <3>1, NoneIsARelation DEF OnlyLinks
    <3>2. CASE n # m
      BY <1>5, <1>6, <3>2
    <3> QED
      BY <3>1, <3>2
  <2>4. m + 1 \in Nat /\ (\A n \in DOMAIN lay1 : n < m + 1) /\ DOMAIN lay2 = DOMAIN lay1 \cup {m + 1}
    BY <1>5, <1>6
  <2> QED
    BY <1>9, <2>1, <2>2, <2>3, <2>4 DEF NewLayer
<1>15. PICK lev2, reg2 : /\ Tree(lay2, lev2, reg2) /\ SameRegions(lay1, lev1, reg1, lev2, reg2)
                         /\ Comes(lev2, reg2, m + 1, k1, Rest(q1)) /\ Comes(lev2, reg2, m + 1, k2, Rest(q2))
  <2>1. PICK h : h = m + 1
    OBVIOUS
  <2>2. NewLayer(lay1, lay2, m, t, h)
    BY <1>14, <2>1
  <2>3. \E lev2, reg2 : /\ Tree(lay2, lev2, reg2) /\ SameRegions(lay1, lev1, reg1, lev2, reg2)
                        /\ Comes(lev2, reg2, h, k1, Rest(q1)) /\ Comes(lev2, reg2, h, k2, Rest(q2))
    BY <1>8, <1>11, <1>12, <2>2, GrowOne
  <2> QED
    BY <2>1, <2>3
<1>16. SameRegions(lay, lev, reg, lev2, reg2)
  BY <1>1, <1>2, <1>3, <1>5, <1>8, <1>15 DEF SameRegions
<1>17. Cut(p1, i) = Rest(q1) /\ Cut(p2, i) = Rest(q2)
  BY <1>3, <1>7, <1>10, <1>12, CutFurther
<1> QED
  BY <1>1, <1>3, <1>4, <1>15, <1>16, <1>17 DEF Grown

LEMMA GrownLast ==
    ASSUME NEW lay, NEW lev, NEW reg, NEW res, NEW c \in DOMAIN lay, NEW s, NEW b,
           NEW d, NEW p1, NEW p2, NEW r, Chains(lay, res, c, s, b, d, p1, r), \A t : LinkAt(r, t) = NULL,
           NEW k1, NEW k2, Grown(lay, lev, reg, res, d, k1, k2, p1, p2)
    PROVE  \E lev2, reg2 : /\ Tree(res, lev2, reg2) /\ SameRegions(lay, lev, reg, lev2, reg2)
                           /\ Comes(lev2, reg2, Len(lay) + d + 1, k1, Cut(p1, d))
                           /\ Comes(lev2, reg2, Len(lay) + d + 1, k2, Cut(p2, d))
<1>1. PICK l \in Nat : l = Len(lay) /\ d \in Nat
  BY DEF Chains
<1>2. PICK m \in Nat : m = l + d + 1
  BY <1>1
<1>3. PICK lay1 : lay1 = Begun(res, l, d)
  OBVIOUS
<1>4. DOMAIN lay1 = 1 .. m /\ lay1[m] = NoRecords /\ \A n \in 1 .. m - 1 : lay1[n] = res[n]
  <2>1. Starts(Begun(res, l, d), res, l + d + 1)
    BY <1>1, BegunIs
  <2>2. Starts(lay1, res, m)
    BY <1>2, <1>3, <2>1
  <2> QED
    BY <2>2 DEF Starts
<1>5. DOMAIN res = DOMAIN lay1 /\ res[m] = r
  BY <1>1, <1>2, <1>4 DEF Chains
<1>6. ASSUME NEW n \in DOMAIN lay1, NEW t PROVE LinkAt(res[n], t) = LinkAt(lay1[n], t)
  <2>1. CASE n = m
    BY <1>4, <1>5, <2>1, NoneIsARelation
  <2>2. CASE n # m
    BY <1>4, <2>2
  <2> QED
    BY <2>1, <2>2
<1>7. PICK lev2, reg2 : /\ Tree(lay1, lev2, reg2) /\ SameRegions(lay, lev, reg, lev2, reg2)
                        /\ Comes(lev2, reg2, m, k1, Cut(p1, d)) /\ Comes(lev2, reg2, m, k2, Cut(p2, d))
  BY <1>1, <1>2, <1>3 DEF Grown
<1>8. Tree(res, lev2, reg2)
  BY <1>5, <1>6, <1>7, SameLinks
<1> QED
  BY <1>1, <1>2, <1>7, <1>8

NoneParts(p1, p2, d) == \A i \in 0 .. d - 1 : ~Index!Parts(Cut(p1, i), Cut(p2, i))

\* After i slices both keys go on, and differ.
GoOn(p1, p2, i) == Cut(p1, i) \in Strings /\ Cut(p2, i) \in Strings /\ Cut(p1, i) # Cut(p2, i)

LEMMA BothGoOn ==
    ASSUME NEW p1 \in Strings, NEW p2 \in Strings, p1 # p2, NEW d \in Nat, NoneParts(p1, p2, d)
    PROVE  \A i \in 0 .. d : GoOn(p1, p2, i)
<1> DEFINE S == {i \in Nat : i <= d => GoOn(p1, p2, i)}
<1>1. 0 \in S
  BY WholeKey DEF GoOn
<1>2. ASSUME NEW i \in Nat, i \in S PROVE i + 1 \in S
  <2>1. SUFFICES ASSUME i + 1 <= d PROVE GoOn(p1, p2, i + 1)
    OBVIOUS
  <2>2. i \in 0 .. d - 1 /\ i <= d
    BY <2>1
  <2>3. GoOn(p1, p2, i)
    BY <1>2, <2>2
  <2>4. PICK a \in Strings, b \in Strings : a = Cut(p1, i) /\ b = Cut(p2, i) /\ a # b
    BY <2>3 DEF GoOn
  <2>5. Slice(a) = Slice(b) /\ ~EndsHere(a) /\ ~EndsHere(b)
    BY <2>2, <2>4, SameOperators DEF NoneParts, Index!Parts
  <2>6. Cut(p1, i + 1) = Rest(a) /\ Cut(p2, i + 1) = Rest(b)
    BY <2>4, <2>5, CutFurther
  <2>7. Rest(a) \in Strings /\ Rest(b) \in Strings /\ Rest(a) # Rest(b)
    BY <2>4, <2>5, RestIs, SlicesAndRest
  <2> QED
    BY <2>6, <2>7 DEF GoOn
<1> HIDE DEF S
<1>3. Nat \subseteq S
  BY <1>1, <1>2, IxInduction
<1>4. ASSUME NEW i \in 0 .. d PROVE GoOn(p1, p2, i)
  <2>1. i \in S /\ i <= d
    BY <1>3
  <2> QED
    BY <2>1 DEF S
<1> QED
  BY <1>4

LEMMA GrowAll ==
    ASSUME NEW lay, NEW lev, NEW reg, Tree(lay, lev, reg), NEW res, NEW c \in DOMAIN lay, NEW s \in Slices, NEW b,
           NEW d \in Nat, NEW p1 \in Strings, NEW p2 \in Strings, NEW r, Chains(lay, res, c, s, b, d, p1, r),
           NoneParts(p1, p2, d), \A t : LinkAt(r, t) = NULL,
           GetLink(b) = Len(lay) + 1, LinkAt(lay[c], s) = NULL,
           NEW k1, NEW k2, NEW q1, NEW q2, Comes(lev, reg, c, k1, q1), Comes(lev, reg, c, k2, q2),
           Slice(q1) = s, Slice(q2) = s, ~EndsHere(q1), ~EndsHere(q2), Rest(q1) = p1, Rest(q2) = p2
    PROVE  \E lev2, reg2 : /\ Tree(res, lev2, reg2) /\ SameRegions(lay, lev, reg, lev2, reg2)
                           /\ Comes(lev2, reg2, Len(lay) + d + 1, k1, Cut(p1, d))
                           /\ Comes(lev2, reg2, Len(lay) + d + 1, k2, Cut(p2, d))
<1> DEFINE S == {j \in Nat : j <= d => Grown(lay, lev, reg, res, j, k1, k2, p1, p2)}
<1>1. 0 \in S
  <2>1. Grown(lay, lev, reg, res, 0, k1, k2, p1, p2)
    BY GrownFirst
  <2> QED
    BY <2>1
<1>2. ASSUME NEW j \in Nat, j \in S PROVE j + 1 \in S
  <2>1. SUFFICES ASSUME j + 1 <= d PROVE Grown(lay, lev, reg, res, j + 1, k1, k2, p1, p2)
    OBVIOUS
  <2>2. j \in 0 .. d - 1 /\ j <= d
    BY <2>1
  <2>3. Grown(lay, lev, reg, res, j, k1, k2, p1, p2)
    BY <1>2, <2>2
  <2>4. ~Index!Parts(Cut(p1, j), Cut(p2, j))
    BY <2>2 DEF NoneParts
  <2> QED
    BY <2>2, <2>3, <2>4, GrownNext
<1> HIDE DEF S
<1>3. d \in S
  BY <1>1, <1>2, IxInduction
<1>4. Grown(lay, lev, reg, res, d, k1, k2, p1, p2)
  BY <1>3 DEF S
<1> QED
  BY <1>4, GrownLast

LEMMA SameLength ==
    ASSUME NEW a \in Nat, NEW b \in Nat, 1 .. a = 1 .. b
    PROVE  a = b
<1>1. a > 0 => a \in 1 .. b
  <2>1. a > 0 => a \in 1 .. a
    OBVIOUS
  <2> QED
    BY <2>1
<1>2. b > 0 => b \in 1 .. a
  <2>1. b > 0 => b \in 1 .. b
    OBVIOUS
  <2> QED
    BY <2>1
<1> QED
  BY <1>1, <1>2

\* What is new hangs below the suffix that was in layer c.
LEMMA PairChains ==
    ASSUME indices \in Seq(Relations), NEW c \in DOMAIN indices, NEW s \in Slices, NEW bn \in BorderNodes,
           NEW p1 \in Strings, NEW p2 \in Strings, p1 # p2, NEW v1 \in Values, NEW v2 \in Values,
           NEW b, b = SetLink(bn, Len(indices) + 1),
           NEW res, res = [indices EXCEPT ![c] = Record(indices[c], s, b)] \o Index!create_pair(p1, p2, v1, v2)
    PROVE  \E d, r : /\ d \in Nat /\ Chains(indices, res, c, s, b, d, p1, r) /\ NoneParts(p1, p2, d)
                     /\ GoOn(p1, p2, d) /\ BothIn(r, Cut(p1, d), Cut(p2, d), v1, v2)
<1>1. PICK d : d = Index!depth(p1, p2)
  OBVIOUS
<1>2. d \in Nat /\ Index!Parts(Cut(p1, d), Cut(p2, d)) /\ NoneParts(p1, p2, d)
  BY <1>1, DepthIs DEF NoneParts
<1>3. \A i \in 0 .. d : GoOn(p1, p2, i)
  BY <1>2, BothGoOn
<1>4. GoOn(p1, p2, d)
  <2>1. d \in 0 .. d
    BY <1>2
  <2> QED
    BY <1>3, <2>1
<1>5. PICK r : r = Index!lastIndex(Cut(p1, d), Cut(p2, d), v1, v2)
  OBVIOUS
<1>6. BothIn(r, Cut(p1, d), Cut(p2, d), v1, v2)
  BY <1>2, <1>4, <1>5, LastIs DEF GoOn
<1>7. PICK L \in Nat : L = Len(indices) /\ DOMAIN indices = 1 .. L
  BY LenProperties
<1>8. PICK new : new = Index!create_pair(p1, p2, v1, v2)
  OBVIOUS
<1>9. new = [i \in 1 .. d + 1 |->
                IF i = d + 1 THEN r ELSE Record(NoRecords, Slice(Cut(p1, i - 1)), SetLink(NewBorderNode, L + i + 1))]
  BY <1>1, <1>5, <1>7, <1>8, SameOperators DEF Index!create_pair
<1>10. ASSUME NEW i \in 1 .. d
       PROVE  OnlyLinks(new[i], Slice(Cut(p1, i - 1)), L + i + 1)
  <2>1. i - 1 \in 0 .. d /\ L + i + 1 \in Nat /\ i \in 1 .. d + 1 /\ i # d + 1
    BY <1>2
  <2>2. PICK t \in Slices : t = Slice(Cut(p1, i - 1))
    BY <1>3, <2>1, RestIs DEF GoOn
  <2>3. PICK m \in Nat : m = L + i + 1
    BY <2>1
  <2>4. new[i] = Record(NoRecords, t, SetLink(NewBorderNode, m))
    BY <1>9, <2>1, <2>2, <2>3
  <2>5. OnlyLinks(new[i], t, m)
    BY <2>4, LinkIs
  <2> QED
    BY <2>2, <2>3, <2>5
<1>11. new[d + 1] = r /\ DOMAIN new = 1 .. d + 1
  BY <1>2, <1>9
<1>12. PICK e \in Nat : e = d + 1
  BY <1>2
<1>13. new \in Seq(Relations) /\ Len(new) = e
  <2>1. ASSUME NEW i \in 1 .. e PROVE new[i] \in Relations
    <3>1. CASE i = e
      BY <1>6, <1>11, <1>12, <3>1 DEF BothIn
    <3>2. CASE i # e
      <4>1. i \in 1 .. d
        BY <1>2, <1>12, <3>2
      <4> QED
        BY <1>10, <4>1 DEF OnlyLinks
    <3> QED
      BY <3>1, <3>2
  <2>2. new = [i \in 1 .. e |-> new[i]]
    BY <1>9, <1>12
  <2>3. new \in [1 .. e -> Relations]
    BY <2>1, <2>2
  <2>4. new \in Seq(Relations)
    BY <2>3, SeqDef
  <2>5. Len(new) \in Nat /\ 1 .. Len(new) = 1 .. e
    BY <2>3, <2>4, LenProperties
  <2>6. Len(new) = e
    BY <2>5, SameLength
  <2> QED
    BY <2>4, <2>6
<1>14. PICK lay2 : lay2 = [indices EXCEPT ![c] = Record(indices[c], s, b)]
  OBVIOUS
<1>15. PICK rc : rc = Record(indices[c], s, b)
  OBVIOUS
<1>16. Recorded(indices[c], s, b, rc)
  <2>1. b \in BorderNodes
    BY <1>7, SetLinkIs
  <2>2. indices[c] \in Relations
    BY InLayer
  <2> QED
    BY <1>15, <2>1, <2>2, RecordsOne
<1>17. /\ lay2 \in Seq(Relations) /\ DOMAIN lay2 = DOMAIN indices /\ lay2[c] = rc
       /\ \A n \in DOMAIN indices : n # c => lay2[n] = indices[n]
  <2>1. rc \in Relations
    BY <1>16 DEF Recorded
  <2> QED
    BY <1>14, <1>15, <2>1, SetRecords
<1>18. Len(lay2) = L
  BY <1>7, <1>17, LenProperties
<1>19. res = lay2 \o new
  BY <1>8, <1>14
<1>20. /\ res \in Seq(Relations) /\ Len(res) = L + e
       /\ \A i \in 1 .. L + e : res[i] = IF i <= L THEN lay2[i] ELSE new[i - L]
  <2>1. /\ lay2 \o new \in Seq(Relations) /\ Len(lay2 \o new) = Len(lay2) + Len(new)
        /\ \A i \in 1 .. Len(lay2) + Len(new) :
              (lay2 \o new)[i] = IF i <= Len(lay2) THEN lay2[i] ELSE new[i - Len(lay2)]
    BY <1>13, <1>17, ConcatProperties
  <2> QED
    BY <1>13, <1>18, <1>19, <2>1
<1>21. DOMAIN res = 1 .. L + d + 1
  <2>1. L + e = L + d + 1
    BY <1>2, <1>12
  <2> QED
    BY <1>20, <2>1, LenProperties
<1>22. \A n \in DOMAIN indices : res[n] = lay2[n]
  BY <1>7, <1>12, <1>20
<1>23. ASSUME NEW i \in 0 .. d - 1
       PROVE  OnlyLinks(res[L + i + 1], Slice(Cut(p1, i)), L + i + 2)
  <2>1. PICK j \in 1 .. d : j = i + 1
    BY <1>2
  <2>2. L + i + 1 = L + j /\ L + i + 2 = L + j + 1 /\ j - 1 = i
    BY <2>1
  <2>3. res[L + j] = new[j]
    <3>1. L + j \in 1 .. L + e /\ ~(L + j <= L) /\ L + j - L = j
      BY <1>2, <1>12
    <3> QED
      BY <1>20, <3>1
  <2> QED
    BY <1>10, <2>2, <2>3
<1>24. res[L + d + 1] = r
  <2>1. PICK x \in Nat : x = L + d + 1
    BY <1>2
  <2>2. x \in 1 .. L + e /\ ~(x <= L) /\ x - L = d + 1
    BY <1>2, <1>12, <2>1
  <2>3. res[x] = new[d + 1]
    BY <1>20, <2>2
  <2> QED
    BY <1>11, <2>1, <2>3
<1>25. Chains(indices, res, c, s, b, d, p1, r)
  <2>1. Recorded(indices[c], s, b, res[c]) /\ \A n \in DOMAIN indices : n # c => res[n] = indices[n]
    BY <1>16, <1>17, <1>22
  <2> QED
    BY <1>2, <1>7, <1>20, <1>21, <1>23, <1>24, <2>1 DEF Chains
<1> QED
  BY <1>2, <1>4, <1>6, <1>25

-----------------------------------------------------------------------------
(* A put keeps what is stored and adds its value. *)

\* What gives way to a link in layer c.
LEMMA LookLinked ==
    ASSUME NEW records \in Relations, NEW s \in Slices, NEW bn \in BorderNodes, NEW m \in Nat,
           s \in DOMAIN records, bn = records[s], NEW r, Recorded(records, s, SetLink(bn, m), r), NEW q \in Strings
    PROVE  \/ Look(r, q) = Look(records, q)
           \/ /\ Slice(q) = s /\ ~EndsHere(q) /\ Look(r, q) = NULL
              /\ Look(records, q) # NULL => bn.keySuffix = Rest(q)
<1>1. PICK b : b = SetLink(bn, m)
  OBVIOUS
<1>2. ValueIn(b, q) = IF EndsHere(q) THEN ValueIn(bn, q) ELSE NULL
  BY <1>1, SetLinkIs
<1>3. CASE Slice(q) # s
  BY <1>3 DEF Recorded, Look
<1>4. CASE Slice(q) = s
  <2>1. Look(r, q) = ValueIn(b, q) /\ Look(records, q) = ValueIn(bn, q)
    BY <1>1, <1>4 DEF Recorded, Look
  <2> QED
    BY <1>2, <1>4, <2>1 DEF ValueIn
<1> QED
  BY <1>3, <1>4

LEMMA StoresPair ==
    ASSUME NEW lay, NEW lev, NEW reg, NEW f, Stores(lay, lev, reg, f),
           NEW k \in Strings, NEW v \in Values, NEW c \in DOMAIN lay, k \in reg[c],
           NEW p, p = Cut(k, lev[c]), NEW s, s = Slice(p), NEW bn, s \in DOMAIN lay[c], bn = lay[c][s],
           ~EndsHere(p), HasSuffix(bn), bn.keySuffix # Rest(p),
           NEW b, b = SetLink(bn, Len(lay) + 1), NEW d \in Nat, NEW r, NEW res,
           Chains(lay, res, c, s, b, d, Rest(p), r), NoneParts(Rest(p), bn.keySuffix, d),
           GoOn(Rest(p), bn.keySuffix, d),
           BothIn(r, Cut(Rest(p), d), Cut(bn.keySuffix, d), v, bn.suffixLink)
    PROVE  \E lev2, reg2 : Stores(res, lev2, reg2, With(f, k, v))
<1>1. lay \in Seq(Relations) /\ Tree(lay, lev, reg) /\ lay[c] \in Relations
  BY InLayer DEF Stores
<1>2. p \in Strings /\ s \in Slices
  BY <1>1, SliceOfCut
<1>3. bn \in BorderNodes
  BY <1>1, RelationIs
<1>4. PICK k2 \in Strings : Owns(lay, lev, reg, c, s, k2)
  BY DEF Stores, Owned
<1>5. PICK p2 : p2 = Cut(k2, lev[c])
  OBVIOUS
<1>6. k2 \in reg[c] /\ p2 \in Strings /\ Slice(p2) = s /\ ~EndsHere(p2) /\ bn.keySuffix = Rest(p2)
  <2>1. k2 \in reg[c] /\ Slice(p2) = s /\ ~EndsHere(p2) /\ bn.keySuffix = Rest(p2)
    BY <1>4, <1>5 DEF Owns
  <2> QED
    BY <1>1, <1>5, <2>1, SliceOfCut
<1>7. p2 # p /\ k2 # k
  BY <1>5, <1>6
<1>8. PICK r1 \in Strings, r2 \in Strings : r1 = Rest(p) /\ r2 = Rest(p2)
  BY <1>2, <1>6, RestIs
<1>9. PICK v2 : v2 = bn.suffixLink
  OBVIOUS
<1>10. v2 \in Values
  BY <1>3, <1>9 DEF BorderNodes
<1>11. Found(lay, lev, c, k2) = v2 /\ v2 # NULL /\ v # NULL
  BY <1>5, <1>6, <1>9, <1>10, NullIsNoOther DEF Found, Look, ValueIn
<1>12. k2 \in DOMAIN f /\ f[k2] = v2
  BY <1>6, <1>11 DEF Stores, Sound
<1>13. PICK l \in Nat : l = Len(lay) /\ DOMAIN lay = 1 .. l
  BY <1>1, LenProperties
<1>14. b \in BorderNodes /\ GetLink(b) = Len(lay) + 1
  <2>1. Len(lay) + 1 \in Nat
    BY <1>13
  <2> QED
    BY <1>3, <2>1, SetLinkIs
<1>15. LinkAt(lay[c], s) = NULL
  BY DEF LinkAt, GetLink
<1>16. PICK m \in Nat : m = l + d + 1
  OBVIOUS
<1>17. PICK lev2, reg2 : /\ Tree(res, lev2, reg2) /\ SameRegions(lay, lev, reg, lev2, reg2)
                         /\ Comes(lev2, reg2, m, k, Cut(r1, d)) /\ Comes(lev2, reg2, m, k2, Cut(r2, d))
  <2>1. Comes(lev, reg, c, k, p) /\ Comes(lev, reg, c, k2, p2)
    BY <1>5, <1>6 DEF Comes
  <2>2. Chains(lay, res, c, s, b, d, r1, r) /\ NoneParts(r1, r2, d) /\ \A t : LinkAt(r, t) = NULL
    BY <1>6, <1>8 DEF BothIn
  <2>3. l + d + 1 = m /\ l = Len(lay)
    BY <1>13, <1>16
  <2>4. \E lev2, reg2 : /\ Tree(res, lev2, reg2) /\ SameRegions(lay, lev, reg, lev2, reg2)
                        /\ Comes(lev2, reg2, Len(lay) + d + 1, k, Cut(r1, d))
                        /\ Comes(lev2, reg2, Len(lay) + d + 1, k2, Cut(r2, d))
    BY <1>1, <1>2, <1>6, <1>8, <1>14, <1>15, <2>1, <2>2, GrowAll
  <2> QED
    BY <2>3, <2>4
<1>18. PICK e1 \in Strings, e2 \in Strings : e1 = Cut(r1, d) /\ e2 = Cut(r2, d) /\ e1 # e2
  BY <1>6, <1>8 DEF GoOn
<1>19. BothIn(r, e1, e2, v, v2)
  BY <1>6, <1>8, <1>9, <1>18
<1>20. k \in reg2[m] /\ k2 \in reg2[m] /\ Cut(k, lev2[m]) = e1 /\ Cut(k2, lev2[m]) = e2
  BY <1>17, <1>18 DEF Comes
<1>21. /\ res \in Seq(Relations) /\ DOMAIN res = 1 .. m /\ res[m] = r
       /\ Recorded(lay[c], s, b, res[c]) /\ \A n \in DOMAIN lay : n # c => res[n] = lay[n]
  BY <1>13, <1>16 DEF Chains
<1>22. ASSUME NEW n \in DOMAIN res
       PROVE  n \in DOMAIN lay \/ n = m \/ (\E t, h : OnlyLinks(res[n], t, h))
  <2>1. n \in 1 .. l + d + 1 /\ n \in Nat
    BY <1>16, <1>21
  <2>2. SUFFICES ASSUME ~(n \in DOMAIN lay), n # m PROVE \E t, h : OnlyLinks(res[n], t, h)
    OBVIOUS
  <2>3. PICK i \in 0 .. d - 1 : n = l + i + 1
    <3>1. n - l - 1 \in 0 .. d - 1 /\ n = l + (n - l - 1) + 1
      BY <1>13, <1>16, <2>1, <2>2
    <3> QED
      BY <3>1
  <2>4. OnlyLinks(res[l + i + 1], Slice(Cut(Rest(p), i)), l + i + 2)
    BY <1>13 DEF Chains
  <2> QED
    BY <2>3, <2>4
<1>23. ASSUME NEW n \in DOMAIN lay, NEW h \in reg[n]
       PROVE  /\ h \in reg2[n] /\ lev2[n] = lev[n] /\ n \in DOMAIN res /\ n # m
              /\ \/ Found(res, lev2, n, h) = Found(lay, lev, n, h)
                 \/ /\ Found(res, lev2, n, h) = NULL
                    /\ Found(lay, lev, n, h) # NULL => h = k2
  <2>1. h \in reg2[n] /\ lev2[n] = lev[n] /\ n \in DOMAIN res /\ n # m
    BY <1>13, <1>16, <1>17, <1>21 DEF SameRegions
  <2>2. CASE n # c
    BY <1>21, <2>1, <2>2 DEF Found
  <2>3. CASE n = c
    <3>1. PICK q \in Strings : q = Cut(h, lev[c])
      BY <1>1, <2>3, SliceOfCut
    <3>2. Found(res, lev2, n, h) = Look(res[c], q) /\ Found(lay, lev, n, h) = Look(lay[c], q)
      BY <2>1, <2>3, <3>1 DEF Found
    <3>3. \/ Look(res[c], q) = Look(lay[c], q)
          \/ /\ Slice(q) = s /\ ~EndsHere(q) /\ Look(res[c], q) = NULL
             /\ Look(lay[c], q) # NULL => bn.keySuffix = Rest(q)
      <4>1. PICK rs \in Relations : rs = lay[c]
        BY <1>1
      <4>2. PICK g \in Nat : g = Len(lay) + 1
        BY <1>13
      <4>3. Recorded(rs, s, SetLink(bn, g), res[c])
        BY <1>21, <4>1, <4>2
      <4> QED
        BY <1>2, <1>3, <4>1, <4>3, LookLinked
    <3>4. ASSUME Slice(q) = s, ~EndsHere(q), bn.keySuffix = Rest(q) PROVE h = k2
      <4>1. q = p2
        BY <1>6, <3>4, SlicesAndRest
      <4>2. h \in reg[c] /\ k2 \in reg[c] /\ Cut(h, lev[c]) = Cut(k2, lev[c])
        BY <1>5, <1>6, <2>3, <3>1, <4>1
      <4> QED
        BY <1>1, <4>2, ApartByRest
    <3> QED
      BY <2>1, <3>2, <3>3, <3>4
  <2> QED
    BY <2>2, <2>3
<1>24. m \in DOMAIN res
  BY <1>16, <1>21
<1>25. Found(res, lev2, m, k) = v /\ Found(res, lev2, m, k2) = v2
  BY <1>19, <1>20, <1>21 DEF Found, BothIn
<1>26. ASSUME NEW h \in reg2[m], h # k, h # k2
       PROVE  Found(res, lev2, m, h) = NULL
  <2>1. Cut(h, lev2[m]) \in Strings /\ Cut(h, lev2[m]) # e1 /\ Cut(h, lev2[m]) # e2
    BY <1>17, <1>20, <1>24, <1>26, SliceOfCut, ApartByRest
  <2> QED
    BY <1>19, <1>21, <2>1 DEF Found, BothIn
<1>27. PICK g : g = With(f, k, v)
  OBVIOUS
<1>28. DOMAIN g = DOMAIN f \cup {k} /\ g[k] = v /\ \A x \in DOMAIN f : x # k => g[x] = f[x]
  BY <1>27 DEF With
<1>29. Sound(res, lev2, reg2, g)
  <2>1. ASSUME NEW n \in DOMAIN res, NEW h \in reg2[n], Found(res, lev2, n, h) # NULL
        PROVE  h \in DOMAIN g /\ g[h] = Found(res, lev2, n, h)
    <3>1. CASE n = m
      <4>1. h = k \/ h = k2
        BY <1>26, <2>1, <3>1
      <4> QED
        BY <1>7, <1>12, <1>25, <1>28, <3>1, <4>1
    <3>2. CASE n \in DOMAIN lay
      <4>1. h \in reg[n] /\ n # m
        BY <1>13, <1>16, <1>17, <3>2 DEF SameRegions
      <4>2. Found(lay, lev, n, h) = Found(res, lev2, n, h)
        BY <1>23, <2>1, <3>2, <4>1
      <4>3. h \in DOMAIN f /\ f[h] = Found(lay, lev, n, h)
        BY <2>1, <3>2, <4>1, <4>2 DEF Stores, Sound
      <4>4. h # k
        <5>1. SUFFICES ASSUME h = k PROVE FALSE
          OBVIOUS
        <5>2. Look(res[n], Cut(k, lev2[n])) # NULL /\ Look(res[m], Cut(k, lev2[m])) # NULL
          BY <1>11, <1>25, <2>1, <5>1 DEF Found
        <5> QED
          BY <1>17, <1>20, <1>24, <2>1, <4>1, <5>1, <5>2, OnlyHere
      <4> QED
        BY <1>28, <4>2, <4>3, <4>4
    <3>3. CASE \E t, i : OnlyLinks(res[n], t, i)
      <4>1. Cut(h, lev2[n]) \in Strings
        BY <1>17, <2>1, SliceOfCut
      <4> QED
        BY <2>1, <3>3, <4>1 DEF Found, OnlyLinks
    <3> QED
      BY <1>22, <3>1, <3>2, <3>3
  <2> QED
    BY <2>1 DEF Sound
<1>30. Complete(res, lev2, reg2, g)
  <2>1. ASSUME NEW h \in DOMAIN g
        PROVE  \E n \in DOMAIN res : h \in reg2[n] /\ Found(res, lev2, n, h) # NULL
    <3>1. CASE h = k \/ h = k2
      BY <1>11, <1>20, <1>24, <1>25, <3>1
    <3>2. CASE h # k /\ h # k2
      <4>1. PICK n \in DOMAIN lay : h \in reg[n] /\ Found(lay, lev, n, h) # NULL
        BY <1>28, <3>2 DEF Stores, Complete
      <4> QED
        BY <1>23, <3>2, <4>1
    <3> QED
      BY <3>1, <3>2
  <2> QED
    BY <2>1 DEF Complete
<1>31. Owned(res, lev2, reg2)
  <2>1. ASSUME NEW n \in DOMAIN res, NEW t \in DOMAIN res[n], HasSuffix(res[n][t])
        PROVE  \E h \in Strings : Owns(res, lev2, reg2, n, t, h)
    <3>1. CASE n = m
      <4>1. \/ t = Slice(e1) /\ ~EndsHere(e1) /\ res[n][t].keySuffix = Rest(e1)
            \/ t = Slice(e2) /\ ~EndsHere(e2) /\ res[n][t].keySuffix = Rest(e2)
        BY <1>19, <1>21, <2>1, <3>1 DEF BothIn
      <4>2. Owns(res, lev2, reg2, n, t, k) \/ Owns(res, lev2, reg2, n, t, k2)
        BY <1>20, <3>1, <4>1 DEF Owns
      <4> QED
        BY <4>2
    <3>2. CASE n \in DOMAIN lay
      <4>1. ~HasSuffix(b)
        <5>1. Len(lay) + 1 \in Nat
          BY <1>13
        <5> QED
          BY <1>3, <5>1, SetLinkIs
      <4>2. t \in DOMAIN lay[n] /\ res[n][t] = lay[n][t]
        BY <1>21, <2>1, <3>2, <4>1 DEF Recorded
      <4>3. PICK h \in Strings : Owns(lay, lev, reg, n, t, h)
        BY <2>1, <3>2, <4>2 DEF Stores, Owned
      <4>4. Owns(res, lev2, reg2, n, t, h)
        BY <1>17, <3>2, <4>2, <4>3 DEF Owns, SameRegions
      <4> QED
        BY <4>4
    <3>3. CASE \E u, i : OnlyLinks(res[n], u, i)
      BY <2>1, <3>3 DEF OnlyLinks
    <3> QED
      BY <1>22, <3>1, <3>2, <3>3
  <2> QED
    BY <2>1 DEF Owned
<1>32. Stores(res, lev2, reg2, g)
  BY <1>17, <1>21, <1>29, <1>30, <1>31 DEF Stores
<1> QED
  BY <1>27, <1>32

LEMMA PutStores ==
    ASSUME NEW lev, NEW reg, NEW f, Stores(indices, lev, reg, f), NEW k \in Strings, NEW v \in Values,
           NEW res, res = Index!put(k, v)
    PROVE  \E lev2, reg2 : Stores(res, lev2, reg2, With(f, k, v))
<1>1. indices \in Seq(Relations) /\ Tree(indices, lev, reg)
  BY DEF Stores
<1>2. PICK e : e = Index!lastCall(k)
  OBVIOUS
<1>3. EndsAt(indices, lev, reg, k, e)
  BY <1>1, <1>2, LastCallIs
<1>4. PICK c \in DOMAIN indices : /\ e = [index |-> c, key |-> Cut(k, lev[c])] /\ k \in reg[c]
                                 /\ Onward(indices, c, Cut(k, lev[c])) = NULL
  BY <1>3 DEF EndsAt
<1>5. PICK p \in Strings, s \in Slices : p = Cut(k, lev[c]) /\ s = Slice(p)
  BY <1>1, <1>4, SliceOfCut
<1>6. e.index = c /\ e.key = p
  BY <1>4, <1>5
<1>7. PICK bn : bn = Old(indices[c], s)
  OBVIOUS
<1>8. bn \in BorderNodes /\ (s \notin DOMAIN indices[c] => bn = NewBorderNode) /\ (s \in DOMAIN indices[c] => bn = indices[c][s])
  BY <1>1, <1>7, InLayer, RelationIs, NewIsBorderNode DEF Old
<1>9. res = IF EndsHere(p) \/ ~HasSuffix(bn) \/ bn.keySuffix = Rest(p)
            THEN [indices EXCEPT ![c] = Record(indices[c], s, SetValue(bn, p, v))]
            ELSE [indices EXCEPT ![c] = Record(indices[c], s, SetLink(bn, Len(indices) + 1))]
                 \o Index!create_pair(Rest(p), bn.keySuffix, v, bn.suffixLink)
  <2>1. Index!bnode(c, p) = bn
    BY <1>5, <1>7, OldIs
  <2>2. Index!lastCall(k).index = c /\ Index!lastCall(k).key = p
    BY <1>2, <1>6
  <2> QED
    BY <1>5, <2>1, <2>2, SameOperators DEF Index!put
<1>10. CASE EndsHere(p) \/ ~HasSuffix(bn) \/ bn.keySuffix = Rest(p)
  <2>1. Onward(indices, c, p) = NULL
    BY <1>4, <1>5
  <2>2. res = [indices EXCEPT ![c] = Record(indices[c], s, SetValue(bn, p, v))]
    BY <1>9, <1>10
  <2>3. PutAt(indices, c, p, v, res)
    BY <1>5, <1>7, <1>10, <2>2 DEF PutAt
  <2>4. k \in reg[c] /\ p = Cut(k, lev[c])
    BY <1>4, <1>5
  <2>5. Stores(res, lev, reg, With(f, k, v))
    BY <2>1, <2>3, <2>4, StoresOne
  <2> QED
    BY <2>5
<1>11. CASE ~EndsHere(p) /\ HasSuffix(bn) /\ bn.keySuffix # Rest(p)
  <2>1. s \in DOMAIN indices[c] /\ bn = indices[c][s]
    BY <1>8, <1>11, NewIsBorderNode
  <2>2. PICK p1 \in Strings, p2 \in Strings : p1 = Rest(p) /\ p2 = bn.keySuffix /\ p1 # p2
    BY <1>5, <1>8, <1>11, RestIs DEF BorderNodes, HasSuffix
  <2>3. PICK v2 \in Values : v2 = bn.suffixLink
    BY <1>8, <1>11 DEF BorderNodes
  <2>4. PICK b : b = SetLink(bn, Len(indices) + 1)
    OBVIOUS
  <2>5. res = [indices EXCEPT ![c] = Record(indices[c], s, b)] \o Index!create_pair(p1, p2, v, v2)
    BY <1>9, <1>11, <2>2, <2>3, <2>4
  <2>6. PICK d \in Nat : \E r : /\ Chains(indices, res, c, s, b, d, p1, r) /\ NoneParts(p1, p2, d)
                               /\ GoOn(p1, p2, d) /\ BothIn(r, Cut(p1, d), Cut(p2, d), v, v2)
    BY <1>1, <1>8, <2>2, <2>4, <2>5, PairChains
  <2>7. PICK r : /\ Chains(indices, res, c, s, b, d, p1, r) /\ NoneParts(p1, p2, d)
                 /\ GoOn(p1, p2, d) /\ BothIn(r, Cut(p1, d), Cut(p2, d), v, v2)
    BY <2>6
  <2>8. /\ Chains(indices, res, c, s, b, d, Rest(p), r) /\ NoneParts(Rest(p), bn.keySuffix, d)
        /\ GoOn(Rest(p), bn.keySuffix, d)
        /\ BothIn(r, Cut(Rest(p), d), Cut(bn.keySuffix, d), v, bn.suffixLink)
    BY <2>2, <2>3, <2>7
  <2> QED
    BY <1>4, <1>5, <1>11, <2>1, <2>4, <2>8, StoresPair
<1> QED
  BY <1>10, <1>11

\* A put is completed, or the client's map stays.
LEMMA PutOrStays ==
    ASSUME Inv, [Next]_vars
    PROVE  \/ /\ op = "put" /\ op' = "idle" /\ map' = With(map, total, value)
              /\ total \in Strings /\ value \in Values
           \/ ~(op = "put" /\ op' = "idle") /\ map' = map
<1>1. PICK lev, reg : Good(lev, reg)
  BY DEF Inv
<1>2. ASSUME op = "put", Completed
      PROVE  op' = "idle" /\ map' = With(map, total, value) /\ total \in Strings /\ value \in Values
  <2>1. total \in Strings /\ value \in Values
    BY <1>1, <1>2, InSearch
  <2> QED
    BY <1>2, <2>1 DEF Completed, With
<1>3. CASE UNCHANGED vars
  BY <1>3 DEF vars, call, history
<1>4. CASE \E k \in Keys : KV_Get(k) \/ \E v \in Values : KV_Put(k, v)
  BY <1>4 DEF KV_Get, KV_Put, history
<1>5. CASE PutBothHere
  BY <1>2, <1>5 DEF PutBothHere
<1>6. CASE PushBothDown
  BY <1>6 DEF PushBothDown, history
<1>7. CASE PutApart
  BY <1>2, <1>7 DEF PutApart
<1>8. CASE PutNewSlice
  BY <1>8 DEF PutNewSlice, call, history
<1>9. CASE PutPrefix
  BY <1>2, <1>9 DEF PutPrefix
<1>10. CASE PutSameSuffix
  BY <1>2, <1>10 DEF PutSameSuffix
<1>11. CASE PutNewSuffix
  BY <1>2, <1>11 DEF PutNewSuffix
<1>12. CASE ExportSuffix
  BY <1>12 DEF ExportSuffix, history
<1>13. CASE PutFollow \/ GetFollow
  BY <1>13 DEF PutFollow, GetFollow, history
<1>14. CASE GetAbsent \/ GetPrefix \/ GetSuffix \/ GetNothing
  BY <1>14 DEF GetAbsent, GetPrefix, GetSuffix, GetNothing, Answer, history
<1>15. CASE Return
  BY <1>15 DEF Return, history
<1> QED
  BY <1>3, <1>4, <1>5, <1>6, <1>7, <1>8, <1>9, <1>10, <1>11, <1>12, <1>13, <1>14, <1>15 DEF Next, Turn, PutTurn, GetTurn

IndexInv == Inv /\ \E lev, reg : Stores(indices, lev, reg, map)

\* There is one index, for all keys.
LEMMA IndexAtFirst == BothInit => IndexInv
<1> SUFFICES ASSUME BothInit PROVE IndexInv
  OBVIOUS
<1>1. Inv /\ indices = <<NoRecords>> /\ DOMAIN map = {}
  <2>1. Inv
    BY AtFirst DEF BothInit
  <2> QED
    BY <2>1, SameOperators DEF BothInit, Init, Index!Init
<1>2. PICK lay : lay = indices
  OBVIOUS
<1>3. PICK lev, reg : Tree(layers, lev, reg)
  BY <1>1 DEF Inv, Good
<1>4. layers = indices
  BY <1>1 DEF BothInit, Init
<1>5. lay \in Seq(Relations) /\ DOMAIN lay = {1} /\ lay[1] = NoRecords /\ Tree(lay, lev, reg)
  BY <1>1, <1>2, <1>3, <1>4, NoneIsARelation
<1>6. Stores(lay, lev, reg, map)
  BY <1>1, <1>5, NoneIsARelation DEF Stores, Sound, Complete, Owned, Found
<1> QED
  BY <1>1, <1>2, <1>6 DEF IndexInv

LEMMA IndexStep == IndexInv /\ [BothNext]_<<vars, indices>> => IndexInv'
<1> SUFFICES ASSUME IndexInv, [BothNext]_<<vars, indices>> PROVE IndexInv'
  OBVIOUS
<1>1. Inv /\ [Next]_vars
  BY DEF IndexInv, BothNext
<1>2. Inv'
  BY <1>1, EachStep
<1>3. PICK lev, reg : Stores(indices, lev, reg, map)
  BY DEF IndexInv
<1>4. CASE /\ op = "put" /\ op' = "idle" /\ map' = With(map, total, value)
           /\ total \in Strings /\ value \in Values
  <2>1. op' # op
    BY <1>4
  <2>2. indices' = Index!put(total, value)
    BY <1>4, <2>1 DEF BothNext, PutInBoth, Index!Put, vars, call
  <2>3. \E lev2, reg2 : Stores(indices', lev2, reg2, With(map, total, value))
    BY <1>3, <1>4, <2>2, PutStores
  <2> QED
    BY <1>2, <1>4, <2>3 DEF IndexInv
<1>5. CASE ~(op = "put" /\ op' = "idle") /\ map' = map
  <2>1. indices' = indices
    BY <1>5 DEF BothNext, PutInBoth
  <2> QED
    BY <1>2, <1>3, <1>5, <2>1 DEF IndexInv
<1> QED
  BY <1>1, <1>4, <1>5, PutOrStays

LEMMA IndexInvHolds == IndexInv => IndexHoldsLastPuts
<1> SUFFICES ASSUME IndexInv PROVE IndexHoldsLastPuts
  OBVIOUS
<1>1. PICK lev, reg : Stores(indices, lev, reg, map)
  BY DEF IndexInv
<1>2. ASSUME NEW n \in 1 .. Longest, NEW str \in [1 .. n -> Bytes]
      PROVE  str \in Strings
  <2>1. n \in Nat /\ n > 0
    OBVIOUS
  <2>2. str \in Seq(Bytes)
    BY <2>1, SeqDef
  <2>3. 1 \in DOMAIN str
    BY <2>1
  <2>4. str # <<>>
    BY <2>3
  <2> QED
    BY <2>2, <2>4 DEF Strings
<1>3. ASSUME NEW c \in Calls PROVE Held(c[2]) = Contents(c[1])
  <2>1. PICK str \in LookedUp : c = <<str, Index!lastCall(str)>>
    BY <1>3 DEF Calls
  <2>2. str \in Strings
    BY <1>2, KeysAreStrings DEF LookedUp
  <2>3. Held(Index!lastCall(str)) = Contents(str)
    BY <1>1, <2>2, HeldIs
  <2> QED
    BY <2>1, <2>3
<1> QED
  BY <1>3 DEF IndexHoldsLastPuts

\* index_string.c:515-624.  For any keys and slice length, the trie has the last value of
\* every key that was put, and none for another string, when the client puts the keys and
\* values of KV_Put.
THEOREM IndexIsTheMap == BothSpec => []IndexHoldsLastPuts
<1> QED
  BY IndexAtFirst, IndexStep, IndexInvHolds, PTL DEF BothSpec

=============================================================================
