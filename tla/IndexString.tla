---------------------------- MODULE IndexString -----------------------------
(***************************************************************************)
(* The trie of index_string.c, the second making of the key-value store:   *)
(* layers of border nodes as in KVStore, but put calls itself, and two     *)
(* keys that share a slice go down together in create_pair.  The layers    *)
(* are indices on integers, of which index_int.h says what is used here:   *)
(* they are maps from slices.  An index is known by its place, for those   *)
(* that have a link to it see what is put into it.  The cursors of the     *)
(* file are unfinished and not modelled.                                   *)
(***************************************************************************)
EXTENDS Integers, Sequences

CONSTANTS keyslice_length, Zero, NULL

VARIABLE indices   \* the border nodes by slice of each index; 1 is the root

Iempty == [s \in {} |-> NULL]

\* The root is an index that the client has from Iempty: Sempty makes none.
Init == indices = <<Iempty>>

-----------------------------------------------------------------------------
(* Slices and border nodes.  prefixFlags has the lengths whose link is not NULL. *)

Slice(str) == [i \in 1 .. keyslice_length |-> IF i <= Len(str) THEN str[i] ELSE Zero]
Rest(str) == SubSeq(str, keyslice_length + 1, Len(str))
EndsHere(str) == Len(str) <= keyslice_length

\* What is left of a string after i slices.
Cut(str, i) == SubSeq(str, i * keyslice_length + 1, Len(str))

NewBorderNode == [prefixLinks |-> [i \in 1 .. keyslice_length |-> NULL],
                  suffixLink |-> NULL, keySuffix |-> NULL]

SetPrefixValue(bn, len, v) == [bn EXCEPT !.prefixLinks[len] = v]
SetSuffixValue(bn, suffix, v) == [bn EXCEPT !.keySuffix = suffix, !.suffixLink = v]
SetLink(bn, index) == [bn EXCEPT !.keySuffix = NULL, !.suffixLink = index]
SetValue(bn, k, v) ==
    IF EndsHere(k) THEN SetPrefixValue(bn, Len(k), v) ELSE SetSuffixValue(bn, Rest(k), v)

HasSuffix(bn) == bn.keySuffix # NULL
GetLink(bn) == IF HasSuffix(bn) THEN NULL ELSE bn.suffixLink

Iput(index, s, bn) == [t \in DOMAIN index \cup {s} |-> IF t = s THEN bn ELSE index[t]]

-----------------------------------------------------------------------------
(* create_pair: indices for two keys that differ. *)

\* The call that does not call itself: the slices differ, or a key ends in the one they share.
Parts(k1, k2) == Slice(k1) # Slice(k2) \/ EndsHere(k1) \/ EndsHere(k2)

\* How many calls come before it.
depth(k1, k2) ==
    CHOOSE d \in 0 .. Len(k1) :
        /\ Parts(Cut(k1, d), Cut(k2, d))
        /\ \A i \in 0 .. d - 1 : ~Parts(Cut(k1, i), Cut(k2, i))

\* What it returns.
lastIndex_OneKey(k1, k2, v1, v2) ==
    IF Slice(k1) = Slice(k2)
    THEN Iput(Iempty, Slice(k1), SetValue(SetValue(NewBorderNode, k1, v1), k1, v2))
    ELSE Iput(Iput(Iempty, Slice(k2), SetValue(NewBorderNode, k2, v2)),
              Slice(k1), SetValue(NewBorderNode, k1, v1))
lastIndex(k1, k2, v1, v2) ==
    IF Slice(k1) = Slice(k2)
    THEN Iput(Iempty, Slice(k1), SetValue(SetValue(NewBorderNode, k1, v1), k2, v2))
    ELSE Iput(Iput(Iempty, Slice(k2), SetValue(NewBorderNode, k2, v2)),
              Slice(k1), SetValue(NewBorderNode, k1, v1))

\* The new indices, the one of the outermost call first, each with a link to the next.
create_pair(k1, k2, v1, v2) ==
    LET d == depth(k1, k2)
    IN  [i \in 1 .. d + 1 |->
            IF i = d + 1 THEN lastIndex(Cut(k1, d), Cut(k2, d), v1, v2)
            ELSE Iput(Iempty, Slice(Cut(k1, i - 1)), SetLink(NewBorderNode, Len(indices) + i + 1))]

-----------------------------------------------------------------------------
(* put *)

\* The border node of an index for a key, a new one if there is none.
bnode(n, key) == IF Slice(key) \in DOMAIN indices[n] THEN indices[n][Slice(key)] ELSE NewBorderNode

\* The index that put calls itself with, NULL if it does not.
subindex(n, key) == IF EndsHere(key) THEN NULL ELSE GetLink(bnode(n, key))

\* The call that does not call itself.  It gets an index, and the key without some slices.
lastCall(str) ==
    LET last[c \in (DOMAIN indices) \X (0 .. Len(str))] ==
            LET key   == Cut(str, c[2])
                index == subindex(c[1], key)
            IN  IF index = NULL THEN [index |-> c[1], key |-> key] ELSE last[<<index, c[2] + 1>>]
    IN  last[<<1, 0>>]

\* The key's border node has room for the value, or it exports the suffix that is there.
put(str, v) ==
    LET c  == lastCall(str)
        bn == bnode(c.index, c.key)
        Set(b) == [indices EXCEPT ![c.index] = Iput(@, Slice(c.key), b)]
    IN  IF EndsHere(c.key) \/ ~HasSuffix(bn) \/ bn.keySuffix = Rest(c.key)
        THEN Set(SetValue(bn, c.key, v))
        ELSE Set(SetLink(bn, Len(indices) + 1))
             \o create_pair(Rest(c.key), bn.keySuffix, v, bn.suffixLink)

Put(str, v) == indices' = put(str, v)

=============================================================================
