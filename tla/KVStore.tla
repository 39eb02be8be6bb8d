------------------------------ MODULE KVStore ------------------------------
(***************************************************************************)
(* kvstore.c and bordernode.c: a map from byte strings to values, kept as  *)
(* a trie.  Each layer is a relation over slices of KEY_SLICE_LENGTH bytes, *)
(* whose records are border nodes.  A border node has the values of the    *)
(* keys that end in its slice, by their length, and one suffix with a      *)
(* value or one link to a layer for the keys that go on.                   *)
(*                                                                         *)
(* KV_Put and KV_Get are loops (the recursion of getValueOfPartialKey is a *)
(* tail call); an action is one turn, named after the case of the code.    *)
(* The relation library is taken by its contract, which RelationMem        *)
(* implements: each layer has one cursor, so that none is ever overtaken.  *)
(***************************************************************************)
EXTENDS Integers, Sequences, FiniteSets

CONSTANTS KEY_SLICE_LENGTH,
          Bytes, Zero,     \* the bytes of keys, and the one a short slice is padded with
          Keys,            \* the keys the client uses
          Values, NULL

\* The empty key is left out: BN_SetPrefixValue asserts that it is.
ASSUME KVAssumption ==
    /\ KEY_SLICE_LENGTH \in Nat \ {0}
    /\ Zero \in Bytes
    /\ Keys \subseteq Seq(Bytes) \ {<<>>}
    /\ NULL \notin Values \cup Nat \cup Seq(Bytes) \cup [key : Seq(Bytes), value : Values]

VARIABLES layers,    \* the relation of each KVNode, from slices to border nodes; 1 is the root
          numKeys,
          op,        \* "idle", "put", "get", or "got": about to return ret
          key,       \* what is left of the key: KV_Put advances key->str itself
          value,     \* the value to put
          currNode,  \* the layer of this turn
          snd,       \* sndKey and sndValue, NULL if there is none
          ret,
          total,     \* the whole key of the call
          map,       \* the values by key, as the client has put them
          mixed      \* keys that case 0.0.0 has dropped or given another's value

call    == <<op, key, value, currNode, snd, ret, total>>
history == <<map, mixed>>
vars    == <<layers, numKeys, call, history>>

NoRecords == [s \in {} |-> NULL]

Init ==
    /\ layers = <<NoRecords>> /\ numKeys = 0
    /\ op = "idle" /\ key = <<>> /\ value = NULL /\ currNode = 1 /\ snd = NULL /\ ret = NULL
    /\ total = <<>> /\ map = [k \in {} |-> NULL] /\ mixed = {}

-----------------------------------------------------------------------------
(* Slices and border nodes. *)

\* UTIL_GetNextKeySlice pads with zeroes: strings that differ in zeroes at the end
\* have one slice.
Slice(str) == [i \in 1 .. KEY_SLICE_LENGTH |-> IF i <= Len(str) THEN str[i] ELSE Zero]

Rest(str) == SubSeq(str, KEY_SLICE_LENGTH + 1, Len(str))

EndsHere(str) == Len(str) <= KEY_SLICE_LENGTH

NewBorderNode == [prefixLinks |-> [i \in 1 .. KEY_SLICE_LENGTH |-> NULL],
                  suffixLink |-> NULL, keySuffix |-> NULL]

SetPrefixValue(bn, len, v) == [bn EXCEPT !.prefixLinks[len] = v]
SetSuffixValue(bn, suffix, v) == [bn EXCEPT !.keySuffix = suffix, !.suffixLink = v]
SetLink_KeepsSuffix(bn, n) == [bn EXCEPT !.suffixLink = n]
SetLink(bn, n) == [bn EXCEPT !.keySuffix = NULL, !.suffixLink = n]
SetValue(bn, k, v) ==
    IF EndsHere(k) THEN SetPrefixValue(bn, Len(k), v) ELSE SetSuffixValue(bn, Rest(k), v)

HasSuffix(bn) == bn.keySuffix # NULL
GetLink(bn) == IF HasSuffix(bn) THEN NULL ELSE bn.suffixLink

\* RL_PutRecord, and a change of a border node that is there.
Record(records, s, bn) == [t \in DOMAIN records \cup {s} |-> IF t = s THEN bn ELSE records[t]]

\* RL_MoveToKey and RL_GetRecord for the next slice.
Present == Slice(key) \in DOMAIN layers[currNode]
borderNode == layers[currNode][Slice(key)]

SetHere(bn) == layers' = [layers EXCEPT ![currNode] = Record(@, Slice(key), bn)]

\* The border node gets a link to a new layer.
SetNewLink(bn) ==
    /\ layers' = Append([layers EXCEPT ![currNode] =
                            Record(@, Slice(key), SetLink(bn, Len(layers) + 1))], NoRecords)
    /\ currNode' = Len(layers) + 1

-----------------------------------------------------------------------------
(* KV_Put *)

KV_Put(k, v) ==
    /\ op = "idle"
    /\ op' = "put" /\ key' = k /\ value' = v /\ total' = k /\ currNode' = 1
    /\ UNCHANGED <<layers, numKeys, snd, ret, history>>

\* putCompleted = True
Completed ==
    /\ op' = "idle" /\ key' = <<>> /\ value' = NULL /\ total' = <<>> /\ currNode' = 1 /\ snd' = NULL
    /\ map' = [k \in DOMAIN map \cup {total} |-> IF k = total THEN value ELSE map[k]]
    /\ UNCHANGED ret

\* The whole second key: it shares what the first has been cut by.
sndTotal == SubSeq(total, 1, Len(total) - Len(key)) \o snd.key

\* Case 0.0.0: both values are set for key.
PutBothHere ==
    /\ op = "put" /\ snd # NULL /\ Slice(key) = Slice(snd.key)
    /\ EndsHere(key) \/ EndsHere(snd.key)
    /\ SetHere(SetValue(SetValue(NewBorderNode, key, value), key, snd.value))
    /\ numKeys' = numKeys + 1
    /\ mixed' = mixed \cup {total, sndTotal}
    /\ Completed

\* Case 0.0.1: both keys go on to a layer that is new.
PushBothDown_InSameLayer ==
    /\ op = "put" /\ snd # NULL /\ Slice(key) = Slice(snd.key)
    /\ ~EndsHere(key) /\ ~EndsHere(snd.key)
    /\ layers' = Append([layers EXCEPT ![currNode] =
                            Record(@, Slice(key), SetLink(NewBorderNode, Len(layers) + 1))], NoRecords)
    /\ key' = Rest(key) /\ snd' = [snd EXCEPT !.key = Rest(@)]
    /\ UNCHANGED <<numKeys, op, currNode, value, ret, total, history>>
PushBothDown ==
    /\ op = "put" /\ snd # NULL /\ Slice(key) = Slice(snd.key)
    /\ ~EndsHere(key) /\ ~EndsHere(snd.key)
    /\ SetNewLink(NewBorderNode)
    /\ key' = Rest(key) /\ snd' = [snd EXCEPT !.key = Rest(@)]
    /\ UNCHANGED <<numKeys, op, value, ret, total, history>>

\* Case 0.1: their slices differ.
PutApart_SameValue ==
    /\ op = "put" /\ snd # NULL /\ Slice(key) # Slice(snd.key)
    /\ layers' = [layers EXCEPT ![currNode] =
                     Record(Record(@, Slice(key), SetValue(NewBorderNode, key, value)),
                            Slice(snd.key), SetValue(NewBorderNode, snd.key, value))]
    /\ numKeys' = numKeys + 1
    /\ mixed' = mixed \ {total}
    /\ Completed
PutApart ==
    /\ op = "put" /\ snd # NULL /\ Slice(key) # Slice(snd.key)
    /\ layers' = [layers EXCEPT ![currNode] =
                     Record(Record(@, Slice(key), SetValue(NewBorderNode, key, value)),
                            Slice(snd.key), SetValue(NewBorderNode, snd.key, snd.value))]
    /\ numKeys' = numKeys + 1
    /\ mixed' = mixed \ {total}
    /\ Completed

\* Case 1.0: a slice that is new.  putCompleted is not set, and the next turn puts
\* the value once more.
PutNewSlice ==
    /\ op = "put" /\ snd = NULL /\ ~Present
    /\ SetHere(SetValue(NewBorderNode, key, value))
    /\ numKeys' = numKeys + 1
    /\ UNCHANGED <<call, history>>

\* Case 1.1.0: the key ends in this slice.
PutPrefix_AlwaysCounts ==
    /\ op = "put" /\ snd = NULL /\ Present /\ EndsHere(key)
    /\ SetHere(SetPrefixValue(borderNode, Len(key), value))
    /\ numKeys' = numKeys + 1
    /\ mixed' = mixed \ {total}
    /\ Completed
PutPrefix ==
    /\ op = "put" /\ snd = NULL /\ Present /\ EndsHere(key)
    /\ SetHere(SetPrefixValue(borderNode, Len(key), value))
    /\ numKeys' = IF borderNode.prefixLinks[Len(key)] = NULL THEN numKeys + 1 ELSE numKeys
    /\ mixed' = mixed \ {total}
    /\ Completed

\* The suffix there is the key's own.
PutSameSuffix_NotCompleted ==
    /\ op = "put" /\ snd = NULL /\ Present /\ ~EndsHere(key)
    /\ borderNode.keySuffix = Rest(key)
    /\ SetHere(SetSuffixValue(borderNode, Rest(key), value))
    /\ UNCHANGED <<numKeys, call, history>>
PutSameSuffix ==
    /\ op = "put" /\ snd = NULL /\ Present /\ ~EndsHere(key)
    /\ borderNode.keySuffix = Rest(key)
    /\ SetHere(SetSuffixValue(borderNode, Rest(key), value))
    /\ mixed' = mixed \ {total}
    /\ Completed
    /\ UNCHANGED numKeys

\* It is another: that key goes to the next layer with this one.
ExportSuffix ==
    /\ op = "put" /\ snd = NULL /\ Present /\ ~EndsHere(key)
    /\ HasSuffix(borderNode) /\ borderNode.keySuffix # Rest(key)
    /\ snd' = [key |-> borderNode.keySuffix, value |-> borderNode.suffixLink]
    /\ SetNewLink(borderNode)
    /\ key' = Rest(key)
    /\ UNCHANGED <<numKeys, op, value, ret, total, history>>

PutFollow ==
    /\ op = "put" /\ snd = NULL /\ Present /\ ~EndsHere(key) /\ GetLink(borderNode) # NULL
    /\ currNode' = GetLink(borderNode) /\ key' = Rest(key)
    /\ UNCHANGED <<layers, numKeys, op, value, snd, ret, total, history>>

\* Case 1.1.2: neither suffix nor link yet.
PutNewSuffix ==
    /\ op = "put" /\ snd = NULL /\ Present /\ ~EndsHere(key)
    /\ ~HasSuffix(borderNode) /\ GetLink(borderNode) = NULL
    /\ SetHere(SetSuffixValue(borderNode, Rest(key), value))
    /\ numKeys' = numKeys + 1
    /\ mixed' = mixed \ {total}
    /\ Completed

PutTurn ==
    \/ PutBothHere \/ PushBothDown \/ PutApart \/ PutNewSlice \/ PutPrefix \/ PutSameSuffix
    \/ ExportSuffix \/ PutFollow \/ PutNewSuffix

-----------------------------------------------------------------------------
(* KV_Get *)

KV_Get(k) ==
    /\ op = "idle"
    /\ op' = "get" /\ key' = k /\ total' = k /\ currNode' = 1
    /\ UNCHANGED <<layers, numKeys, value, snd, ret, history>>

\* getValueOfPartialKey where it does not call itself.
Answer(v) == op' = "got" /\ ret' = v /\ UNCHANGED <<layers, numKeys, key, value, currNode, snd, total, history>>

GetAbsent == op = "get" /\ ~Present /\ Answer(NULL)

GetPrefix == op = "get" /\ Present /\ EndsHere(key) /\ Answer(borderNode.prefixLinks[Len(key)])

GetSuffix ==
    /\ op = "get" /\ Present /\ ~EndsHere(key) /\ HasSuffix(borderNode)
    /\ Answer(IF borderNode.keySuffix = Rest(key) THEN borderNode.suffixLink ELSE NULL)

GetFollow ==
    /\ op = "get" /\ Present /\ ~EndsHere(key) /\ GetLink(borderNode) # NULL
    /\ currNode' = GetLink(borderNode) /\ key' = Rest(key)
    /\ UNCHANGED <<layers, numKeys, op, value, snd, ret, total, history>>

GetNothing ==
    /\ op = "get" /\ Present /\ ~EndsHere(key)
    /\ ~HasSuffix(borderNode) /\ GetLink(borderNode) = NULL
    /\ Answer(NULL)

GetTurn == GetAbsent \/ GetPrefix \/ GetSuffix \/ GetFollow \/ GetNothing

Return ==
    /\ op = "got"
    /\ op' = "idle" /\ key' = <<>> /\ total' = <<>> /\ currNode' = 1 /\ ret' = NULL
    /\ UNCHANGED <<layers, numKeys, value, snd, history>>

-----------------------------------------------------------------------------

Turn == PutTurn \/ GetTurn \/ Return

Next == (\E k \in Keys : KV_Get(k) \/ \E v \in Values : KV_Put(k, v)) \/ Turn

Spec == Init /\ [][Next]_vars

-----------------------------------------------------------------------------
(* What KVStoreProofs proves for all keys and slice lengths. *)

Strings == Seq(Bytes) \ {<<>>}
Slices  == [1 .. KEY_SLICE_LENGTH -> Bytes]

\* What suffixLink holds is a value beside a suffix and else a layer or nothing.
IsBorderNode(bn) ==
    /\ bn = [prefixLinks |-> bn.prefixLinks, suffixLink |-> bn.suffixLink, keySuffix |-> bn.keySuffix]
    /\ bn.prefixLinks \in [1 .. KEY_SLICE_LENGTH -> Values \cup {NULL}]
    /\ bn.keySuffix \in Strings \cup {NULL}
    /\ bn.suffixLink \in IF HasSuffix(bn) THEN Values ELSE DOMAIN layers \cup {NULL}

\* kvstore_int.h:47-57, bordernode.c:48-53.  The variables have the types of the C program,
\* and a border node never has the value of a suffix that it does not have.
TypeOK ==
    /\ \A n \in DOMAIN layers :
          DOMAIN layers[n] \subseteq Slices /\ \A s \in DOMAIN layers[n] : IsBorderNode(layers[n][s])
    /\ numKeys \in Nat
    /\ op \in {"idle", "put", "get", "got"}
    /\ key \in Strings \cup {<<>>} /\ total \in Keys \cup {<<>>}
    /\ value \in Values \cup {NULL} /\ ret \in Values \cup {NULL}
    /\ currNode \in DOMAIN layers
    /\ snd = NULL \/ (snd = [key |-> snd.key, value |-> snd.value] /\ snd.key \in Strings /\ snd.value \in Values)
    /\ DOMAIN map \subseteq Keys /\ (\A k \in DOMAIN map : map[k] \in Values) /\ mixed \subseteq Keys

Contents(k) == IF k \in DOMAIN map THEN map[k] ELSE NULL

\* kvstore.h:69-78.  KV_Get returns what was last put for the key, and NULL if nothing was,
\* however the keys share slices.  Only the keys that case 0.0.0 has mixed up are left
\* out, until they are put again.
GetReturnsLastPut == op = "got" /\ total \notin mixed => ret = Contents(total)

\* A link is of a layer and a slice.
LinkOf(l) == GetLink(layers[l[1]][l[2]])
Links == {l \in (DOMAIN layers) \X Slices : l[2] \in DOMAIN layers[l[1]] /\ LinkOf(l) # NULL}

\* kvstore.c:217-236, :305-320.  Every layer but the root hangs from one border node, of an
\* older layer; between calls none is empty.
LayersFormTrie ==
    /\ \A n \in DOMAIN layers \ {1} :
          \E link \in Links : link[1] < n /\ {l \in Links : LinkOf(l) = n} = {link}
    /\ op = "idle" => \A n \in DOMAIN layers \ {1} : layers[n] # NoRecords

\* Both keys go on together beyond the first slice, to one that one of them ends in.
MeetAtEnd(k, m) ==
    \E n \in 1 .. Len(k) :
        LET cut == n * KEY_SLICE_LENGTH
            a == SubSeq(k, cut + 1, Len(k))
            b == SubSeq(m, cut + 1, Len(m))
        IN  /\ k # m /\ cut < Len(k) /\ cut < Len(m) /\ SubSeq(k, 1, cut) = SubSeq(m, 1, cut)
            /\ Slice(a) = Slice(b) /\ EndsHere(a)

\* kvstore.c:207-338.  numKeys is incremented in five places; it counts the keys put, each
\* once, as long as no two of them make case 0.0.0 possible.
CountsKeys ==
    op = "idle" /\ ~(\E k, m \in DOMAIN map : MeetAtEnd(k, m))
        => numKeys = Cardinality(DOMAIN map)

=============================================================================
