----------------------------- MODULE BstHelping -----------------------------
(***************************************************************************)
(* bst_conc_nblocking4.c: a lock-free search tree whose threads help each  *)
(* other.  Each node has an atomic pointer to an operation record.  An     *)
(* update publishes what it is about to do there, with a compare-and-swap, *)
(* and whoever meets the record carries it out: CHILDCAS swings a link of  *)
(* the node, MARK says that the node is going, RELOCATE takes its key up   *)
(* to the deleted node at the link "dest".                                 *)
(*                                                                         *)
(* Every atomic access of the code is an action of its own; values play no *)
(* part in the control and are left out.  A link that its owner set to     *)
(* SET_NULL(NULL) holds Nil; the root's start as NULL.  Reading through    *)
(* either ends the process.  A record that lost its compare-and-swap was   *)
(* never seen by another thread and takes no place in "op".  The client    *)
(* runs one of the Workloads: what each thread may call, with which keys, and *)
(* how often, once the keys in "first" have been added.                    *)
(***************************************************************************)
EXTENDS Integers, Sequences

CONSTANTS Threads, Keys, Workloads, NULL, Nil

ASSUME HelpingAssumption ==
    /\ Keys \subseteq Nat /\ Nil # NULL /\ Nil \notin Nat /\ NULL \notin Nat
    /\ Workloads \subseteq [first : Seq(Keys), ops : [Threads -> SUBSET {"add", "find", "delete"}],
                            keys : [Threads -> SUBSET Keys], calls : [Threads -> Nat]]

VARIABLES node,  \* the nodes: key, op, left, right; node 1 is the root, with key -1
          op,    \* the operation records ever published
          loc,   \* each thread's program counter and local variables
          work,  \* the workload, with the calls each thread has left
          held   \* the keys whose last finished add or delete was an add

vars == <<node, op, loc, work, held>>

baseRoot == <<0, "root">>
Link(n, isLeft) == <<n, IF isLeft THEN "left" ELSE "right">>
Load(link) == IF link = baseRoot THEN 1 ELSE node[link[1]][link[2]]
Flag(o) == op[o].type
IsNode(v) == v \in DOMAIN node

Plain(type) == [type |-> type]

Idle == [pc |-> "idle"]
Running == \A t \in Threads : loc[t].pc # "crash"
At(t, pc) == Running /\ loc[t].pc = pc

\* f, with what g has besides.
Over(f, g) == [x \in DOMAIN f \cup DOMAIN g |-> IF x \in DOMAIN f THEN f[x] ELSE g[x]]

\* Go to pc, with some locals assigned.
Goto(t, pc, locals) == loc' = [loc EXCEPT ![t] = Over(locals, [@ EXCEPT !.pc = pc])]
Crash(t) == loc' = [loc EXCEPT ![t].pc = "crash"]

\* The call ends: add leaves its key held, delete does not.  A search for that key
\* that goes on meanwhile may have met it before.
Return(t) ==
    LET deleted == {loc[t].key : u \in {u \in {t} : loc[u].call = "delete"}} \cap held
        Meets(u) == u # t /\ loc[u].pc # "idle" /\ loc[u].key \in deleted
    IN  /\ loc' = [u \in Threads |-> IF u = t THEN Idle
                                     ELSE IF Meets(u) THEN [loc[u] EXCEPT !.late = TRUE]
                                     ELSE loc[u]]
        /\ held' = CASE loc[t].call = "add"    -> held \cup {loc[t].key}
                     [] loc[t].call = "delete" -> held \ {loc[t].key}
                     [] OTHER                  -> held

\* Compare-and-swap of a node's op.
Swing(n, o, rec) ==
    /\ node' = [node EXCEPT ![n].op = Len(op) + 1]
    /\ op' = Append(op, rec)

-----------------------------------------------------------------------------
(* find. *)

\* Start a search at the link auxRoot, for the caller's use in state "then".
StartFind(auxRoot, then) ==
    [result |-> "NOTFOUND_R", auxRoot |-> auxRoot, next |-> auxRoot, then |-> then]

Begin(t, c, k) ==
    /\ At(t, "idle")
    /\ Goto(t, "link", Over([call |-> c, key |-> k, late |-> FALSE, pred |-> baseRoot, predOp |-> NULL,
                             curr |-> baseRoot, currOp |-> NULL], StartFind(baseRoot, c)))
    /\ UNCHANGED <<node, op, held>>

\* The client adds the keys in "first" one after the other.
Prepare(t) ==
    /\ \A u \in Threads : loc[u].pc = "idle"
    /\ \E i \in DOMAIN work.first :
          /\ work.first[i] \notin held /\ \A j \in 1 .. i - 1 : work.first[j] \in held
          /\ Begin(t, "add", work.first[i])
    /\ UNCHANGED work

\* When they have been added, the threads go to work.
Call(t) ==
    /\ \A i \in DOMAIN work.first : work.first[i] \in held
    /\ work.calls[t] > 0
    /\ work' = [work EXCEPT !.first = <<>>, !.calls[t] = @ - 1]
    /\ \E c \in work.ops[t], k \in work.keys[t] : Begin(t, c, k)

\* tp_next = atomic_load_ptr(next); at the end of the path find returns.
FindLink(t) ==
    /\ At(t, "link")
    /\ LET l == loc[t]
           n == Load(l.next)
       IN  CASE IsNode(n)                          -> Goto(t, "op", [tp |-> n])
             [] ~IsNode(n) /\ l.next = l.auxRoot   -> Crash(t)
             [] ~IsNode(n) /\ l.next # l.auxRoot   -> Goto(t, l.then, <<>>)
    /\ UNCHANGED <<node, op, work, held>>

\* Having helped at a node on its way, find does not start again: it returns
\* the last comparison's result, with curr and curr_op at that node.
FindHelps(t, pred, predOp, n, o) ==
    LET args == [hop |-> o, hnode |-> n, hpredOp |-> predOp, back |-> loc[t].then]
    IN  Goto(t, "helpPred", Over([pred |-> pred, predOp |-> predOp,
                                  curr |-> loc[t].next, currOp |-> o], args))

\* *curr_op = atomic_load_ptr(tp->op), and the same for tp_next.
FindOp(t) ==
    /\ At(t, "op")
    /\ LET l == loc[t]
           o == node[l.tp].op
           here == [curr |-> l.next, currOp |-> o]
       IN  IF l.next = l.auxRoot
           THEN CASE Flag(o) = "NONE" ->
                        Goto(t, "link", Over([next |-> Link(l.tp, FALSE)], here))
                  [] Flag(o) # "NONE" /\ l.auxRoot = baseRoot ->
                        Goto(t, "casLink", Over([hop |-> o, hnode |-> l.tp, back |-> "link"], here))
                  [] Flag(o) # "NONE" /\ l.auxRoot # baseRoot ->
                        Goto(t, "abort", here)
           ELSE IF Flag(o) = "NONE"
                THEN Goto(t, "key", Over([pred |-> l.curr, predOp |-> l.currOp], here))
                ELSE FindHelps(t, l.curr, l.currOp, l.tp, o)
    /\ UNCHANGED <<node, op, work, held>>

\* The comparison, with the key as it is by now.  The second search of delete is
\* given v, not &v: a key it FOUND would be written through a value.
FindKey(t) ==
    /\ At(t, "key")
    /\ LET l == loc[t]
           k == node[l.tp].key
       IN  CASE l.key < k ->
                    Goto(t, "link", [result |-> "NOTFOUND_L", next |-> Link(l.tp, TRUE)])
             [] l.key > k ->
                    Goto(t, "link", [result |-> "NOTFOUND_R", next |-> Link(l.tp, FALSE)])
             [] l.key = k /\ l.auxRoot = baseRoot -> Goto(t, l.then, [result |-> "FOUND"])
             [] l.key = k /\ l.auxRoot # baseRoot -> Crash(t)
    /\ UNCHANGED <<node, op, work, held>>

\* A lookup is find and nothing else.
Find(t) ==
    /\ At(t, "find")
    /\ Return(t)
    /\ UNCHANGED <<node, op, work>>

-----------------------------------------------------------------------------
(* help and what it calls, for the record hop met at the node hnode, whose    *)
(* parent was read in hpred's link; "back" is where the caller goes on.      *)

\* help's first argument is atomic_load_ptr(*pred).
HelpPred(t) ==
    /\ At(t, "helpPred")
    /\ LET l == loc[t]
       IN  Goto(t, CASE Flag(l.hop) = "CHILDCAS" -> "casLink"
                     [] Flag(l.hop) = "RELOCATE" -> "relocState"
                     [] Flag(l.hop) = "MARK"     -> "markLeft",
                [hpred |-> Load(l.pred)])
    /\ UNCHANGED <<node, op, work, held>>

\* helpChildCAS: swing the link, then clear the node's op; the record stays
\* reachable for helpers that come late.
CasLink(t) ==
    /\ At(t, "casLink")
    /\ LET l    == loc[t]
           o    == op[l.hop]
           side == Link(l.hnode, o.isLeft)[2]
       IN  /\ node' = IF node[l.hnode][side] = o.expected
                      THEN [node EXCEPT ![l.hnode][side] = o.update] ELSE node
           /\ Goto(t, "casClear", <<>>)
    /\ UNCHANGED <<op, work, held>>

CasClear_LeavesRecord(t) ==
    /\ At(t, "casClear")
    /\ Goto(t, loc[t].back, <<>>)
    /\ UNCHANGED <<node, op, work, held>>
CasClear(t) ==
    /\ At(t, "casClear")
    /\ LET l == loc[t]
       IN  /\ IF node[l.hnode].op = l.hop THEN Swing(l.hnode, op, Plain("NONE"))
                                           ELSE UNCHANGED <<node, op>>
           /\ Goto(t, l.back, <<>>)
    /\ UNCHANGED <<work, held>>

\* helpMarked: the marked node's left child is to take its place.  IS_NULL looks
\* at the address of the link, which is never odd, so a right child is not seen.
MarkLeft(t) ==
    /\ At(t, "markLeft")
    /\ Goto(t, "markSide", [newRef |-> node[loc[t].hnode].left])
    /\ UNCHANGED <<node, op, work, held>>

MarkSide(t) ==
    /\ At(t, "markSide")
    /\ LET l == loc[t]
       IN  IF IsNode(l.hpred)
           THEN Goto(t, "markCas", [isLeft |-> node[l.hpred].left = l.hnode])
           ELSE Crash(t)
    /\ UNCHANGED <<node, op, work, held>>

MarkCas(t) ==
    /\ At(t, "markCas")
    /\ LET l == loc[t]
       IN  IF node[l.hpred].op = l.hpredOp
           THEN /\ Swing(l.hpred, op, [type |-> "CHILDCAS", isLeft |-> l.isLeft,
                                       expected |-> l.hnode, update |-> l.newRef])
                /\ Goto(t, "casLink", [hop |-> Len(op) + 1, hnode |-> l.hpred])
           ELSE Goto(t, l.back, <<>>) /\ UNCHANGED <<node, op>>
    /\ UNCHANGED <<work, held>>

\* helpRelocate: read the state and the destination.
RelocState(t) ==
    /\ At(t, "relocState")
    /\ Goto(t, "relocDest", [seen |-> op[loc[t].hop].state])
    /\ UNCHANGED <<node, op, work, held>>

RelocDest(t) ==
    /\ At(t, "relocDest")
    /\ LET l    == loc[t]
           dest == Load(op[l.hop].dest)
       IN  CASE ~IsNode(dest) /\ l.seen = "FAILED" -> Goto(t, "relocMark", [real |-> dest])
             [] ~IsNode(dest) /\ l.seen # "FAILED" -> Crash(t)
             [] IsNode(dest) -> Goto(t, CASE l.seen = "ONGOING"    -> "relocOld"
                                          [] l.seen = "SUCCESSFUL" -> "relocKey"
                                          [] l.seen = "FAILED"     -> "relocMark",
                                     [real |-> dest])
    /\ UNCHANGED <<node, op, work, held>>

RelocOld(t) ==
    /\ At(t, "relocOld")
    /\ Goto(t, "relocClaim", [oldOp |-> node[loc[t].real].op])
    /\ UNCHANGED <<node, op, work, held>>

\* Publish the record at the destination too.  A failing compare-and-swap writes
\* what it found into the record's own dest_op, for the next helper to expect.
RelocClaim(t) ==
    /\ At(t, "relocClaim")
    /\ LET l  == loc[t]
           is == node[l.real].op
       IN  /\ IF is = op[l.hop].destOp
              THEN node' = [node EXCEPT ![l.real].op = l.hop] /\ UNCHANGED op
              ELSE op' = [op EXCEPT ![l.hop].destOp = is] /\ UNCHANGED node
           /\ Goto(t, IF is = op[l.hop].destOp \/ l.oldOp = l.hop
                      THEN "relocWin" ELSE "relocLose", <<>>)
    /\ UNCHANGED <<work, held>>

RelocWin(t) ==
    /\ At(t, "relocWin")
    /\ op' = IF op[loc[t].hop].state = "ONGOING"
             THEN [op EXCEPT ![loc[t].hop].state = "SUCCESSFUL"] ELSE op
    /\ Goto(t, "relocKey", [seen |-> "SUCCESSFUL"])
    /\ UNCHANGED <<node, work, held>>

\* The state is read again before the attempt to make it FAILED.
RelocLose(t) ==
    /\ At(t, "relocLose")
    /\ Goto(t, "relocFail", [seen |-> op[loc[t].hop].state])
    /\ UNCHANGED <<node, op, work, held>>

RelocFail(t) ==
    /\ At(t, "relocFail")
    /\ op' = IF op[loc[t].hop].state = "ONGOING"
             THEN [op EXCEPT ![loc[t].hop].state = "FAILED"] ELSE op
    /\ Goto(t, IF loc[t].seen = "SUCCESSFUL" THEN "relocKey" ELSE "relocMark", <<>>)
    /\ UNCHANGED <<node, work, held>>

RelocKey_KeepsKey(t) ==
    /\ At(t, "relocKey")
    /\ Goto(t, "relocClear", <<>>)
    /\ UNCHANGED <<node, op, work, held>>
RelocKey(t) ==
    /\ At(t, "relocKey")
    /\ node' = [node EXCEPT ![loc[t].real].key = op[loc[t].hop].replaceKey]
    /\ Goto(t, "relocClear", <<>>)
    /\ UNCHANGED <<op, work, held>>

RelocClear(t) ==
    /\ At(t, "relocClear")
    /\ LET l == loc[t]
       IN  /\ IF node[l.real].op = l.hop THEN Swing(l.real, op, Plain("NONE"))
                                          ELSE UNCHANGED <<node, op>>
           /\ Goto(t, "relocMark", <<>>)
    /\ UNCHANGED <<work, held>>

\* Mark the node whose key went up, or set it free; then unlink it.  When its
\* parent is the destination, pred_op becomes a fresh record that nobody holds.
RelocMark(t) ==
    /\ At(t, "relocMark")
    /\ LET l    == loc[t]
           done == l.seen = "SUCCESSFUL"
           next == [seen |-> l.seen,
                    hpredOp |-> IF l.real = l.hpred THEN NULL ELSE l.hpredOp]
       IN  IF l.real = l.hnode
           THEN Goto(t, l.back, <<>>) /\ UNCHANGED <<node, op>>
           ELSE /\ IF node[l.hnode].op = l.hop
                   THEN Swing(l.hnode, op, Plain(IF done THEN "MARK" ELSE "NONE"))
                   ELSE UNCHANGED <<node, op>>
                /\ Goto(t, IF done THEN "markLeft" ELSE l.back, next)
    /\ UNCHANGED <<work, held>>

-----------------------------------------------------------------------------
(* add. *)

\* A key that is FOUND ends the call; else the node is read again from its link.
AddNode(t) ==
    /\ At(t, "add")
    /\ LET l == loc[t]
           n == Load(l.curr)
       IN  CASE l.result = "FOUND" -> Return(t)
             [] l.result # "FOUND" /\ IsNode(n) -> Goto(t, "addChild", [tp |-> n]) /\ UNCHANGED held
             [] l.result # "FOUND" /\ ~IsNode(n) -> Crash(t) /\ UNCHANGED held
    /\ UNCHANGED <<node, op, work>>

AddChild(t) ==
    /\ At(t, "addChild")
    /\ LET l == loc[t]
           side == Link(l.tp, l.result = "NOTFOUND_L")[2]
       IN  Goto(t, "addCas", [old |-> node[l.tp][side]])
    /\ UNCHANGED <<node, op, work, held>>

\* Publish the insertion at the parent, whose op must be the one find read.
AddCas_AnyOp(t) ==
    /\ At(t, "addCas")
    /\ LET l == loc[t]
       IN  /\ node' = [Append(node, [key |-> l.key, op |-> Len(op) + 2, left |-> Nil,
                                     right |-> Nil]) EXCEPT ![l.tp].op = Len(op) + 1]
           /\ op' = op \o <<[type |-> "CHILDCAS", isLeft |-> l.result = "NOTFOUND_L",
                             expected |-> l.old, update |-> Len(node) + 1], Plain("NONE")>>
           /\ Goto(t, "casLink", [hop |-> Len(op) + 1, hnode |-> l.tp, back |-> "return"])
    /\ UNCHANGED <<work, held>>
AddCas(t) ==
    /\ At(t, "addCas")
    /\ LET l == loc[t]
       IN  IF node[l.tp].op = l.currOp
           THEN /\ node' = [Append(node, [key |-> l.key, op |-> Len(op) + 2, left |-> Nil,
                                          right |-> Nil]) EXCEPT ![l.tp].op = Len(op) + 1]
                /\ op' = op \o <<[type |-> "CHILDCAS", isLeft |-> l.result = "NOTFOUND_L",
                                  expected |-> l.old, update |-> Len(node) + 1], Plain("NONE")>>
                /\ Goto(t, "casLink", [hop |-> Len(op) + 1, hnode |-> l.tp, back |-> "return"])
           ELSE Goto(t, "link", StartFind(baseRoot, "add")) /\ UNCHANGED <<node, op>>
    /\ UNCHANGED <<work, held>>

Finish(t) ==
    /\ At(t, "return")
    /\ Return(t)
    /\ UNCHANGED <<node, op, work>>

-----------------------------------------------------------------------------
(* delete. *)

DeleteNode(t) ==
    /\ At(t, "delete")
    /\ LET l == loc[t]
           n == Load(l.curr)
       IN  CASE l.result # "FOUND" -> Return(t)
             [] l.result = "FOUND" /\ IsNode(n) -> Goto(t, "delLeft", [dp |-> n]) /\ UNCHANGED held
             [] l.result = "FOUND" /\ ~IsNode(n) -> Crash(t) /\ UNCHANGED held
    /\ UNCHANGED <<node, op, work>>

DeleteLeft(t) ==
    /\ At(t, "delLeft")
    /\ Goto(t, "delRight", [old |-> node[loc[t].dp].left])
    /\ UNCHANGED <<node, op, work, held>>

\* With both children, find the least key on the right: a search for the deleted
\* key below the node at the same link.
DeleteRight(t) ==
    /\ At(t, "delRight")
    /\ LET l == loc[t]
       IN  IF l.old = Nil \/ node[l.dp].right = Nil
           THEN Goto(t, "delMark", <<>>)
           ELSE Goto(t, "link", Over([dest |-> l.curr, destOp |-> l.currOp],
                                     StartFind(l.curr, "delCheck")))
    /\ UNCHANGED <<node, op, work, held>>

DeleteMark(t) ==
    /\ At(t, "delMark")
    /\ LET l == loc[t]
       IN  IF node[l.dp].op = l.currOp
           THEN /\ Swing(l.dp, op, Plain("MARK"))
                /\ Goto(t, "delPred", [hnode |-> l.dp, hpredOp |-> l.predOp, back |-> "return"])
           ELSE Goto(t, "link", StartFind(baseRoot, "delete")) /\ UNCHANGED <<node, op>>
    /\ UNCHANGED <<work, held>>

DeletePred(t) ==
    /\ At(t, "delPred")
    /\ Goto(t, "markLeft", [hpred |-> Load(loc[t].pred)])
    /\ UNCHANGED <<node, op, work, held>>

\* The second search was aborted, or the node's op has changed: start again.
DeleteAbort(t) ==
    /\ At(t, "abort")
    /\ Goto(t, "link", StartFind(baseRoot, "delete"))
    /\ UNCHANGED <<node, op, work, held>>

DeleteCheck_Skipped(t) ==
    /\ At(t, "delCheck")
    /\ Goto(t, "delReplace", <<>>)
    /\ UNCHANGED <<node, op, work, held>>
DeleteCheck(t) ==
    /\ At(t, "delCheck")
    /\ LET l == loc[t]
       IN  IF node[l.dp].op # l.destOp
           THEN Goto(t, "link", StartFind(baseRoot, "delete"))
           ELSE Goto(t, "delReplace", <<>>)
    /\ UNCHANGED <<node, op, work, held>>

\* The replacement is read again from its link, and so is its parent; its key is
\* read after that.
DeleteReplace(t) ==
    /\ At(t, "delReplace")
    /\ Goto(t, "delReplacePred", [tp |-> Load(loc[t].curr)])
    /\ UNCHANGED <<node, op, work, held>>

DeleteReplacePred(t) ==
    /\ At(t, "delReplacePred")
    /\ Goto(t, "delReplaceKey", [hpred |-> Load(loc[t].pred)])
    /\ UNCHANGED <<node, op, work, held>>

DeleteReplaceKey(t) ==
    /\ At(t, "delReplaceKey")
    /\ LET n == loc[t].tp
       IN  IF IsNode(n) THEN Goto(t, "delCas", [rkey |-> node[n].key]) ELSE Crash(t)
    /\ UNCHANGED <<node, op, work, held>>

DeleteCas(t) ==
    /\ At(t, "delCas")
    /\ LET l == loc[t]
       IN  IF node[l.tp].op = l.currOp
           THEN /\ Swing(l.tp, op, [type |-> "RELOCATE", state |-> "ONGOING", dest |-> l.dest,
                                    destOp |-> l.destOp, replaceKey |-> l.rkey])
                /\ Goto(t, "relocState", [hop |-> Len(op) + 1, hnode |-> l.tp,
                                          hpredOp |-> l.predOp, back |-> "delEnd"])
           ELSE Goto(t, "link", StartFind(baseRoot, "delete")) /\ UNCHANGED <<node, op>>
    /\ UNCHANGED <<work, held>>

\* helpRelocate returned whether the relocation succeeded.
DeleteEnd(t) ==
    /\ At(t, "delEnd")
    /\ IF loc[t].seen = "SUCCESSFUL" THEN Return(t)
       ELSE Goto(t, "link", StartFind(baseRoot, "delete")) /\ UNCHANGED held
    /\ UNCHANGED <<node, op, work>>

-----------------------------------------------------------------------------

Init ==
    /\ work \in Workloads
    /\ node = <<[key |-> -1, op |-> 1, left |-> NULL, right |-> NULL]>>
    /\ op = <<Plain("NONE")>>
    /\ loc = [t \in Threads |-> Idle]
    /\ held = {}

Step(t) ==
    \/ Prepare(t) \/ Call(t) \/ FindLink(t) \/ FindOp(t) \/ FindKey(t) \/ Find(t)
    \/ HelpPred(t) \/ CasLink(t) \/ CasClear(t) \/ MarkLeft(t) \/ MarkSide(t) \/ MarkCas(t)
    \/ RelocState(t) \/ RelocDest(t) \/ RelocOld(t) \/ RelocClaim(t) \/ RelocWin(t)
    \/ RelocLose(t) \/ RelocFail(t) \/ RelocKey(t) \/ RelocClear(t) \/ RelocMark(t)
    \/ AddNode(t) \/ AddChild(t) \/ AddCas(t) \/ Finish(t)
    \/ DeleteNode(t) \/ DeleteLeft(t) \/ DeleteRight(t) \/ DeleteMark(t) \/ DeletePred(t)
    \/ DeleteAbort(t) \/ DeleteCheck(t) \/ DeleteReplace(t) \/ DeleteReplacePred(t)
    \/ DeleteReplaceKey(t) \/ DeleteCas(t) \/ DeleteEnd(t)

Next == \E t \in Threads : Step(t)

Spec == Init /\ [][Next]_vars
FairSpec == Spec /\ \A t \in Threads : WF_vars(Step(t))

-----------------------------------------------------------------------------
(* What BstHelpingProofs proves of all threads that add and look up. *)

NoDeletes == \A t \in Threads : "delete" \notin work.ops[t]

Adding == {loc[t].key : t \in {u \in Threads : loc[u].pc # "idle" /\ loc[u].call = "add"}}

\* S has what hangs from the links of its nodes.
Closed(S) == \A n \in S : {node[n].left, node[n].right} \cap DOMAIN node \subseteq S

\* The nodes S hang in order from the links of n.  A node that an operation is at work on
\* may hold the key of a node above it: the key that has gone up.
InOrder(n, S) ==
    LET smaller == {m \in S : node[m].key < node[n].key}
        greater == {m \in S : \/ node[m].key > node[n].key
                              \/ node[m].key = node[n].key /\ Flag(node[m].op) \in {"MARK", "RELOCATE"}}
    IN  /\ \E L \in SUBSET smaller : Closed(L) /\ (IsNode(node[n].left) => node[n].left \in L)
        /\ \E R \in SUBSET greater : Closed(R) /\ (IsNode(node[n].right) => node[n].right \in R)

\* bst_conc_nblocking4.c:128-304.  Whoever carries an operation out, and however
\* late, the links make one search tree below the root.
SearchTree == \E S \in SUBSET DOMAIN node : 1 \in S /\ Closed(S) /\ \A n \in S : InOrder(n, S)

\* What a walk to k that nobody disturbs goes through, from the root on, has k.
NextTo(k, n) == node[n][IF k < node[n].key THEN "left" ELSE "right"]
WalkStaysIn(S, k) ==
    1 \in S /\ \A n \in S : node[n].key # k /\ IsNode(NextTo(k, n)) => NextTo(k, n) \in S
Present(k) == \A S \in SUBSET DOMAIN node : WalkStaysIn(S, k) => \E n \in S : node[n].key = k

\* bst_conc_nblocking4.c:394-474, "insert {%d} done".  While no thread deletes, an
\* add that has returned is found by any walk from then on: no help that comes
\* late, no second add at the same link takes the node out again.
AddsKept == NoDeletes => \A k \in held : Present(k)

\* bst_conc_nblocking4.c:382-386.  A search that says FOUND says so of a key that
\* was added and not deleted, or whose add has begun; in particular a relocated
\* key is gone from where it was by the time it is deleted where it went.
FoundIsTrue ==
    \A t \in Threads : At(t, "find") /\ loc[t].result = "FOUND" =>
        loc[t].late \/ loc[t].key \in held \cup Adding

\* bst_conc_nblocking4.c:406, :491, :525.  The links that add and delete read again
\* after find still lead to a node.  For the remove threads this is what line 619
\* says: "Deletion of Key {%d} successfully done", key after key.
NoCrash == \A t \in Threads : loc[t].pc # "crash"

=============================================================================
