------------------------------- MODULE Treap --------------------------------
(***************************************************************************)
(* treap.h: the store's tree.  A node is never changed once it is          *)
(* published: an operation clones the path it touches, and the nodes it    *)
(* replaces wait on a retired list until no captured view can reach them.  *)
(* The owner's thread edits, forks, captures and reclaims; the snapshot    *)
(* thread reads a captured view, one node at a time, meanwhile.            *)
(*                                                                         *)
(* heap is the allocated nodes, blobs the allocated value blocks with      *)
(* their reference counts.  A retired list is a bag of nodes, so that a    *)
(* node put on it twice shows; its order decides nothing.  An operation is *)
(* threaded through op = the memory it has changed, the nodes it allocated *)
(* (newest first), the nodes it retires, and the allocations it is still   *)
(* granted.                                                                *)
(***************************************************************************)
EXTENDS Integers, Sequences, FiniteSets, Bags, TLC

CONSTANTS Keys,      \* 1 .. n
          Prio,      \* Keys -> Int: the hash of a key; equal hashes are allowed
          Vals,      \* 0 is the empty value, which has no block
          NoMap,
          Ranges,    \* the ranges that are deleted: <<from, to>>
          Stored,    \* the snapshot files a run starts from: pairs in key order
          MaxNodes,  \* bound: nodes allocated at a time
          MaxBlobs,  \* bound: value blocks allocated at a time
          MaxEdits,  \* bound: edits tried
          MaxViews,  \* bound: captures
          Failures   \* the numbers of allocations after which one may fail

VARIABLES heap,   \* node id -> [key, blob, left, right, size]
          blobs,  \* block id -> [val, refs]
          live,   \* [root, count, pend]
          snap,   \* [root, count, pend]
          copy,   \* the working copy: [root, count, alloc, free], or NoMap
          saver,  \* the snapshot task: [at, cur, stack, out]
          file,   \* the pairs of the last complete save
          edits,  \* the number of edits tried
          views   \* the number of captures

vars == <<heap, blobs, live, snap, copy, saver, file, edits, views>>

Nil == 0
Least(S) == CHOOSE x \in S : \A y \in S : x <= y
FreeNodes(op) == (1 .. MaxNodes) \ DOMAIN op.heap
FreeBlobs(op) == (1 .. MaxBlobs) \ DOMAIN op.blobs
IdleSaver == [at |-> "idle", cur |-> Nil, stack |-> <<>>, out |-> <<>>]

---------------------------------------------------------------------------
(* Operations in progress *)

StartOp(grant) ==
  [heap |-> heap, blobs |-> blobs, alloc |-> <<>>, free |-> EmptyBag, left |-> grant,
   oom |-> FALSE]

\* treap_op_push_free
Retire(op, n) == [op EXCEPT !.free = @ (+) SetToBag({n})]

\* TREAP_MALLOC and treap_op_push_alloc; the node is Head(op.alloc).
Allocate(op, node) ==
  IF op.left = 0 \/ FreeNodes(op) = {} THEN [op EXCEPT !.oom = TRUE]
  ELSE [op EXCEPT !.heap = @ @@ (Least(FreeNodes(op)) :> node),
                  !.alloc = <<Least(FreeNodes(op))>> \o @, !.left = @ - 1]

\* treap_blob_ref
Ref(bs, b) == IF b = Nil THEN bs ELSE [bs EXCEPT ![b].refs = @ + 1]

\* treap_blob_unref: the block goes with its last reference.
Unref(bs, b) ==
  IF b = Nil THEN bs
  ELSE IF bs[b].refs > 1 THEN [bs EXCEPT ![b].refs = @ - 1]
  ELSE [c \in DOMAIN bs \ {b} |-> bs[c]]

\* treap_clone_node: the clone shares the value block; its size is stale.
Cloned(c, src) ==
  IF c.oom THEN c ELSE Retire([c EXCEPT !.blobs = Ref(@, c.heap[src].blob)], src)
Clone(op, src) == Cloned(Allocate(op, op.heap[src]), src)

SizeOf(h, n) == IF n = Nil THEN 0 ELSE h[n].size
FixSize(h, n) == [h EXCEPT ![n].size = 1 + SizeOf(h, h[n].left) + SizeOf(h, h[n].right)]

\* treap_op_fix_sizes: along the allocation chain, newest first.
RECURSIVE FixAlong(_, _)
FixAlong(h, chain) == IF chain = <<>> THEN h ELSE FixAlong(FixSize(h, Head(chain)), Tail(chain))
FixSizesTopDown(op) ==  \* mutant: oldest clone first
  [op EXCEPT !.heap = FixAlong(@, [i \in 1 .. Len(op.alloc) |-> op.alloc[Len(op.alloc) + 1 - i]])]
FixSizes(op) == [op EXCEPT !.heap = FixAlong(@, op.alloc)]

SetLeft(op, n, x) == [op EXCEPT !.heap[n].left = x]
SetRight(op, n, x) == [op EXCEPT !.heap[n].right = x]

\* treap_priority_cmp(a, b) > 0
Above(h, a, b) ==
  LET p == Prio[h[a].key] q == Prio[h[b].key]
  IN p > q \/ (p = q /\ h[a].key > h[b].key)

\* treap_split: nodes with a key >= key go right; the whole path is cloned.
HangLeft(s, n) == [op |-> SetLeft(s.op, n, s.r), l |-> s.l, r |-> n]
HangRight(s, n) == [op |-> SetRight(s.op, n, s.l), l |-> n, r |-> s.r]
RECURSIVE SplitPath(_, _, _)
SplitBelow(c, root, key) ==
  IF c.oom THEN [op |-> c, l |-> Nil, r |-> Nil]
  ELSE IF key <= c.heap[root].key
       THEN HangLeft(SplitPath(c, c.heap[root].left, key), Head(c.alloc))
       ELSE HangRight(SplitPath(c, c.heap[root].right, key), Head(c.alloc))
SplitPath(op, root, key) ==
  IF root = Nil \/ op.oom THEN [op |-> op, l |-> Nil, r |-> Nil]
  ELSE SplitBelow(Clone(op, root), root, key)
Split(op, root, key) == [SplitPath(op, root, key) EXCEPT !.op = FixSizes(@)]

\* treap_merge: the root is the one with the higher priority, cloned.
OverRight(m, n) == [op |-> SetRight(m.op, n, m.root), root |-> n]
OverLeft(m, n) == [op |-> SetLeft(m.op, n, m.root), root |-> n]
RECURSIVE MergePath(_, _, _)
MergeBelow(c, l, r, leftTop) ==
  IF c.oom THEN [op |-> c, root |-> Nil]
  ELSE IF leftTop THEN OverRight(MergePath(c, c.heap[l].right, r), Head(c.alloc))
  ELSE OverLeft(MergePath(c, l, c.heap[r].left), Head(c.alloc))
MergePath(op, l, r) ==
  IF l = Nil \/ r = Nil \/ op.oom
  THEN [op |-> op, root |-> IF op.oom THEN Nil ELSE IF l # Nil THEN l ELSE r]
  ELSE MergeBelow(Clone(op, IF Above(op.heap, l, r) THEN l ELSE r), l, r, Above(op.heap, l, r))
Merge(op, l, r) == [MergePath(op, l, r) EXCEPT !.op = FixSizes(@)]

\* treap_remove_min: clones the left spine down to the node it takes out.
AboveMin(m, n) == [op |-> SetLeft(m.op, n, m.root), root |-> n, min |-> m.min]
RECURSIVE RemovePath(_, _)
RemoveBelow(c, root) ==
  IF c.oom THEN [op |-> c, root |-> Nil, min |-> Nil]
  ELSE AboveMin(RemovePath(c, c.heap[root].left), Head(c.alloc))
RemovePath(op, root) ==
  IF op.oom THEN [op |-> op, root |-> Nil, min |-> Nil]
  ELSE IF op.heap[root].left = Nil
       THEN [op |-> op, root |-> op.heap[root].right, min |-> root]
  ELSE RemoveBelow(Clone(op, root), root)
RemoveMin(op, root) == [RemovePath(op, root) EXCEPT !.op = FixSizes(@)]

RECURSIVE Leftmost(_, _)
Leftmost(h, n) == IF h[n].left = Nil THEN n ELSE Leftmost(h, h[n].left)
StartsAt(op, root, key) == root # Nil /\ op.heap[Leftmost(op.heap, root)].key = key

\* A split's right part without its first node, which is retired.
Taken(m) == IF m.op.oom THEN m ELSE [m EXCEPT !.op = Retire(@, m.min)]
TakeFirst(op, root) == Taken(RemoveMin(op, root))

\* treap_node_attach_value, for the node allocated last.
AttachValue(op, v) ==
  IF op.oom \/ v = 0 THEN op
  ELSE IF op.left = 0 \/ FreeBlobs(op) = {} THEN [op EXCEPT !.oom = TRUE]
  ELSE LET b == Least(FreeBlobs(op))
       IN [op EXCEPT !.blobs = @ @@ (b :> [val |-> v, refs |-> 1]),
                     !.heap[Head(op.alloc)].blob = b, !.left = @ - 1]

\* treap_set and treap_delete up to the publication: [op, root, delta].
Changed(m, delta) == [op |-> m.op, root |-> m.root, delta |-> delta]
NewNode(op, key, v) ==
  IF op.oom THEN op
  ELSE AttachValue(Allocate(op, [key |-> key, blob |-> Nil, left |-> Nil, right |-> Nil, size |-> 1]), v)
MergeNew(new, right) ==
  IF new.oom THEN [op |-> new, root |-> Nil] ELSE Merge(new, Head(new.alloc), right)
MergeOnto(l, m) == Merge(m.op, l, m.root)
SetBetween(l, rest, key, v) == MergeOnto(l, MergeNew(NewNode(rest.op, key, v), rest.root))
SetAt(s, key, v) ==
  IF ~s.op.oom /\ StartsAt(s.op, s.r, key)
  THEN Changed(SetBetween(s.l, TakeFirst(s.op, s.r), key, v), 0)
  ELSE Changed(SetBetween(s.l, [op |-> s.op, root |-> s.r], key, v), 1)
SetIn(op, root, key, v) == SetAt(Split(op, root, key), key, v)

DeleteAt(s, root, key) ==
  IF ~s.op.oom /\ StartsAt(s.op, s.r, key)
  THEN Changed(MergeOnto(s.l, TakeFirst(s.op, s.r)), -1)
  ELSE [op |-> s.op, root |-> root, delta |-> 0]
DeleteIn(op, root, key) == DeleteAt(Split(op, root, key), root, key)

\* treap_op_push_free_tree
RECURSIVE RetireTree(_, _)
RetireTree(op, n) ==
  IF n = Nil THEN op
  ELSE RetireTree(RetireTree(Retire(op, n), op.heap[n].left), op.heap[n].right)

\* treap_delete_range of [from, to), 0 for no bound.
DeleteBetween(l, b) ==
  IF b.op.oom THEN Changed(Merge(b.op, l, b.r), 0)
  ELSE Changed(Merge(RetireTree(b.op, b.l), l, b.r), -SizeOf(b.op.heap, b.l))
DeleteFrom(a, to) ==
  DeleteBetween(a.l, IF to = 0 THEN [op |-> a.op, l |-> a.r, r |-> Nil] ELSE Split(a.op, a.r, to))
DeleteRangeIn(op, root, from, to) ==
  DeleteFrom(IF from = 0 THEN [op |-> op, l |-> Nil, r |-> root] ELSE Split(op, root, from), to)

---------------------------------------------------------------------------
(* Releasing memory *)

\* treap_node_release for each of a set of nodes, with the value block
\* (treap_free_chain, treap_free_tree) or without it (treap_op_discard and
\* treap_abort, which pass no counter and so never reach treap_blob_unref).
RECURSIVE UnrefAll(_, _, _)
UnrefAll(bs, h, S) ==
  IF S = {} THEN bs
  ELSE LET n == Least(S) IN UnrefAll(Unref(bs, h[n].blob), h, S \ {n})
Drop(h, S) == [n \in DOMAIN h \ S |-> h[n]]
SeqSet(s) == {s[i] : i \in 1 .. Len(s)}

\* treap_op_discard
Discard(op) ==
  /\ heap' = Drop(op.heap, SeqSet(op.alloc))
  /\ blobs' = op.blobs

\* treap_publish_op, into the live tree or into the working copy.
Publish(res) ==
  /\ heap' = res.op.heap /\ blobs' = res.op.blobs
  /\ IF copy = NoMap
     THEN /\ live' = [root |-> res.root, count |-> live.count + res.delta,
                      pend |-> res.op.free (+) live.pend]
          /\ UNCHANGED copy
     ELSE /\ copy' = [root |-> res.root, count |-> copy.count + res.delta,
                      alloc |-> res.op.alloc \o copy.alloc, free |-> copy.free (+) res.op.free]
          /\ UNCHANGED live

\* An operation that ran out of memory is taken back, one that did not is
\* published.
Outcome(res) ==
  /\ IF res.op.oom THEN Discard(res.op) /\ UNCHANGED <<live, copy>> ELSE Publish(res)
  /\ UNCHANGED <<snap, saver, file>>

Root == IF copy = NoMap THEN live.root ELSE copy.root
Grants == Failures \cup {2 * MaxNodes}

---------------------------------------------------------------------------
(* The owner's thread *)

Tried == edits < MaxEdits /\ edits' = edits + 1 /\ UNCHANGED views

Set(k, v, grant) == Tried /\ Outcome(SetIn(StartOp(grant), Root, k, v))

\* treap_delete; of a key that is not there, the cloned path is taken back.
Deleted(res) ==
  IF res.delta = 0 /\ ~res.op.oom
  THEN Discard(res.op) /\ UNCHANGED <<live, copy, snap, saver, file>>
  ELSE Outcome(res)
Delete(k, grant) == Tried /\ Deleted(DeleteIn(StartOp(grant), Root, k))

DeleteRange(from, to, grant) ==
  Tried /\ Outcome(DeleteRangeIn(StartOp(grant), Root, from, to))

\* treap_fork; a custom command's handler edits nothing but the copy until
\* it commits or aborts it.
Fork ==
  /\ copy = NoMap
  /\ copy' = [root |-> live.root, count |-> live.count, alloc |-> <<>>, free |-> EmptyBag]
  /\ UNCHANGED <<heap, blobs, live, snap, saver, file, edits, views>>

\* Mutant: what the working copy retired is freed at once.
CommitEager ==
  /\ copy # NoMap
  /\ heap' = Drop(heap, BagToSet(copy.free))
  /\ blobs' = UnrefAll(blobs, heap, BagToSet(copy.free))
  /\ live' = [live EXCEPT !.root = copy.root, !.count = copy.count]
  /\ copy' = NoMap
  /\ UNCHANGED <<snap, saver, file, edits, views>>

Commit ==
  /\ copy # NoMap
  /\ live' = [root |-> copy.root, count |-> copy.count, pend |-> copy.free (+) live.pend]
  /\ copy' = NoMap
  /\ UNCHANGED <<heap, blobs, snap, saver, file, edits, views>>

\* treap_abort, and treap_free of a working copy.
Abort ==
  /\ copy # NoMap
  /\ heap' = Drop(heap, SeqSet(copy.alloc))
  /\ copy' = NoMap
  /\ UNCHANGED <<blobs, live, snap, saver, file, edits, views>>

\* treap_capture, then posting the task; a task that cannot be posted leaves
\* the view for the next capture to supersede.
Capture(posted) ==
  /\ copy = NoMap /\ saver.at = "idle"
  /\ views < MaxViews /\ views' = views + 1
  /\ snap' = [root |-> live.root, count |-> live.count, pend |-> snap.pend (+) live.pend]
  /\ live' = [live EXCEPT !.pend = EmptyBag]
  /\ saver' = IF posted THEN [IdleSaver EXCEPT !.at = "save", !.cur = live.root] ELSE saver
  /\ UNCHANGED <<heap, blobs, copy, file, edits>>

\* Mutant: the file of a save that failed counts too.
SaveFinishUnchecked ==
  /\ copy = NoMap /\ saver.at \in {"good", "bad"}
  /\ heap' = Drop(heap, BagToSet(snap.pend))
  /\ blobs' = UnrefAll(blobs, heap, BagToSet(snap.pend))
  /\ snap' = [root |-> Nil, count |-> 0, pend |-> EmptyBag]
  /\ file' = saver.out
  /\ saver' = IdleSaver
  /\ UNCHANGED <<live, copy, edits, views>>

\* treap_save_finish, when the result of the save arrives; the file counts
\* when the save was good.
SaveFinish ==
  /\ copy = NoMap /\ saver.at \in {"good", "bad"}
  /\ heap' = Drop(heap, BagToSet(snap.pend))
  /\ blobs' = UnrefAll(blobs, heap, BagToSet(snap.pend))
  /\ snap' = [root |-> Nil, count |-> 0, pend |-> EmptyBag]
  /\ file' = IF saver.at = "good" THEN saver.out ELSE file
  /\ saver' = IdleSaver
  /\ UNCHANGED <<live, copy, edits, views>>

RECURSIVE Nodes(_, _)
Nodes(h, n) == IF n = Nil THEN {} ELSE {n} \cup Nodes(h, h[n].left) \cup Nodes(h, h[n].right)

\* treap_load: nodes arrive in key order; spine is the right spine so far,
\* deepest first.  A node takes the part of the spine it outranks as its left
\* subtree.
RECURSIVE PopBelow(_, _, _, _)
PopBelow(h, spine, n, last) ==
  IF spine # <<>> /\ ~Above(h, Head(spine), n)
  THEN PopBelow(FixSize(h, Head(spine)), Tail(spine), n, Head(spine))
  ELSE [heap |-> h, spine |-> spine, last |-> last]
RECURSIVE LoadPairs(_, _, _)
LoadPairs(op, spine, pairs) ==
  IF pairs = <<>> \/ op.oom
  THEN [op |-> [op EXCEPT !.heap = FixAlong(@, spine)],
        root |-> IF spine = <<>> THEN Nil ELSE spine[Len(spine)]]
  ELSE LET a == AttachValue(Allocate(op, [key |-> pairs[1][1], blob |-> Nil, left |-> Nil,
                                          right |-> Nil, size |-> 1]), pairs[1][2])
           n == Head(a.alloc)
           p == PopBelow(a.heap, spine, n, Nil)
           h == [p.heap EXCEPT ![n].left = p.last]
           linked == IF p.spine = <<>> THEN h ELSE [h EXCEPT ![Head(p.spine)].right = n]
       IN IF a.oom THEN [op |-> a, root |-> Nil]
          ELSE LoadPairs([a EXCEPT !.heap = linked], <<n>> \o p.spine, Tail(pairs))

\* A load that fails frees what it built and leaves the tree alone.
Load ==
  LET res == LoadPairs(StartOp(2 * MaxNodes), <<>>, file)
      old == Nodes(heap, live.root) \cup BagToSet(live.pend)
  IN /\ copy = NoMap /\ saver.at = "idle"
     /\ snap.root = Nil /\ snap.pend = EmptyBag
     /\ ~res.op.oom
     /\ heap' = Drop(res.op.heap, old)
     /\ blobs' = UnrefAll(res.op.blobs, heap, old)
     /\ live' = [root |-> res.root, count |-> Len(file), pend |-> EmptyBag]
     /\ UNCHANGED <<snap, copy, saver, file, edits, views>>

---------------------------------------------------------------------------
(* The snapshot thread: treap_save *)

\* Down the left edge to the next node in key order, write it, go right.
RECURSIVE Descend(_, _)
Descend(n, stack) == IF n = Nil THEN stack ELSE Descend(heap[n].left, <<n>> \o stack)
ValOf(n) == IF heap[n].blob = Nil THEN 0 ELSE blobs[heap[n].blob].val
SaveVisit ==
  /\ saver.at = "save"
  /\ LET stack == Descend(saver.cur, saver.stack)
         n == Head(stack)
     IN /\ stack # <<>>
        /\ saver' = [saver EXCEPT !.cur = heap[n].right, !.stack = Tail(stack),
                                  !.out = Append(@, <<heap[n].key, ValOf(n)>>)]
  /\ UNCHANGED <<heap, blobs, live, snap, copy, file, edits, views>>
SaveEnd(result) ==
  /\ saver.at = "save"
  /\ result = "good" => saver.cur = Nil /\ saver.stack = <<>>
  /\ saver' = [saver EXCEPT !.at = result]
  /\ UNCHANGED <<heap, blobs, live, snap, copy, file, edits, views>>

---------------------------------------------------------------------------
(* Queries: descents that never look at the whole tree *)

\* treap_rank
RECURSIVE Rank(_, _)
Rank(n, key) ==
  IF n = Nil THEN 0
  ELSE IF heap[n].key < key THEN SizeOf(heap, heap[n].left) + 1 + Rank(heap[n].right, key)
  ELSE Rank(heap[n].left, key)

\* treap_count_range
CountRange(from, to) ==
  LET a == IF from = 0 THEN 0 ELSE Rank(live.root, from)
      b == IF to = 0 THEN live.count ELSE Rank(live.root, to)
  IN IF b >= a THEN b - a ELSE 0

\* treap_select
RECURSIVE Select(_, _)
Select(n, i) ==
  IF n = Nil THEN Nil
  ELSE LET before == SizeOf(heap, heap[n].left)
       IN CASE i < before -> Select(heap[n].left, i)
            [] i = before -> n
            [] OTHER -> Select(heap[n].right, i - before - 1)

\* The first node with key >= from; the last node with key < to.
RECURSIVE FirstFrom(_, _, _)
FirstFrom(n, from, best) ==
  IF n = Nil THEN best
  ELSE IF from # 0 /\ heap[n].key < from THEN FirstFrom(heap[n].right, from, best)
  ELSE FirstFrom(heap[n].left, from, n)
RECURSIVE LastBefore(_, _, _)
LastBefore(n, to, best) ==
  IF n = Nil THEN best
  ELSE IF to # 0 /\ heap[n].key >= to THEN LastBefore(heap[n].left, to, best)
  ELSE LastBefore(heap[n].right, to, n)

\* treap_min_range and treap_max_range: the key found, or 0.
MinRange(root, from, to) ==
  LET n == FirstFrom(root, from, Nil)
  IN IF n = Nil \/ (to # 0 /\ heap[n].key >= to) THEN 0 ELSE heap[n].key
MaxRange(root, from, to) ==
  LET n == LastBefore(root, to, Nil)
  IN IF n = Nil \/ (from # 0 /\ heap[n].key < from) THEN 0 ELSE heap[n].key

\* treap_scan: the stack starts as the path of nodes not below the bound, and
\* each visit pushes the left edge of the right subtree (descending: mirrored).
RECURSIVE UpPath(_, _, _)
UpPath(n, from, stack) ==
  IF n = Nil THEN stack
  ELSE IF from # 0 /\ heap[n].key < from THEN UpPath(heap[n].right, from, stack)
  ELSE UpPath(heap[n].left, from, <<n>> \o stack)
RECURSIVE UpFrom(_, _)
UpFrom(stack, to) ==
  IF stack = <<>> \/ (to # 0 /\ heap[Head(stack)].key >= to) THEN <<>>
  ELSE <<heap[Head(stack)].key>> \o UpFrom(Descend(heap[Head(stack)].right, Tail(stack)), to)
ScanUp(root, from, to) == UpFrom(UpPath(root, from, <<>>), to)

RECURSIVE DownPath(_, _, _)
DownPath(n, to, stack) ==
  IF n = Nil THEN stack
  ELSE IF to # 0 /\ heap[n].key >= to THEN DownPath(heap[n].left, to, stack)
  ELSE DownPath(heap[n].right, to, <<n>> \o stack)
RECURSIVE DownFrom(_, _)
DownFrom(stack, from) ==
  IF stack = <<>> \/ (from # 0 /\ heap[Head(stack)].key < from) THEN <<>>
  ELSE <<heap[Head(stack)].key>>
       \o DownFrom(DownPath(heap[Head(stack)].left, 0, Tail(stack)), from)
ScanDown(root, from, to) == DownFrom(DownPath(root, to, <<>>), from)

---------------------------------------------------------------------------
\* A store that was just opened: the tree is loaded from its snapshot file.
Empty == [heap |-> [n \in {} |-> Nil], blobs |-> [b \in {} |-> Nil], alloc |-> <<>>,
          free |-> EmptyBag, left |-> 2 * MaxNodes, oom |-> FALSE]
Init ==
  /\ file \in Stored
  /\ LET res == LoadPairs(Empty, <<>>, file)
     IN /\ heap = res.op.heap /\ blobs = res.op.blobs
        /\ live = [root |-> res.root, count |-> Len(file), pend |-> EmptyBag]
  /\ snap = [root |-> Nil, count |-> 0, pend |-> EmptyBag]
  /\ copy = NoMap /\ saver = IdleSaver
  /\ edits = 0 /\ views = 0

Next ==
  \/ \E k \in Keys, v \in Vals, g \in Grants : Set(k, v, g)
  \/ \E k \in Keys, g \in Grants : Delete(k, g)
  \/ \E r \in Ranges, g \in Grants : DeleteRange(r[1], r[2], g)
  \/ Fork \/ Commit \/ Abort
  \/ \E posted \in BOOLEAN : Capture(posted)
  \/ SaveVisit
  \/ \E result \in {"good", "bad"} : SaveEnd(result)
  \/ SaveFinish
  \/ Load

Spec == Init /\ [][Next]_vars
---------------------------------------------------------------------------
(* Properties *)

\* The nodes a pointer leads to, freed ones included.
RECURSIVE Reach(_)
Reach(n) ==
  IF n = Nil \/ n \notin DOMAIN heap THEN {n} \ {Nil}
  ELSE {n} \cup Reach(heap[n].left) \cup Reach(heap[n].right)
CopyRoot == IF copy = NoMap THEN Nil ELSE copy.root
Trees == {live.root, snap.root, CopyRoot}

\* Nobody can come to a freed node or a freed value block: not the owner in the
\* live tree or in a working copy, and not the snapshot thread in the view it
\* is halfway through, whatever was set, deleted, committed, aborted or taken
\* back for want of memory since it started (treap_save against
\* treap_publish_op, treap_op_discard and treap_save_finish).
NothingDangles ==
  \A n \in UNION {Reach(r) : r \in Trees \cup {saver.cur} \cup SeqSet(saver.stack)} :
    /\ n \in DOMAIN heap
    /\ heap[n].blob # Nil => heap[n].blob \in DOMAIN blobs

\* Every node allocated is in a tree or waits on exactly one retired list, once,
\* and a retired node is in no tree that can still be edited: reclaiming frees
\* each node once and leaks none (treap_publish_op, treap_commit,
\* treap_capture).
RetiredOnce ==
  LET copied == IF copy = NoMap THEN [alloc |-> <<>>, free |-> EmptyBag] ELSE copy
      lists == (live.pend (+) snap.pend) (+) copied.free
      pending == BagToSet(live.pend) \cup BagToSet(snap.pend)
  IN /\ DOMAIN heap = Reach(live.root) \cup Reach(CopyRoot) \cup BagToSet(lists)
     /\ \A n \in BagToSet(lists) : CopiesIn(n, lists) = 1
     /\ pending \cap Reach(live.root) = {}
     /\ BagToSet(copied.free) \cap Reach(CopyRoot) = {}

\* Memory is freed when nobody can reach it any more, and once.
MemorySafe == NothingDangles /\ RetiredOnce

\* Each tree is the one treap its keys have: in key order, no node under one it
\* outranks (ties of the hash broken by the key), every size exact.  So two
\* nodes that applied or loaded the same contents have the same tree, and the
\* order statistics read the right sizes.
Canonical ==
  \A r \in Trees : \A n \in Reach(r) :
    /\ heap[n].size = Cardinality(Reach(n))
    /\ \A l \in Reach(heap[n].left) : heap[l].key < heap[n].key /\ Above(heap, n, l)
    /\ \A m \in Reach(heap[n].right) : heap[m].key > heap[n].key /\ Above(heap, n, m)

\* The map a tree stands for.
RECURSIVE MapOf(_)
MapOf(n) ==
  IF n = Nil THEN <<>>
  ELSE MapOf(heap[n].left) @@ (heap[n].key :> ValOf(n)) @@ MapOf(heap[n].right)

\* The queries of the live tree, by descent, against the map it stands for.
Map == INSTANCE OrderedMap WITH
  map <- MapOf(live.root),
  copy <- IF copy = NoMap THEN NoMap ELSE MapOf(copy.root),
  view <- IF saver.at = "idle" THEN NoMap ELSE MapOf(snap.root),
  out <- saver.out

\* Rank, selection, range minimum and maximum, and both scans give what the map
\* gives, for every bound (treap_rank, treap_select, treap_min_range,
\* treap_max_range, treap_scan, treap_count).
QueriesAgree ==
  LET keys == DOMAIN MapOf(live.root)
      bounds == Keys \cup {0}
  IN /\ live.count = Cardinality(keys)
     /\ \A k \in Keys : Rank(live.root, k) = Cardinality({j \in keys : j < k})
     /\ \A i \in 0 .. Cardinality(keys) :
          LET n == Select(live.root, i)
          IN IF i = Cardinality(keys) THEN n = Nil
             ELSE n # Nil /\ Cardinality({j \in keys : j < heap[n].key}) = i
     /\ \A from, to \in bounds :
          LET in == Map!Within(keys, from, to)
              asc == ScanUp(live.root, from, to)
              desc == ScanDown(live.root, from, to)
          IN /\ SeqSet(asc) = in /\ Len(asc) = Cardinality(in)
             /\ \A i \in 1 .. Len(asc) - 1 : asc[i] < asc[i + 1]
             /\ Len(desc) = Len(asc) /\ \A i \in 1 .. Len(asc) : desc[i] = asc[Len(asc) + 1 - i]
             /\ MinRange(live.root, from, to) = IF in = {} THEN 0 ELSE asc[1]
             /\ MaxRange(live.root, from, to) = IF in = {} THEN 0 ELSE desc[1]
             /\ from # 0 /\ to # 0 /\ from <= to
                  => CountRange(from, to) = Cardinality(in)

\* The trees are in canonical shape, and every descent that relies on the shape finds what it
\* should.
Searchable == Canonical /\ QueriesAgree

\* treap.h keeps the promise of OrderedMap: an edit does what it says or
\* nothing, a working copy is committed or dropped whole, and a save writes the
\* contents at its capture, in key order, while the tree goes on changing.
Implements == Map!MapSpec

\* "Every free site goes through here, so a block is freed exactly when its last
\* referencing node is" (treap_node_release).
BlocksGoWithNodes ==
  \A b \in DOMAIN blobs : blobs[b].refs = Cardinality({n \in DOMAIN heap : heap[n].blob = b})
=============================================================================
