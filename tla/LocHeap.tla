------------------------------ MODULE LocHeap ------------------------------
(***************************************************************************)
(* gps/utils/LocHeap.cpp: a binary tree in which a parent ranks at least as *)
(* high as its children.  A node counts the nodes of its subtree, and push  *)
(* takes the smaller side.  The data are timers, [timer, sec]: the one that *)
(* is due in an earlier second ranks higher.                                *)
(***************************************************************************)
EXTENDS Naturals

Nil == [size |-> 0]   \* the null LocHeapNode

Node(d) == [data |-> d, size |-> 1, left |-> Nil, right |-> Nil]

\* LocRankable::outRanks, with LocTimerDelegate::ranks
outRanks(a, b) == a.sec < b.sec

\* LocHeapNode::push: the node's data may take the place of the one it meets.
RECURSIVE NodePush(_, _)
NodePush(t, d) ==
  LET stays == IF outRanks(d, t.data) THEN d ELSE t.data
      sinks == IF outRanks(d, t.data) THEN t.data ELSE d
      at    == [t EXCEPT !.data = stays, !.size = @ + 1]
  IN CASE t.left = Nil                -> [at EXCEPT !.left  = Node(sinks)]
       [] t.left # Nil /\ t.right = Nil -> [at EXCEPT !.right = Node(sinks)]
       [] t.left # Nil /\ t.right # Nil /\ t.left.size <= t.right.size
                                      -> [at EXCEPT !.left  = NodePush(@, sinks)]
       [] OTHER                       -> [at EXCEPT !.right = NodePush(@, sinks)]

push(t, d) == IF t = Nil THEN Node(d) ELSE NodePush(t, d)

\* Mutant: the left child always replaces the top.
subTop_left(t) == IF t.left = Nil THEN "right" ELSE "left"

\* The child whose data replaces the top's: where both rank the same, the right one.
subTop(t) ==
  IF t.left = Nil \/ (t.right # Nil /\ ~outRanks(t.left.data, t.right.data))
  THEN "right" ELSE "left"

\* LocHeapNode::pop: what is left of a tree without its top.
RECURSIVE pop(_)
pop(t) ==
  IF t.left = Nil /\ t.right = Nil THEN Nil
  ELSE [t EXCEPT !.data = t[subTop(t)].data, !.size = @ - 1, ![subTop(t)] = pop(@)]

\* LocHeapNode::remove: the tree itself if the data is not in it.
RECURSIVE remove(_, _)
remove(t, d) ==
  IF t = Nil THEN Nil
  ELSE IF t.data = d THEN pop(t)
  ELSE LET l == remove(t.left, d)
           r == remove(t.right, d)
       IN IF outRanks(d, t.data) \/ (l = t.left /\ r = t.right) THEN t
          ELSE IF l # t.left THEN [t EXCEPT !.left = l, !.size = @ - 1]
          ELSE [t EXCEPT !.right = r, !.size = @ - 1]

RECURSIVE Held(_)
Held(t) == IF t = Nil THEN {} ELSE {t.data} \cup Held(t.left) \cup Held(t.right)

\* LocHeapNode::checkNodes, the test the file's own main() runs.
RECURSIVE checkNodes(_)
checkNodes(t) ==
  LET Below(u) == u = Nil \/ (~outRanks(u.data, t.data) /\ checkNodes(u))
  IN t = Nil \/ (Below(t.left) /\ Below(t.right) /\ t.size = 1 + t.left.size + t.right.size)
=============================================================================
