---------------------------- MODULE BreadthFirst ----------------------------
(* tree_7_breadth_first_search.c: numbers go into a binary search tree,      *)
(* which is printed level by level with a queue of nodes and freed.          *)
EXTENDS LinkedList, FiniteSets

CONSTANTS Numbers, MaxInput      \* bound: length of the input

VARIABLES pc, input, pos, tree, root, node, heap, current, out

NULL  == 0
Queue == -1
x     == input[pos]

Init == /\ input \in UNION {[1 .. n -> Numbers] : n \in 0 .. MaxInput}
        /\ pc = "read" /\ pos = 0 /\ root = NULL /\ node = NULL
        /\ tree = EmptyHeap /\ heap = EmptyHeap /\ current = NULL /\ out = <<>>

\* malloc() gives the leaf an address, and that address is all one needs.
tree_create_leaf(t, val) ==
    (malloc(t) :> [val |-> val, left |-> NULL, right |-> NULL]) @@ t

More == pos < Len(input) /\ input[pos + 1] # 0

ReadFirst ==
    /\ pc = "read" /\ More /\ root = NULL
    /\ tree' = tree_create_leaf(tree, input[pos + 1])
    /\ root' = malloc(tree) /\ pos' = pos + 1
    /\ UNCHANGED <<pc, input, node, heap, current, out>>

Read ==
    /\ pc = "read" /\ More /\ root # NULL
    /\ node' = root /\ pos' = pos + 1 /\ pc' = "add"
    /\ UNCHANGED <<input, tree, root, heap, current, out>>

\* Bug: a number that is there already does not end the loop.
AddForever ==
    /\ pc = "add"
    /\ IF x = tree[node].val THEN UNCHANGED <<pc, tree, node>>
       ELSE LET side == IF x < tree[node].val THEN "left" ELSE "right"
            IN  IF tree[node][side] # NULL
                THEN node' = tree[node][side] /\ UNCHANGED <<pc, tree>>
                ELSE /\ tree' = [tree_create_leaf(tree, x) EXCEPT
                                     ![node][side] = malloc(tree)]
                     /\ pc' = "read" /\ UNCHANGED node
    /\ UNCHANGED <<input, pos, root, heap, current, out>>

\* One turn of the loop in tree_add().
tree_add ==
    /\ pc = "add"
    /\ IF x = tree[node].val THEN pc' = "read" /\ UNCHANGED <<tree, node>>
       ELSE LET side == IF x < tree[node].val THEN "left" ELSE "right"
            IN  IF tree[node][side] # NULL
                THEN node' = tree[node][side] /\ UNCHANGED <<pc, tree>>
                ELSE /\ tree' = [tree_create_leaf(tree, x) EXCEPT
                                     ![node][side] = malloc(tree)]
                     /\ pc' = "read" /\ UNCHANGED node
    /\ UNCHANGED <<input, pos, root, heap, current, out>>

\* Without a number there is no tree, and its left son is asked for.
NoTree ==
    /\ pc = "read" /\ ~More /\ root = NULL
    /\ pc' = "crash"
    /\ UNCHANGED <<input, pos, tree, root, node, heap, current, out>>

Enqueue(h, t) == IF t = NULL THEN h ELSE list_push_back(h, Queue, t)
Dequeue(h, n) == list_delete(h, n)
NewQueue == list_init(EmptyHeap, Queue)

Search ==
    /\ pc = "read" /\ ~More /\ root # NULL
    /\ heap' = Enqueue(NewQueue, root)
    /\ current' = malloc(NewQueue)
    /\ pc' = "search"
    /\ UNCHANGED <<input, pos, tree, root, node, out>>

\* One turn of the loop in tree_breadth_first_search().
Visit ==
    /\ pc = "search" /\ current # Queue
    /\ LET item == tree[heap[current].data]
           h == Enqueue(Enqueue(heap, item.left), item.right)
       IN  /\ out' = Append(out, item.val)
           /\ current' = h[current].next
           /\ heap' = Dequeue(h, current)
    /\ UNCHANGED <<pc, input, pos, tree, root, node>>

RECURSIVE tree_destroy(_, _)
tree_destroy(t, n) ==
    LET l == IF t[n].left # NULL THEN tree_destroy(t, t[n].left) ELSE t
        r == IF t[n].right # NULL THEN tree_destroy(l, t[n].right) ELSE l
    IN  free(r, n)

Finish ==
    /\ pc = "search" /\ current = Queue
    /\ heap' = list_clear(heap, Queue)
    /\ tree' = tree_destroy(tree, root)
    /\ pc' = "done"
    /\ UNCHANGED <<input, pos, root, node, current, out>>

Next == ReadFirst \/ Read \/ tree_add \/ NoTree \/ Search \/ Visit \/ Finish

-----------------------------------------------------------------------------
\* The numbers before the first 0.
Given == {i \in DOMAIN input : \A j \in 1 .. i : input[j] # 0}
First(v) == CHOOSE i \in Given :
                input[i] = v /\ \A j \in Given : input[j] = v => i <= j
Tree == {input[i] : i \in Given}

\* An ancestor of v is what was inserted before everything between the two:
\* the level of v is known without building the tree.
Between(u, v, w) == (u <= w /\ w <= v) \/ (v <= w /\ w <= u)
Level ==
    LET first == [v \in Tree |-> First(v)]
    IN  [v \in Tree |-> Cardinality({u \in Tree \ {v} :
            \A w \in Tree : Between(u, v, w) => first[u] <= first[w]})]

\* Every number once, by level and then by size.
InLevelOrder(s) ==
    LET level == Level
    IN  /\ Len(s) = Cardinality(Tree) /\ {s[i] : i \in DOMAIN s} = Tree
        /\ \A i, j \in DOMAIN s : i < j =>
            level[s[i]] < level[s[j]] \/ (level[s[i]] = level[s[j]] /\ s[i] < s[j])

\* The queue is a sound list, empty when the assertion after the loop says so,
\* and holds nodes of one level followed by nodes of the next.
QueueSound ==
    pc = "search" =>
        /\ SoundLists(heap, {Queue})
        /\ current = Queue => list_is_empty(heap, Queue)
        /\ LET q == list_foreach(heap, Queue)
               levels == Level
               level == [i \in DOMAIN q |-> levels[tree[q[i]].val]]
           IN  \A i, j \in DOMAIN q :
                   i < j => level[i] <= level[j] /\ level[j] <= level[i] + 1

\* Every number once, level by level; then the memory is free again.
LevelsRight ==
    /\ pc = "done" => /\ InLevelOrder(out)
                      /\ DOMAIN tree = {} /\ DOMAIN heap = {Queue}
    /\ pc = "crash" => Tree = {}
=============================================================================
