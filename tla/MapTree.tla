------------------------------- MODULE MapTree -------------------------------
(***************************************************************************)
(* The tree of a task's mappings (kernel/src/vm/MapTree.h, and             *)
(* kernel/src/runtime/BinarySearchTree.h below it).  A tree is empty or    *)
(* has a left subtree, a leaf and a right subtree; a leaf maps `size'      *)
(* pages of the VM object `entry' from page `address' on.                  *)
(***************************************************************************)
EXTENDS Integers, Sequences

Empty == <<>>
Node(left, leaf, right) == <<left, leaf, right>>

RECURSIVE InOrder(_)
InOrder(tree) == IF tree = Empty THEN <<>> ELSE InOrder(tree[1]) \o <<tree[2]>> \o InOrder(tree[3])
Leaves(tree) == LET s == InOrder(tree) IN {s[i] : i \in DOMAIN s}

\* insert() panics when the key is there already.
HasKey(tree, address) == \E l \in Leaves(tree) : l.address = address
RECURSIVE Insert(_, _)
Insert(tree, leaf) ==
    CASE tree = Empty -> Node(Empty, leaf, Empty)
      [] tree # Empty /\ tree[2].address > leaf.address ->
            Node(Insert(tree[1], leaf), tree[2], tree[3])
      [] OTHER -> Node(tree[1], tree[2], Insert(tree[3], leaf))

RECURSIVE FindMin(_)
FindMin(tree) == IF tree[1] = Empty THEN tree[2] ELSE FindMin(tree[1])

\* A leaf with two children is overwritten by its successor, which is then removed.
RECURSIVE RemoveCopied(_, _)
RemoveCopied(tree, address) ==
    CASE tree = Empty -> tree
      [] tree # Empty /\ address < tree[2].address ->
            Node(RemoveCopied(tree[1], address), tree[2], tree[3])
      [] tree # Empty /\ address > tree[2].address ->
            Node(tree[1], tree[2], RemoveCopied(tree[3], address))
      [] OTHER -> IF tree[1] # Empty /\ tree[3] # Empty
                  THEN Node(tree[1], FindMin(tree[3]), tree[3])
                  ELSE tree[1] \o tree[3]
RECURSIVE Remove(_, _)
Remove(tree, address) ==
    CASE tree = Empty -> tree
      [] tree # Empty /\ address < tree[2].address ->
            Node(Remove(tree[1], address), tree[2], tree[3])
      [] tree # Empty /\ address > tree[2].address ->
            Node(tree[1], tree[2], Remove(tree[3], address))
      [] OTHER -> IF tree[1] # Empty /\ tree[3] # Empty
                  THEN LET next == FindMin(tree[3])
                       IN  Node(tree[1], next, Remove(tree[3], next.address))
                  ELSE tree[1] \o tree[3]     \* the child there is, if any

\* remove() looks at the parent of a leaf with one child; the root has none.
RootWithOneChild(tree, address) ==
    /\ tree # Empty /\ tree[2].address = address
    /\ (tree[1] = Empty) # (tree[3] = Empty)

Contains(leaf, address) == address >= leaf.address /\ address - leaf.address < leaf.size

Overlaps(leaf, address, size) ==
    LET x1 == leaf.address
        x2 == leaf.address + leaf.size - 1
        y1 == address
        y2 == address + size - 1
    IN  \/ x1 >= y1 /\ x1 <= y2
        \/ x2 >= y1 /\ x2 <= y2
        \/ y1 >= x1 /\ y1 <= x2
        \/ y2 >= x1 /\ y2 <= x2

\* The searches give the leaves found: none, or one.
RECURSIVE Find(_, _)
Find(tree, address) ==
    CASE tree = Empty -> {}
      [] tree # Empty /\ address < tree[2].address -> Find(tree[1], address)
      [] OTHER -> IF address = tree[2].address \/ Contains(tree[2], address)
                  THEN {tree[2]} ELSE Find(tree[3], address)

RECURSIVE FindOverlapping(_, _, _)
FindOverlapping(tree, address, size) ==
    IF tree = Empty THEN {}
    ELSE IF Overlaps(tree[2], address, size) THEN {tree[2]}
    ELSE LET left == FindOverlapping(tree[1], address, size)
         IN  IF left # {} THEN left ELSE FindOverlapping(tree[3], address, size)

RECURSIVE LeafFor(_, _)
LeafFor(tree, entry) ==
    IF tree = Empty THEN {}
    ELSE IF tree[2].entry = entry THEN {tree[2]}
    ELSE LET left == LeafFor(tree[1], entry)
         IN  IF left # {} THEN left ELSE LeafFor(tree[3], entry)

\* Map::add(): the first free window from start on; end - size is unsigned.
RECURSIVE FirstFit(_, _, _, _)
FirstFit(tree, base, limit, size) ==
    IF base >= limit THEN {}
    ELSE LET conflict == FindOverlapping(tree, base, size)
         IN  IF conflict = {} THEN {base}
             ELSE FirstFit(tree, (CHOOSE l \in conflict : TRUE).address
                                     + (CHOOSE l \in conflict : TRUE).size, limit, size)
=============================================================================
