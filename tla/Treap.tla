-------------------------------- MODULE Treap --------------------------------
(***************************************************************************)
(* internal/orderbook/treap: one side of an order book as a binary search  *)
(* tree on prices which is a heap on random priorities, and the sum of the *)
(* quantities kept along with it.                                          *)
(*                                                                         *)
(* A pointer to a node is the tree below it: no two point to one node.     *)
(* The methods recur as functions on the trees that hold a price on no     *)
(* path twice.                                                             *)
(***************************************************************************)
EXTENDS DepthLevels

CONSTANT Priority    \* what rng.Uint32 may draw

ASSUME TreapAssumption == IsFiniteSet(Price) /\ Priority \subseteq Nat

Nil == <<>>
Node(price, quantity, priority, left, right) ==
  [price |-> price, quantity |-> quantity, priority |-> priority, left |-> left, right |-> right]

\* Trees of at most h nodes on a path.
Trees[h \in 0..Cardinality(Price)] ==
  IF h = 0 THEN {Nil}
  ELSE LET child == Trees[h - 1]
       IN  {Nil} \cup [price : Price, quantity : Qty, priority : Priority, left : child, right : child]

Tree == Trees[Cardinality(Price)]

New == [root |-> Nil, totalDepth |-> 0]

\* Mutant of RotateRight: the new root loses its right subtree.
RotateRightDrops(n) == [n.left EXCEPT !.right = [n EXCEPT !.left = Nil]]

RotateRight(n) == [n.left EXCEPT !.right = [n EXCEPT !.left = n.left.right]]
RotateLeft(n) == [n.right EXCEPT !.left = [n EXCEPT !.right = n.right.left]]

\* A child that got a greater priority is rotated up.
RaiseLeft(n) == IF n.left.priority > n.priority THEN RotateRight(n) ELSE n
RaiseRight(n) == IF n.right.priority > n.priority THEN RotateLeft(n) ELSE n

InsertNode(n, price, quantity, priority) ==
  LET insert[m \in Tree] ==
        IF m = Nil THEN Node(price, quantity, priority, Nil, Nil)
        ELSE IF price < m.price THEN RaiseLeft([m EXCEPT !.left = insert[m.left]])
        ELSE IF price > m.price THEN RaiseRight([m EXCEPT !.right = insert[m.right]])
        ELSE [m EXCEPT !.quantity = quantity]
  IN  insert[n]

\* A node with two children sinks below the greater one until it has one.
RemoveNode(n, price) ==
  LET remove[m \in Tree] ==
        IF m = Nil THEN Nil
        ELSE IF price < m.price THEN [m EXCEPT !.left = remove[m.left]]
        ELSE IF price > m.price THEN [m EXCEPT !.right = remove[m.right]]
        ELSE IF m.left = Nil THEN m.right
        ELSE IF m.right = Nil THEN m.left
        ELSE IF m.left.priority > m.right.priority
        THEN [m.left EXCEPT !.right = remove[RotateRight(m).right]]
        ELSE [m.right EXCEPT !.left = remove[RotateLeft(m).left]]
  IN  remove[n]

\* Get: the quantity at a price, 0 if there is none.
Find(n, price) ==
  LET find[m \in Tree] ==
        IF m = Nil THEN 0
        ELSE IF price < m.price THEN find[m.left]
        ELSE IF price > m.price THEN find[m.right]
        ELSE m.quantity
  IN  find[n]

MinPrice(n) ==
  LET least[m \in Tree \ {Nil}] == IF m.left = Nil THEN m.price ELSE least[m.left]
  IN  IF n = Nil THEN 0 ELSE least[n]

MaxPrice(n) ==
  LET greatest[m \in Tree \ {Nil}] == IF m.right = Nil THEN m.price ELSE greatest[m.right]
  IN  IF n = Nil THEN 0 ELSE greatest[n]

\* Insert: a quantity of 0 removes the price.
Insert(t, price, quantity, priority) ==
  [root |-> IF quantity = 0 THEN RemoveNode(t.root, price)
            ELSE InsertNode(t.root, price, quantity, priority),
   totalDepth |-> t.totalDepth + (quantity - Find(t.root, price))]
=============================================================================
