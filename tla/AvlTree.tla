------------------------------ MODULE AvlTree ------------------------------
(***************************************************************************)
(* The AVL tree template that address spaces keep their regions in.  A     *)
(* tree is a value: Null, or a node with its two subtrees and its Height   *)
(* field.  The comparison of the payloads with a key is a function cmp     *)
(* from nodes to {-1, 0, 1}: negative when the payload comes before.       *)
(***************************************************************************)
EXTENDS Integers

Null == [height |-> 0]

Leaf(n) == [node |-> n, left |-> Null, right |-> Null, height |-> 1]

GetHeight(t) == t.height

GetBalance(t) == IF t = Null THEN 0 ELSE t.right.height - t.left.height

Higher(a, b) == IF a > b THEN a ELSE b

ComputeHeight(t) ==
    [t EXCEPT !.height = Higher(GetHeight(t.left), GetHeight(t.right)) + 1]

RotateLeft(t) ==
    ComputeHeight([t.right EXCEPT
        !.left = ComputeHeight([t EXCEPT !.right = t.right.left])])

RotateRight(t) ==
    ComputeHeight([t.left EXCEPT
        !.right = ComputeHeight([t EXCEPT !.left = t.left.right])])

(* A mutated form of Balance: the zig-zag cases get one rotation. *)
BalanceOnce(u) ==
    LET t == ComputeHeight(u) IN
    IF GetBalance(t) > 1 THEN RotateLeft(t)
    ELSE IF GetBalance(t) < -1 THEN RotateRight(t) ELSE t

Balance(u) ==
    LET t == ComputeHeight(u) IN
    IF GetBalance(t) > 1
    THEN RotateLeft(IF GetBalance(t.right) < 0
                    THEN [t EXCEPT !.right = RotateRight(t.right)] ELSE t)
    ELSE IF GetBalance(t) < -1
    THEN RotateRight(IF GetBalance(t.left) > 0
                     THEN [t EXCEPT !.left = RotateLeft(t.left)] ELSE t)
    ELSE t

(* The node whose payload matches the key, or nil. *)
RECURSIVE Find(_, _, _)
Find(cmp, t, nil) ==
    IF t = Null THEN nil
    ELSE IF cmp[t.node] = 0 THEN t.node
    ELSE Find(cmp, IF cmp[t.node] > 0 THEN t.left ELSE t.right, nil)

(* Insert returns the tree as it was where the key is already there        *)
(* (CardinalityViolation), which the callers find out with Find.           *)
RECURSIVE Insert(_, _, _)
Insert(cmp, t, n) ==
    IF t = Null THEN Leaf(n)
    ELSE IF cmp[t.node] = 0 THEN t
    ELSE IF cmp[t.node] > 0
    THEN Balance([t EXCEPT !.left = Insert(cmp, t.left, n)])
    ELSE Balance([t EXCEPT !.right = Insert(cmp, t.right, n)])

RECURSIVE FindMinimum(_)
FindMinimum(t) == IF t.left = Null THEN t.node ELSE FindMinimum(t.left)

RECURSIVE RemoveMinimum(_)
RemoveMinimum(t) ==
    IF t.left = Null THEN t.right
    ELSE Balance([t EXCEPT !.left = RemoveMinimum(t.left)])

RECURSIVE Remove(_, _)
Remove(cmp, t) ==
    IF t = Null THEN Null
    ELSE IF cmp[t.node] > 0
    THEN LET l == Remove(cmp, t.left) IN
         IF l = t.left THEN t ELSE Balance([t EXCEPT !.left = l])
    ELSE IF cmp[t.node] < 0
    THEN LET r == Remove(cmp, t.right) IN
         IF r = t.right THEN t ELSE Balance([t EXCEPT !.right = r])
    ELSE IF t.left = Null /\ t.right = Null THEN Null
    ELSE IF t.left = Null THEN Balance(t.right)
    ELSE IF t.right = Null THEN Balance(t.left)
    ELSE Balance([t EXCEPT !.node = FindMinimum(t.right),
                           !.right = RemoveMinimum(t.right)])

RECURSIVE NodesOf(_)
NodesOf(t) ==
    IF t = Null THEN {} ELSE {t.node} \cup NodesOf(t.left) \cup NodesOf(t.right)

(* What the rotations are for: at every node the heights of the subtrees   *)
(* differ by at most one, and Height is the height.                        *)
RECURSIVE IsBalanced(_)
IsBalanced(t) ==
    \/ t = Null
    \/ /\ t.height = Higher(t.left.height, t.right.height) + 1
       /\ GetBalance(t) \in -1 .. 1
       /\ IsBalanced(t.left)
       /\ IsBalanced(t.right)
=============================================================================
