--------------------------- MODULE Backend_proofs ---------------------------
(***************************************************************************)
(* Proofs about the phases behind the parser, for every set of trees: what *)
(* is drawn is the tree.                                                   *)
(***************************************************************************)
EXTENDS Backend, Scoping_proofs, FiniteSetTheorems

LEMMA CodegenKeepsTree == CodegenNext => UNCHANGED vars
BY DEF CodegenNext, fatalCodegenError, AssertSymbol, RefuseUnallocated,
       RefuseCallee, CombineOthers, CreateOtherCall, DeclareNowhere,
       GenerateLiteral, GenerateEmpty, GenerateVarExpr, GenerateChain,
       Combine, GeneratePrefixExpr, Negate, Minus, GenerateFnCallExpr,
       CreateCall, GenerateOperand, Declare, CreateStore, CreateRet, Branch,
       Merge, GenerateEach, Statement, EndBlock, GenerateFnDef, EndRoot,
       Generate, Do

\* What the phases do to the tree, its scopes and its symbols is the analysis.
LEMMA Analysis == BackendSpec => Spec
<1>1. BackendInit => Init
  BY DEF BackendInit, CodegenInit
<1>2. [BackendNext]_backendVars => [Next]_vars
  <2>1. GenerateNode \/ GenerateEdge => UNCHANGED vars
    BY DEF GenerateNode, GenerateEdge
  <2> QED
    BY <2>1, CodegenKeepsTree DEF BackendNext, backendVars
<1> QED
  BY <1>1, <1>2, PTL DEF BackendSpec, Spec

\* So the tree is one that the parser returns.
LEMMA TreeStays == BackendSpec => []TypeOK
BY Analysis, SemaTypeCorrect, PTL

-----------------------------------------------------------------------------
(* The graph.  When c nodes are written they are the nodes 1 to c, because   *)
(* nodes are written in the order of the text; to do are the nodes whose     *)
(* parent is written, each just before its edge, and edges.                  *)

Item(m) == [is |-> "node", id |-> m]
EdgeOf(m) == EdgeLine(Parent(m), m)

Items == {Item(m) : m \in DOMAIN tree} \cup {EdgeOf(m) : m \in 2 .. Len(tree)}
Lines == {NodeLine(m) : m \in DOMAIN tree} \cup {EdgeOf(m) : m \in 2 .. Len(tree)}

\* The line or item x comes before y: nodes in the order of the text, edges from
\* the same node too, and no edge comes twice.
Before(x, y) ==
  /\ x.is = "node" /\ y.is = "node" => x.id < y.id
  /\ x.is = "edge" /\ y.is = "edge" => /\ x.to # y.to
                                       /\ x.from = y.from => x.to < y.to

InOrder(s) == \A i, j \in DOMAIN s : i < j => Before(s[i], s[j])

\* The node m is to be written: its parent is, and it is not.
Due(c, m) == c < m /\ (m = 1 \/ Parent(m) <= c)

\* Only what has been written or is due is there, an edge behind its node.
Written(c, out) ==
  /\ out \in Seq(Lines)
  /\ \A m \in 1 .. c : \E i \in DOMAIN out : out[i] = NodeLine(m)
  /\ \A i \in DOMAIN out :
       /\ out[i].is = "node" => out[i].id <= c
       /\ out[i].is = "edge" =>
            \E j \in 1 .. i - 1 : out[j] = NodeLine(out[i].to)

Pending(c, todraw) ==
  /\ todraw \in Seq(Items)
  /\ \A m \in DOMAIN tree : Due(c, m) => \E k \in DOMAIN todraw : todraw[k] = Item(m)
  /\ \A k \in DOMAIN todraw :
       /\ todraw[k].is = "node" => Due(c, todraw[k].id)
       /\ todraw[k].is = "edge" =>
            /\ todraw[k].from <= c
            /\ \/ todraw[k].to <= c
               \/ k - 1 \in DOMAIN todraw /\ todraw[k - 1] = Item(todraw[k].to)

EdgesThere(c, out, todraw) ==
  \A m \in 2 .. Len(tree) : Parent(m) <= c =>
    \/ \E i \in DOMAIN out : out[i] = EdgeOf(m)
    \/ \E k \in DOMAIN todraw : todraw[k] = EdgeOf(m)

Drawing(c) ==
  /\ Written(c, output)
  /\ Pending(c, toDraw)
  /\ InOrder(output)
  /\ InOrder(toDraw)
  /\ \A i \in DOMAIN output, k \in DOMAIN toDraw : Before(output[i], toDraw[k])
  /\ EdgesThere(c, output, toDraw)

DrawInv == \E c \in 0 .. Len(tree) : Drawing(c)

\* What lines and items are made of.
LEMMA LineFacts ==
  ASSUME WellFormed(tree)
  PROVE  /\ \A m : /\ Item(m).is = "node" /\ Item(m).id = m
                   /\ NodeLine(m).is = "node" /\ NodeLine(m).id = m
                   /\ EdgeOf(m).is = "edge" /\ EdgeOf(m).to = m
                   /\ EdgeOf(m).from = Parent(m)
         /\ \A x \in Items :
              \/ \E m \in DOMAIN tree : x = Item(m)
              \/ \E m \in 2 .. Len(tree) : x = EdgeOf(m)
         /\ \A x \in Lines :
              \/ \E m \in DOMAIN tree : x = NodeLine(m)
              \/ \E m \in 2 .. Len(tree) : x = EdgeOf(m)
         /\ \A m \in DOMAIN tree : Item(m) \in Items /\ NodeLine(m) \in Lines
         /\ \A m \in 2 .. Len(tree) : EdgeOf(m) \in Items /\ EdgeOf(m) \in Lines
BY DEF Item, NodeLine, EdgeOf, EdgeLine, Items, Lines

LEMMA InitDrawing ==
  ASSUME WellFormed(tree), DotInit
  PROVE  Drawing(0)
<1>1. /\ Len(tree) \in Nat /\ 1 \in DOMAIN tree /\ DOMAIN tree = 1 .. Len(tree)
      /\ \A m \in 2 .. Len(tree) : Parent(m) \in 1 .. m - 1
  BY TreeShape
<1>2. /\ toDraw = <<Item(1)>> /\ output = <<>>
  BY DEF DotInit, Item
<1>3. /\ Item(1) \in Items /\ Item(1).is = "node" /\ Item(1).id = 1
  BY <1>1, LineFacts
<1>4. /\ toDraw \in Seq(Items) /\ Len(toDraw) = 1 /\ DOMAIN toDraw = {1}
      /\ toDraw[1] = Item(1)
  BY <1>2, <1>3
<1>5. output \in Seq(Lines) /\ DOMAIN output = {}
  BY <1>2
<1>6. \A m \in DOMAIN tree : Due(0, m) => m = 1
  BY <1>1 DEF Due
<1>7. Due(0, 1)
  BY DEF Due
<1>8. Written(0, output)
  BY <1>5 DEF Written
<1>9. Pending(0, toDraw)
  BY <1>3, <1>4, <1>6, <1>7 DEF Pending
<1>10. EdgesThere(0, output, toDraw)
  BY <1>1 DEF EdgesThere
<1>11. InOrder(output) /\ InOrder(toDraw)
  BY <1>4, <1>5 DEF InOrder
<1> QED
  BY <1>5, <1>8, <1>9, <1>10, <1>11 DEF Drawing

\* An edge is written when its node has been.
LEMMA EdgeDrawing ==
  ASSUME WellFormed(tree), NEW c \in 0 .. Len(tree), Drawing(c), GenerateEdge
  PROVE  Drawing(c)'
<1> DEFINE size == Len(toDraw)
           old == Len(output)
           h == toDraw[1]
           rest == Tail(toDraw)
<1>1. /\ toDraw \in Seq(Items) /\ output \in Seq(Lines)
  BY DEF Drawing, Written, Pending
<1>2. /\ toDraw # <<>> /\ Head(toDraw).is = "edge"
      /\ output' = Append(output, Head(toDraw)) /\ toDraw' = rest
      /\ UNCHANGED tree
  BY DEF GenerateEdge, vars
<1>3. /\ size \in Nat /\ size > 0 /\ DOMAIN toDraw = 1 .. size /\ Head(toDraw) = h
      /\ rest \in Seq(Items) /\ DOMAIN rest = 1 .. size - 1
      /\ \A k \in 1 .. size - 1 : rest[k] = toDraw[k + 1]
      /\ h \in Items
  <2>1. /\ size \in Nat /\ size > 0 /\ DOMAIN toDraw = 1 .. size /\ Head(toDraw) = h
        /\ rest \in Seq(Items) /\ Len(rest) = size - 1
        /\ \A k \in 1 .. Len(rest) : rest[k] = toDraw[k + 1]
        /\ h \in Items
    BY <1>1, <1>2, LenProperties, HeadTailProperties, EmptySeq
  <2> QED
    BY <2>1, LenProperties
<1>4. PICK m \in 2 .. Len(tree) : h = EdgeOf(m)
  BY <1>2, <1>3, LineFacts
<1>5. /\ h.is = "edge" /\ h.to = m /\ h.from = Parent(m) /\ h \in Lines
      /\ Len(tree) \in Nat /\ m \in DOMAIN tree
  BY <1>4, LineFacts, TreeShape
<1>6. /\ old \in Nat /\ DOMAIN output = 1 .. old
      /\ output' \in Seq(Lines) /\ DOMAIN output' = 1 .. old + 1
      /\ \A i \in 1 .. old : output'[i] = output[i]
      /\ output'[old + 1] = h
  <2>1. /\ old \in Nat /\ DOMAIN output = 1 .. old /\ output' = Append(output, h)
    BY <1>1, <1>2, <1>3, LenProperties
  <2>2. /\ output' \in Seq(Lines) /\ Len(output') = old + 1
        /\ \A i \in 1 .. old : output'[i] = output[i]
        /\ output'[old + 1] = h
    BY <1>1, <1>5, <2>1, AppendProperties
  <2> QED
    BY <2>1, <2>2, LenProperties
<1>7. m <= c
  BY <1>3, <1>5 DEF Drawing, Pending
<1>20. /\ Written(c, output) /\ Pending(c, toDraw)
       /\ InOrder(output) /\ InOrder(toDraw) /\ EdgesThere(c, output, toDraw)
       /\ \A i \in DOMAIN output, k \in DOMAIN toDraw : Before(output[i], toDraw[k])
  BY DEF Drawing
<1>21. /\ 1 \in 1 .. size
       /\ \A k \in 1 .. size - 1 : k + 1 \in 1 .. size
       /\ \A k \in 1 .. size : k # 1 => k - 1 \in 1 .. size - 1 /\ k - 1 + 1 = k
       /\ \A i \in 1 .. old + 1 : i \in 1 .. old \/ i = old + 1
       /\ 1 .. old \subseteq 1 .. old + 1 /\ old + 1 \in 1 .. old + 1
       /\ old + 1 - 1 = old
  BY <1>3, <1>6
<1> HIDE DEF size, old, rest, h
<1>8. Written(c, output')
  <2>1. \A k \in 1 .. c : \E i \in DOMAIN output' : output'[i] = NodeLine(k)
    <3>1. \A k \in 1 .. c : \E i \in 1 .. old : output[i] = NodeLine(k)
      BY <1>6, <1>20 DEF Written
    <3> QED
      BY <1>6, <1>21, <3>1
  <2>2. ASSUME NEW i \in 1 .. old
        PROVE  /\ output'[i].is = "node" => output'[i].id <= c
               /\ output'[i].is = "edge" =>
                    \E j \in 1 .. i - 1 : output'[j] = NodeLine(output'[i].to)
    <3>1. /\ output[i].is = "node" => output[i].id <= c
          /\ output[i].is = "edge" =>
                    \E j \in 1 .. i - 1 : output[j] = NodeLine(output[i].to)
      BY <1>6, <1>20 DEF Written
    <3>2. \A j \in 1 .. i - 1 : output'[j] = output[j]
      BY <1>6
    <3> QED
      BY <1>6, <3>1, <3>2
  <2>3. \E j \in 1 .. old : output'[j] = NodeLine(m)
    <3>1. m \in 1 .. c
      BY <1>7
    <3>2. PICK i \in DOMAIN output : output[i] = NodeLine(m)
      BY <1>20, <3>1 DEF Written
    <3> QED
      BY <1>6, <3>2
  <2>6. ASSUME NEW i \in 1 .. old + 1
        PROVE  /\ output'[i].is = "node" => output'[i].id <= c
               /\ output'[i].is = "edge" =>
                    \E j \in 1 .. i - 1 : output'[j] = NodeLine(output'[i].to)
    <3>1. CASE i \in 1 .. old
      BY <2>2, <3>1
    <3>2. CASE i = old + 1
      BY <1>5, <1>6, <1>21, <2>3, <3>2
    <3> QED
      BY <1>21, <3>1, <3>2
  <2> QED
    BY <1>6, <2>1, <2>6 DEF Written
<1>9. Pending(c, rest)
  <2>1. ASSUME NEW k \in DOMAIN tree, Due(c, k)
        PROVE  \E l \in DOMAIN rest : rest[l] = Item(k)
    <3>1. PICK l \in DOMAIN toDraw : toDraw[l] = Item(k)
      BY <1>20, <2>1 DEF Pending
    <3>2. l # 1
      BY <1>5, <3>1, LineFacts DEF h
    <3>3. l - 1 \in DOMAIN rest /\ rest[l - 1] = Item(k)
      BY <1>3, <1>21, <3>1, <3>2
    <3> QED
      BY <3>3
  <2>2. ASSUME NEW k \in DOMAIN rest
        PROVE  /\ rest[k].is = "node" => Due(c, rest[k].id)
               /\ rest[k].is = "edge" =>
                    /\ rest[k].from <= c
                    /\ \/ rest[k].to <= c
                       \/ k - 1 \in DOMAIN rest /\ rest[k - 1] = Item(rest[k].to)
    <3>1. /\ k \in 1 .. size - 1 /\ k + 1 \in DOMAIN toDraw /\ rest[k] = toDraw[k + 1]
          /\ k + 1 - 1 = k
      BY <1>3, <1>21
    <3>2. /\ rest[k].is = "node" => Due(c, rest[k].id)
          /\ rest[k].is = "edge" =>
                    /\ rest[k].from <= c
                    /\ \/ rest[k].to <= c
                       \/ k \in DOMAIN toDraw /\ toDraw[k] = Item(rest[k].to)
      BY <1>20, <3>1 DEF Pending
    <3>3. ASSUME toDraw[k] = Item(rest[k].to)
          PROVE  k - 1 \in DOMAIN rest /\ rest[k - 1] = Item(rest[k].to)
      <4>1. k # 1
        BY <1>5, <3>3, LineFacts DEF h
      <4>2. k - 1 \in 1 .. size - 1 /\ k - 1 + 1 = k
        BY <1>3, <1>21, <3>1, <4>1
      <4> QED
        BY <1>3, <3>3, <4>2
    <3> QED
      BY <3>2, <3>3
  <2> QED
    BY <1>3, <2>1, <2>2 DEF Pending
<1>10. InOrder(output') /\ InOrder(rest)
  <2>1. InOrder(rest)
    <3>1. \A i, j \in 1 .. size : i < j => Before(toDraw[i], toDraw[j])
      BY <1>3, <1>20 DEF InOrder
    <3>2. \A i, j \in 1 .. size - 1 : i < j => i + 1 < j + 1
      BY <1>3
    <3> QED
      BY <1>3, <1>21, <3>1, <3>2 DEF InOrder
  <2>2. \A i \in 1 .. old : Before(output[i], h)
    BY <1>3, <1>6, <1>20, <1>21 DEF h
  <2>3. \A i, j \in 1 .. old + 1 : i < j =>
          i \in 1 .. old /\ (j \in 1 .. old \/ j = old + 1)
    BY <1>6
  <2>4. \A i, j \in 1 .. old : i < j => Before(output[i], output[j])
    BY <1>6, <1>20 DEF InOrder
  <2>5. ASSUME NEW i \in 1 .. old + 1, NEW j \in 1 .. old + 1, i < j
        PROVE  Before(output'[i], output'[j])
    BY <1>6, <2>2, <2>3, <2>4, <2>5
  <2> QED
    BY <1>6, <2>1, <2>5 DEF InOrder
<1>11. \A i \in DOMAIN output', k \in DOMAIN rest : Before(output'[i], rest[k])
  <2>1. \A k \in DOMAIN rest : Before(h, rest[k])
    <3>1. ASSUME NEW k \in 1 .. size - 1 PROVE Before(toDraw[1], toDraw[k + 1])
      <4>1. 1 < k + 1 /\ k + 1 \in 1 .. size
        BY <1>3, <1>21
      <4> QED
        BY <1>3, <1>20, <1>21, <4>1 DEF InOrder
    <3> QED
      BY <1>3, <3>1 DEF h
  <2>2. \A i \in 1 .. old, k \in 1 .. size - 1 : Before(output[i], toDraw[k + 1])
    BY <1>3, <1>6, <1>20, <1>21
  <2> QED
    BY <1>3, <1>6, <1>21, <2>1, <2>2
<1>12. EdgesThere(c, output', rest)
  <2>1. SUFFICES ASSUME NEW k \in 2 .. Len(tree), Parent(k) <= c
                 PROVE  \/ \E i \in DOMAIN output' : output'[i] = EdgeOf(k)
                        \/ \E l \in DOMAIN rest : rest[l] = EdgeOf(k)
    BY DEF EdgesThere
  <2>2. CASE \E i \in DOMAIN output : output[i] = EdgeOf(k)
    BY <1>6, <2>2
  <2>3. CASE \E l \in DOMAIN toDraw : toDraw[l] = EdgeOf(k)
    <3>1. PICK l \in DOMAIN toDraw : toDraw[l] = EdgeOf(k)
      BY <2>3
    <3>2. CASE l = 1
      <4>1. output'[old + 1] = EdgeOf(k) /\ old + 1 \in DOMAIN output'
        BY <1>6, <3>1, <3>2 DEF h
      <4> QED
        BY <4>1
    <3>3. CASE l # 1
      <4>1. l - 1 \in DOMAIN rest /\ rest[l - 1] = EdgeOf(k)
        BY <1>3, <1>21, <3>1, <3>3
      <4> QED
        BY <4>1
    <3> QED
      BY <3>2, <3>3
  <2> QED
    BY <1>20, <2>1, <2>2, <2>3 DEF EdgesThere
<1>13. /\ Written(c, output)' <=> Written(c, output')
       /\ Pending(c, toDraw)' <=> Pending(c, rest)
       /\ EdgesThere(c, output, toDraw)' <=> EdgesThere(c, output', rest)
  <2>1. (\A m_1 : NodeLine(m_1)' = NodeLine(m_1)) /\ Lines' = Lines /\ Items' = Items
    BY <1>2 DEF NodeLine, detail, Lines, Items, operatorsStr, EdgeOf, EdgeLine, Parent
  <2>2. \A m_1 : Parent(m_1)' = Parent(m_1) /\ EdgeOf(m_1)' = EdgeOf(m_1)
    BY <1>2 DEF Parent, EdgeOf, EdgeLine
  <2> QED
    BY <1>2, <2>1, <2>2 DEF Written, Pending, EdgesThere, Due
<1> QED
  BY <1>2, <1>8, <1>9, <1>10, <1>11, <1>12, <1>13 DEF Drawing, InOrder

\* The items for the children q of a node: each child and the edge to it.
ItemsFor(q) ==
  [k \in 1 .. 2 * Len(q) |->
     IF k % 2 = 1 THEN Item(q[(k + 1) \div 2]) ELSE EdgeOf(q[k \div 2])]

LEMMA ItemsForFacts ==
  ASSUME NEW q, Len(q) \in Nat
  PROVE  /\ \A k \in 1 .. 2 * Len(q) : \E a \in 1 .. Len(q) :
              \/ k = 2 * a - 1 /\ ItemsFor(q)[k] = Item(q[a])
              \/ k = 2 * a /\ ItemsFor(q)[k] = EdgeOf(q[a])
         /\ \A a \in 1 .. Len(q) : /\ 2 * a - 1 \in 1 .. 2 * Len(q)
                                   /\ 2 * a \in 1 .. 2 * Len(q)
                                   /\ ItemsFor(q)[2 * a - 1] = Item(q[a])
                                   /\ ItemsFor(q)[2 * a] = EdgeOf(q[a])
<1> DEFINE size == Len(q)
<1>1. size \in Nat
  OBVIOUS
<1> HIDE DEF size
<1>2. ASSUME NEW k \in 1 .. 2 * size
      PROVE  \E a \in 1 .. size : \/ k = 2 * a - 1 /\ k % 2 = 1 /\ (k + 1) \div 2 = a
                                  \/ k = 2 * a /\ k % 2 # 1 /\ k \div 2 = a
  <2>1. CASE k % 2 = 1
    <3>1. (k + 1) \div 2 \in 1 .. size /\ k = 2 * ((k + 1) \div 2) - 1
      BY <1>1, <2>1
    <3> QED
      BY <2>1, <3>1
  <2>2. CASE k % 2 # 1
    <3>1. k \div 2 \in 1 .. size /\ k = 2 * (k \div 2)
      BY <1>1, <2>2
    <3> QED
      BY <2>2, <3>1
  <2> QED
    BY <2>1, <2>2
<1>3. ASSUME NEW a \in 1 .. size
      PROVE  /\ 2 * a - 1 \in 1 .. 2 * size /\ 2 * a \in 1 .. 2 * size
             /\ (2 * a - 1) % 2 = 1 /\ (2 * a - 1 + 1) \div 2 = a
             /\ (2 * a) % 2 # 1 /\ (2 * a) \div 2 = a
  BY <1>1
<1>4. \A k \in 1 .. 2 * size :
        ItemsFor(q)[k] = IF k % 2 = 1 THEN Item(q[(k + 1) \div 2])
                         ELSE EdgeOf(q[k \div 2])
  BY DEF ItemsFor, size
<1>5. \A k \in 1 .. 2 * size : \E a \in 1 .. size :
              \/ k = 2 * a - 1 /\ ItemsFor(q)[k] = Item(q[a])
              \/ k = 2 * a /\ ItemsFor(q)[k] = EdgeOf(q[a])
  <2>1. SUFFICES ASSUME NEW k \in 1 .. 2 * size
                 PROVE  \E a \in 1 .. size :
                          \/ k = 2 * a - 1 /\ ItemsFor(q)[k] = Item(q[a])
                          \/ k = 2 * a /\ ItemsFor(q)[k] = EdgeOf(q[a])
    OBVIOUS
  <2>2. PICK a \in 1 .. size : \/ k = 2 * a - 1 /\ k % 2 = 1 /\ (k + 1) \div 2 = a
                               \/ k = 2 * a /\ k % 2 # 1 /\ k \div 2 = a
    BY <1>2
  <2>3. \/ k = 2 * a - 1 /\ ItemsFor(q)[k] = Item(q[a])
        \/ k = 2 * a /\ ItemsFor(q)[k] = EdgeOf(q[a])
    BY <1>4, <2>2
  <2> QED
    BY <2>3
<1>6. ASSUME NEW a \in 1 .. size
      PROVE  /\ ItemsFor(q)[2 * a - 1] = Item(q[a])
             /\ ItemsFor(q)[2 * a] = EdgeOf(q[a])
  BY <1>3, <1>4
<1> QED
  BY <1>3, <1>5, <1>6 DEF size

\* The children of a node, as a sequence.
LEMMA KidsInOrder ==
  ASSUME WellFormed(tree), NEW m \in DOMAIN tree
  PROVE  LET q == tree[m].kids
         IN  /\ Len(q) \in Nat /\ DOMAIN q = 1 .. Len(q)
             /\ \A a \in 1 .. Len(q) : /\ q[a] \in m + 1 .. Len(tree)
                                       /\ q[a] \in DOMAIN tree
                                       /\ q[a] \in 2 .. Len(tree)
                                       /\ Parent(q[a]) = m
             /\ \A a, b \in 1 .. Len(q) : a < b => q[a] < q[b]
             /\ \A k \in 2 .. Len(tree) :
                  Parent(k) = m => \E a \in 1 .. Len(q) : k = q[a]
<1> DEFINE q == tree[m].kids
<1>1. q \in Seq(Nat) /\ Len(q) \in Nat /\ DOMAIN q = 1 .. Len(q)
  <2>1. tree[m] \in TreeNode
    BY TreeShape
  <2> QED
    BY <2>1, LenProperties DEF TreeNode
<1>2. \A k : k \in Kids(m) <=> \E a \in 1 .. Len(q) : k = q[a]
  BY <1>1 DEF Kids, ChildrenOf
<1>3. m \in 1 .. Len(tree) /\ Len(tree) \in Nat /\ DOMAIN tree = 1 .. Len(tree)
  BY TreeShape
<1>4. \A a \in 1 .. Len(q) : /\ q[a] \in m + 1 .. Len(tree)
                             /\ Parent(q[a]) = m
  BY <1>2, TreeShape
<1>5. \A b \in 1 .. Len(q) : \A a \in 1 .. b - 1 : q[a] < q[b]
  BY <1>1 DEF WellFormed
<1>6. \A a, b \in 1 .. Len(q) : a < b => a \in 1 .. b - 1
  BY <1>1
<1>7. \A k \in 2 .. Len(tree) : Parent(k) = m => \E a \in 1 .. Len(q) : k = q[a]
  BY <1>2, TreeShape
<1>8. \A k \in m + 1 .. Len(tree) : k \in DOMAIN tree /\ k \in 2 .. Len(tree)
  BY <1>3
<1> QED
  BY <1>1, <1>4, <1>5, <1>6, <1>7, <1>8

\* What generate() of a node leaves to be written.
LEMMA NodeStep ==
  ASSUME WellFormed(tree), toDraw \in Seq(Items), output \in Seq(Lines), GenerateNode
  PROVE  \E m \in DOMAIN tree :
           /\ toDraw # <<>> /\ toDraw[1] = Item(m)
           /\ output' = Append(output, NodeLine(m))
           /\ toDraw' = ItemsFor(tree[m].kids) \o Tail(toDraw)
           /\ UNCHANGED tree
<1>1. /\ toDraw # <<>> /\ Head(toDraw).is = "node" /\ Head(toDraw) = toDraw[1]
      /\ Head(toDraw) \in Items
  <2>1. toDraw # <<>> /\ Head(toDraw).is = "node"
    BY DEF GenerateNode
  <2>2. Head(toDraw) = toDraw[1] /\ Head(toDraw) \in Items
    BY <2>1, HeadTailProperties, EmptySeq, LenProperties
  <2> QED
    BY <2>1, <2>2
<1>2. PICK m \in DOMAIN tree : Head(toDraw) = Item(m)
  BY <1>1, LineFacts
<1>3. Head(toDraw).id = m
  BY <1>2, LineFacts
<1> DEFINE q == tree[m].kids
<1>4. Len(q) \in Nat /\ \A a \in 1 .. Len(q) : Parent(q[a]) = m
  BY KidsInOrder
<1>5. /\ output' = Append(output, NodeLine(m))
      /\ toDraw' = [k \in 1 .. 2 * Len(q) |->
                         IF k % 2 = 1 THEN [is |-> "node", id |-> q[(k + 1) \div 2]]
                         ELSE EdgeLine(m, q[k \div 2])]
                      \o Tail(toDraw)
      /\ UNCHANGED tree
  BY <1>3 DEF GenerateNode, drawn, vars
<1>6. [k \in 1 .. 2 * Len(q) |->
          IF k % 2 = 1 THEN [is |-> "node", id |-> q[(k + 1) \div 2]]
          ELSE EdgeLine(m, q[k \div 2])] = ItemsFor(q)
  <2> DEFINE size == Len(q)
  <2>1. size \in Nat
    BY <1>4
  <2>2. \A k \in 1 .. 2 * size : k % 2 # 1 => k \div 2 \in 1 .. size
    <3> HIDE DEF size
    <3> QED
      BY <2>1
  <2>3. \A k \in 1 .. 2 * size : k % 2 # 1 =>
          EdgeLine(m, q[k \div 2]) = EdgeOf(q[k \div 2])
    BY <1>4, <2>2 DEF EdgeOf
  <2> QED
    BY <2>3 DEF ItemsFor, Item
<1> HIDE DEF q
<1> QED
  BY <1>1, <1>2, <1>5, <1>6 DEF q

\* A node is written, and its children are due.
LEMMA NodeDrawing ==
  ASSUME WellFormed(tree), NEW c \in 0 .. Len(tree), Drawing(c), GenerateNode
  PROVE  c + 1 \in 0 .. Len(tree) /\ Drawing(c + 1)'
<1> DEFINE size == Len(toDraw)
           old == Len(output)
           rest == Tail(toDraw)
<1>1. /\ Written(c, output) /\ Pending(c, toDraw)
      /\ InOrder(output) /\ InOrder(toDraw) /\ EdgesThere(c, output, toDraw)
      /\ \A i \in DOMAIN output, k \in DOMAIN toDraw : Before(output[i], toDraw[k])
      /\ toDraw \in Seq(Items) /\ output \in Seq(Lines)
  BY DEF Drawing, Written, Pending
<1>2. PICK m \in DOMAIN tree :
           /\ toDraw # <<>> /\ toDraw[1] = Item(m)
           /\ output' = Append(output, NodeLine(m))
           /\ toDraw' = ItemsFor(tree[m].kids) \o rest
           /\ UNCHANGED tree
  BY <1>1, NodeStep
<1> DEFINE q == tree[m].kids
           count == 2 * Len(q)
           new == ItemsFor(q)
           all == new \o rest
           out == Append(output, NodeLine(m))
<1>3. /\ Len(tree) \in Nat /\ DOMAIN tree = 1 .. Len(tree)
      /\ \A k \in 2 .. Len(tree) : Parent(k) \in 1 .. k - 1
      /\ \A k \in 2 .. Len(tree) : \A j \in Parent(k) + 1 .. k : Parent(j) >= Parent(k)
  BY TreeShape
<1>4. /\ Len(q) \in Nat /\ DOMAIN q = 1 .. Len(q)
      /\ \A a \in 1 .. Len(q) : /\ q[a] \in m + 1 .. Len(tree)
                                /\ q[a] \in DOMAIN tree
                                /\ q[a] \in 2 .. Len(tree)
                                /\ Parent(q[a]) = m
      /\ \A a, b \in 1 .. Len(q) : a < b => q[a] < q[b]
      /\ \A k \in 2 .. Len(tree) : Parent(k) = m => \E a \in 1 .. Len(q) : k = q[a]
  BY KidsInOrder
<1>5. /\ size \in Nat /\ size > 0 /\ DOMAIN toDraw = 1 .. size
      /\ rest \in Seq(Items) /\ Len(rest) = size - 1 /\ DOMAIN rest = 1 .. size - 1
      /\ \A k \in 1 .. size - 1 : rest[k] = toDraw[k + 1]
  <2>1. /\ size \in Nat /\ size > 0 /\ DOMAIN toDraw = 1 .. size
        /\ rest \in Seq(Items) /\ Len(rest) = size - 1
        /\ \A k \in 1 .. Len(rest) : rest[k] = toDraw[k + 1]
    BY <1>1, <1>2, LenProperties, HeadTailProperties, EmptySeq
  <2> QED
    BY <2>1, LenProperties
<1>6. /\ \A k \in 1 .. count : \E a \in 1 .. Len(q) :
              \/ k = 2 * a - 1 /\ new[k] = Item(q[a])
              \/ k = 2 * a /\ new[k] = EdgeOf(q[a])
      /\ \A a \in 1 .. Len(q) : /\ 2 * a - 1 \in 1 .. count
                                /\ 2 * a \in 1 .. count
                                /\ new[2 * a - 1] = Item(q[a])
                                /\ new[2 * a] = EdgeOf(q[a])
  BY <1>4, ItemsForFacts
<1>7. new \in Seq(Items) /\ Len(new) = count /\ count \in Nat /\ DOMAIN new = 1 .. count
  <2>1. count \in Nat
    <3> DEFINE s == Len(q)
    <3>1. s \in Nat
      BY <1>4
    <3> HIDE DEF s
    <3>2. 2 * s \in Nat
      BY <3>1
    <3> QED
      BY <3>2 DEF s
  <2>2. ASSUME NEW k \in 1 .. count PROVE new[k] \in Items
    <3>1. PICK a \in 1 .. Len(q) : new[k] \in {Item(q[a]), EdgeOf(q[a])}
      BY <1>6
    <3> HIDE DEF new, q, count
    <3>2. q[a] \in DOMAIN tree /\ q[a] \in 2 .. Len(tree)
      BY <1>4
    <3> QED
      BY <3>1, <3>2, LineFacts
  <2>3. DOMAIN new = 1 .. count
    BY DEF ItemsFor
  <2>4. new = [k \in 1 .. count |-> new[k]]
    BY DEF ItemsFor
  <2> HIDE DEF new, count
  <2>5. new \in [1 .. count -> Items]
    BY <2>2, <2>4
  <2>6. new \in Seq(Items)
    BY <2>1, <2>5, SeqDef
  <2> QED
    BY <2>1, <2>3, <2>6, LenProperties
<1> HIDE DEF q, count, new, size, old, rest
<1>8. /\ all \in Seq(Items) /\ DOMAIN all = 1 .. count + size - 1
      /\ \A k \in DOMAIN all : all[k] \in Items
      /\ \A k \in 1 .. count : all[k] = new[k]
      /\ \A k \in count + 1 .. count + size - 1 :
           all[k] = toDraw[k - count + 1] /\ k - count + 1 \in 2 .. size
      /\ \A k \in 2 .. size : /\ all[k + count - 1] = toDraw[k]
                              /\ k + count - 1 \in 1 .. count + size - 1
  <2>1. /\ all \in Seq(Items) /\ Len(all) = count + (size - 1)
        /\ \A k \in 1 .. Len(all) : all[k] = IF k <= count THEN new[k] ELSE rest[k - count]
    <3>1. /\ new \o rest \in Seq(Items) /\ Len(new \o rest) = Len(new) + Len(rest)
          /\ \A k \in 1 .. Len(new) + Len(rest) :
               (new \o rest)[k] = IF k <= Len(new) THEN new[k] ELSE rest[k - Len(new)]
      BY <1>5, <1>7, ConcatProperties
    <3> QED
      BY <1>5, <1>7, <3>1
  <2>2. DOMAIN all = 1 .. count + (size - 1)
    BY <2>1, LenProperties
  <2> HIDE DEF all
  <2>3. \A k \in count + 1 .. count + size - 1 :
           /\ k \in 1 .. Len(all) /\ ~(k <= count)
           /\ k - count \in 1 .. size - 1 /\ k - count + 1 \in 2 .. size
    BY <1>5, <1>7, <2>1
  <2>4. \A k \in count + 1 .. count + size - 1 : all[k] = toDraw[k - count + 1]
    BY <1>5, <2>1, <2>3
  <2>5. \A k \in 2 .. size : /\ k + count - 1 \in count + 1 .. count + size - 1
                             /\ k + count - 1 \in 1 .. count + size - 1
                             /\ k + count - 1 - count + 1 = k
    BY <1>5, <1>7
  <2>6. \A k \in 1 .. count : k \in 1 .. Len(all) /\ k <= count
    BY <1>5, <1>7, <2>1
  <2>7. ASSUME NEW k \in 2 .. size PROVE all[k + count - 1] = toDraw[k]
    <3> DEFINE j == k + count - 1
    <3>1. j \in count + 1 .. count + size - 1
      BY <2>5
    <3>2. j - count + 1 = k
      <4>1. k \in Int /\ count \in Int
        BY <1>5, <1>7
      <4>2. \A a, b \in Int : (a + b - 1) - b + 1 = a
        OBVIOUS
      <4> HIDE DEF count
      <4> QED
        BY <4>1, <4>2
    <3> HIDE DEF j
    <3>3. all[j] = toDraw[k]
      BY <2>4, <3>1, <3>2
    <3> QED
      BY <3>3 DEF j
  <2>8. count + (size - 1) = count + size - 1
    BY <1>5, <1>7
  <2>9. \A k \in DOMAIN all : all[k] \in Items
    BY <2>1, LenProperties, ElementOfSeq
  <2> QED
    BY <2>1, <2>2, <2>3, <2>4, <2>5, <2>6, <2>7, <2>8, <2>9
<1>9. /\ old \in Nat /\ DOMAIN output = 1 .. old
      /\ out \in Seq(Lines) /\ DOMAIN out = 1 .. old + 1
      /\ \A i \in 1 .. old : out[i] = output[i]
      /\ out[old + 1] = NodeLine(m)
  <2>1. /\ old \in Nat /\ DOMAIN output = 1 .. old /\ NodeLine(m) \in Lines
    BY <1>1, LenProperties, LineFacts DEF old
  <2>2. /\ out \in Seq(Lines) /\ Len(out) = old + 1
        /\ \A i \in 1 .. old : out[i] = output[i]
        /\ out[old + 1] = NodeLine(m)
    BY <1>1, <2>1, AppendProperties DEF old
  <2> QED
    BY <2>1, <2>2, LenProperties
<1> HIDE DEF all, out
<1>10. /\ \A k \in 1 .. count + size - 1 :
            \/ k \in 1 .. count
            \/ k \in count + 1 .. count + size - 1
       /\ \A i \in 1 .. old + 1 : i \in 1 .. old \/ i = old + 1
       /\ 1 .. old \subseteq 1 .. old + 1 /\ old + 1 \in 1 .. old + 1
       /\ 1 .. count \subseteq 1 .. count + size - 1
       /\ \A k \in 1 .. size : k = 1 \/ k \in 2 .. size
       /\ 1 \in 1 .. size /\ 2 .. size \subseteq 1 .. size
  BY <1>5, <1>7, <1>9
\* The node is the next one.
<1>11. m = c + 1
  <2>1. Due(c, m) /\ m \in 1 .. Len(tree) /\ c \in Nat /\ c <= Len(tree)
    <3>1. toDraw[1].is = "node" /\ toDraw[1].id = m
      BY <1>2, LineFacts
    <3>2. 1 \in DOMAIN toDraw
      BY <1>5, <1>10
    <3>3. Due(c, m)
      BY <1>1, <3>1, <3>2 DEF Pending
    <3> QED
      BY <1>3, <3>3
  <2>2. c < m /\ c + 1 \in DOMAIN tree
    BY <1>3, <2>1 DEF Due
  <2>3. Due(c, c + 1)
    <3>1. CASE c = 0
      BY <3>1 DEF Due
    <3>2. CASE c # 0
      <4>1. c + 1 \in 2 .. Len(tree)
        BY <1>3, <2>1, <2>2, <3>2
      <4>2. Parent(c + 1) \in 1 .. c + 1 - 1
        BY <1>3, <4>1
      <4> QED
        BY <2>1, <4>2 DEF Due
    <3> QED
      BY <3>1, <3>2
  <2>4. PICK k \in 1 .. size : toDraw[k] = Item(c + 1)
    BY <1>1, <1>5, <2>2, <2>3 DEF Pending
  <2>5. CASE k = 1
    BY <1>2, <2>4, <2>5, LineFacts
  <2>6. CASE k \in 2 .. size
    <3>1. 1 < k
      BY <2>6
    <3>2. Before(Item(m), Item(c + 1))
      BY <1>1, <1>2, <1>5, <1>10, <2>4, <3>1 DEF InOrder
    <3>3. m < c + 1
      BY <3>2, LineFacts DEF Before
    <3> QED
      BY <2>1, <2>2, <3>3
  <2> QED
    BY <1>10, <2>5, <2>6
<1>12. c \in Nat /\ c + 1 \in 1 .. Len(tree)
  BY <1>3, <1>11
\* What is left is behind the children in the text, and of other parents.
<1>13. ASSUME NEW k \in 2 .. size
       PROVE  /\ toDraw[k].is = "node" => /\ Due(c + 1, toDraw[k].id)
                                          /\ \A a \in 1 .. Len(q) : q[a] < toDraw[k].id
              /\ toDraw[k].is = "edge" => /\ toDraw[k].from <= c
                                          /\ \A a \in 1 .. Len(q) : q[a] # toDraw[k].to
                                          /\ \/ toDraw[k].to <= c + 1
                                             \/ /\ toDraw[k - 1] = Item(toDraw[k].to)
                                                /\ k - 1 \in 2 .. size
  <2>1. toDraw[k] \in Items /\ k \in 1 .. size /\ 1 < k
    BY <1>1, <1>5, <1>10, ElementOfSeq
  <2>2. ASSUME toDraw[k].is = "node"
        PROVE  /\ Due(c + 1, toDraw[k].id)
               /\ \A a \in 1 .. Len(q) : q[a] < toDraw[k].id
    <3>1. PICK j \in DOMAIN tree : toDraw[k] = Item(j)
      BY <2>1, <2>2, LineFacts
    <3>2. Due(c, j) /\ toDraw[k].id = j
      BY <1>1, <1>5, <2>1, <2>2, <3>1, LineFacts DEF Pending
    <3>3. m < j
      <4>1. Before(Item(m), Item(j))
        BY <1>1, <1>2, <1>5, <1>10, <2>1, <3>1 DEF InOrder
      <4> QED
        BY <4>1, LineFacts DEF Before
    <3>4. j \in 2 .. Len(tree) /\ Parent(j) <= c /\ Parent(j) \in Nat
      BY <1>3, <1>11, <1>12, <3>2, <3>3 DEF Due
    <3>5. Due(c + 1, j)
      BY <1>11, <1>12, <3>3, <3>4 DEF Due
    <3>6. ASSUME NEW a \in 1 .. Len(q) PROVE q[a] < j
      <4>1. q[a] \in 2 .. Len(tree) /\ Parent(q[a]) = m
        BY <1>4
      <4>2. CASE q[a] = j
        BY <1>11, <1>12, <3>4, <4>1, <4>2
      <4>3. CASE q[a] > j
        <5>1. j \in Parent(q[a]) + 1 .. q[a]
          BY <1>11, <1>12, <3>3, <3>4, <4>1, <4>3
        <5>2. Parent(j) >= m
          BY <1>3, <4>1, <5>1
        <5> QED
          BY <1>11, <1>12, <3>4, <5>2
      <4> QED
        BY <3>4, <4>1, <4>2, <4>3
    <3> QED
      BY <3>2, <3>5, <3>6
  <2>3. ASSUME toDraw[k].is = "edge"
        PROVE  /\ toDraw[k].from <= c
               /\ \A a \in 1 .. Len(q) : q[a] # toDraw[k].to
               /\ \/ toDraw[k].to <= c + 1
                  \/ /\ toDraw[k - 1] = Item(toDraw[k].to)
                     /\ k - 1 \in 2 .. size
    <3>1. PICK j \in 2 .. Len(tree) : toDraw[k] = EdgeOf(j)
      BY <2>1, <2>3, LineFacts
    <3>2. toDraw[k].from = Parent(j) /\ toDraw[k].to = j
      BY <3>1, LineFacts
    <3>3. /\ Parent(j) <= c
          /\ \/ j <= c
             \/ k - 1 \in 1 .. size /\ toDraw[k - 1] = Item(j)
      BY <1>1, <1>5, <2>1, <2>3, <3>2 DEF Pending
    <3>4. Parent(j) \in Nat /\ Parent(j) # m
      BY <1>3, <1>11, <1>12, <3>3
    <3>5. \A a \in 1 .. Len(q) : q[a] # j
      BY <1>4, <3>4
    <3>6. CASE j <= c
      BY <1>12, <3>2, <3>3, <3>5, <3>6
    <3>7. CASE k - 1 = 1 /\ toDraw[k - 1] = Item(j)
      <4>1. j = m
        BY <1>2, <3>7, LineFacts
      <4> QED
        BY <1>11, <1>12, <3>2, <3>3, <3>5, <4>1
    <3>8. CASE k - 1 \in 2 .. size /\ toDraw[k - 1] = Item(j)
      BY <3>2, <3>3, <3>5, <3>8
    <3> QED
      BY <1>10, <3>3, <3>6, <3>7, <3>8
  <2> QED
    BY <2>2, <2>3
<1>14. Written(c + 1, out)
  <2>1. ASSUME NEW j \in 1 .. c + 1 PROVE \E i \in DOMAIN out : out[i] = NodeLine(j)
    <3>1. CASE j = c + 1
      BY <1>9, <1>10, <1>11, <3>1
    <3>2. CASE j # c + 1
      <4>1. j \in 1 .. c
        BY <1>12, <3>2
      <4>2. PICK i \in 1 .. old : output[i] = NodeLine(j)
        BY <1>1, <1>9, <4>1 DEF Written
      <4> QED
        BY <1>9, <1>10, <4>2
    <3> QED
      BY <3>1, <3>2
  <2>2. ASSUME NEW i \in 1 .. old + 1
        PROVE  /\ out[i].is = "node" => out[i].id <= c + 1
               /\ out[i].is = "edge" =>
                    \E j \in 1 .. i - 1 : out[j] = NodeLine(out[i].to)
    <3>1. CASE i \in 1 .. old
      <4>1. output[i] = out[i]
        BY <1>9, <3>1
      <4>2. /\ out[i].is = "node" => out[i].id <= c
            /\ out[i].is = "edge" =>
                    \E j \in 1 .. i - 1 : output[j] = NodeLine(out[i].to)
        BY <1>1, <1>9, <3>1, <4>1 DEF Written
      <4>3. \A j \in 1 .. i - 1 : out[j] = output[j]
        BY <1>9, <3>1
      <4>4. out[i].is = "node" => out[i].id <= c + 1
        <5>1. ASSUME out[i].is = "node" PROVE out[i].id <= c + 1
          <6>1. out[i] \in Lines
            BY <1>9, ElementOfSeq
          <6>2. PICK j \in DOMAIN tree : out[i] = NodeLine(j)
            BY <5>1, <6>1, LineFacts
          <6>3. out[i].id = j /\ j \in Nat
            BY <1>3, <6>2, LineFacts
          <6> QED
            BY <1>12, <4>2, <5>1, <6>3
        <5> QED
          BY <5>1
      <4> QED
        BY <4>2, <4>3, <4>4
    <3>2. CASE i = old + 1
      BY <1>9, <1>11, <1>12, <3>2, LineFacts
    <3> QED
      BY <1>10, <3>1, <3>2
  <2> QED
    BY <1>9, <2>1, <2>2 DEF Written
\* The items: those of the children, then what was behind the node.
<1>15. ASSUME NEW k \in DOMAIN all
       PROVE  \/ \E a \in 1 .. Len(q) : \/ k = 2 * a - 1 /\ all[k] = Item(q[a])
                                        \/ k = 2 * a /\ all[k] = EdgeOf(q[a])
              \/ \E l \in 2 .. size : k = l + count - 1 /\ all[k] = toDraw[l]
  <2>1. CASE k \in 1 .. count
    <3>1. all[k] = new[k]
      BY <1>8, <2>1
    <3> QED
      BY <1>6, <2>1, <3>1
  <2>2. CASE k \in count + 1 .. count + size - 1
    <3>1. all[k] = toDraw[k - count + 1] /\ k - count + 1 \in 2 .. size
      BY <1>8, <2>2
    <3>2. k = k - count + 1 + count - 1
      BY <1>5, <1>7, <2>2
    <3> QED
      BY <3>1, <3>2
  <2> QED
    BY <1>8, <1>10, <2>1, <2>2
<1>16. \A a \in 1 .. Len(q) : /\ 2 * a - 1 \in DOMAIN all /\ 2 * a \in DOMAIN all
                              /\ all[2 * a - 1] = Item(q[a])
                              /\ all[2 * a] = EdgeOf(q[a])
  BY <1>6, <1>8, <1>10
<1>17. Pending(c + 1, all)
  <2>1. ASSUME NEW j \in DOMAIN tree, Due(c + 1, j)
        PROVE  \E k \in DOMAIN all : all[k] = Item(j)
    <3>1. j \in 2 .. Len(tree) /\ c < j /\ Parent(j) <= c + 1 /\ Parent(j) \in Nat
          /\ j # m
      BY <1>3, <1>11, <1>12, <2>1 DEF Due
    <3>2. CASE Parent(j) = m
      <4>1. PICK a \in 1 .. Len(q) : j = q[a]
        BY <1>4, <3>1, <3>2
      <4> QED
        BY <1>16, <4>1
    <3>3. CASE Parent(j) <= c
      <4>1. Due(c, j)
        BY <3>1, <3>3 DEF Due
      <4>2. PICK l \in 1 .. size : toDraw[l] = Item(j)
        BY <1>1, <1>5, <4>1 DEF Pending
      <4>3. l # 1
        BY <1>2, <3>1, <4>2, LineFacts
      <4>4. l \in 2 .. size
        BY <1>10, <4>3
      <4> QED
        BY <1>8, <4>2, <4>4
    <3> QED
      BY <1>11, <1>12, <3>1, <3>2, <3>3
  <2>2. ASSUME NEW k \in DOMAIN all
        PROVE  /\ all[k].is = "node" => Due(c + 1, all[k].id)
               /\ all[k].is = "edge" =>
                    /\ all[k].from <= c + 1
                    /\ \/ all[k].to <= c + 1
                       \/ k - 1 \in DOMAIN all /\ all[k - 1] = Item(all[k].to)
    <3>1. CASE \E a \in 1 .. Len(q) : k = 2 * a - 1 /\ all[k] = Item(q[a])
      <4>1. PICK a \in 1 .. Len(q) : k = 2 * a - 1 /\ all[k] = Item(q[a])
        BY <3>1
      <4>2. q[a] \in m + 1 .. Len(tree) /\ Parent(q[a]) = m
        BY <1>4
      <4>3. Due(c + 1, q[a])
        BY <1>11, <1>12, <4>2 DEF Due
      <4> QED
        BY <4>1, <4>3, LineFacts
    <3>2. CASE \E a \in 1 .. Len(q) : k = 2 * a /\ all[k] = EdgeOf(q[a])
      <4>1. PICK a \in 1 .. Len(q) : k = 2 * a /\ all[k] = EdgeOf(q[a])
        BY <3>2
      <4>2. all[k].is = "edge" /\ all[k].from = c + 1 /\ all[k].to = q[a]
        BY <1>4, <1>11, <4>1, LineFacts
      <4>3. k - 1 \in DOMAIN all /\ all[k - 1] = Item(q[a])
        BY <1>16, <4>1
      <4> QED
        BY <1>12, <4>2, <4>3
    <3>3. CASE \E l \in 2 .. size : k = l + count - 1 /\ all[k] = toDraw[l]
      <4>1. PICK l \in 2 .. size : k = l + count - 1 /\ all[k] = toDraw[l]
        BY <3>3
      <4>2. /\ all[k].is = "node" => Due(c + 1, all[k].id)
            /\ all[k].is = "edge" =>
                 /\ all[k].from <= c
                 /\ \/ all[k].to <= c + 1
                    \/ /\ toDraw[l - 1] = Item(all[k].to)
                       /\ l - 1 \in 2 .. size
        BY <1>13, <4>1
      <4>3. ASSUME l - 1 \in 2 .. size
            PROVE  k - 1 \in DOMAIN all /\ all[k - 1] = toDraw[l - 1]
        <5>1. l - 1 + count - 1 = k - 1
          BY <1>7, <4>1
        <5> QED
          BY <1>8, <4>3, <5>1
      <4>4. all[k].is = "edge" => all[k].from <= c + 1
        <5>1. ASSUME all[k].is = "edge" PROVE all[k].from <= c + 1
          <6>1. all[k] \in Items
            BY <1>8
          <6>2. PICK j \in 2 .. Len(tree) : all[k] = EdgeOf(j)
            BY <5>1, <6>1, LineFacts
          <6>3. all[k].from = Parent(j) /\ Parent(j) \in Nat
            BY <1>3, <6>2, LineFacts
          <6> QED
            BY <1>12, <4>2, <5>1, <6>3
        <5> QED
          BY <5>1
      <4> QED
        BY <4>2, <4>3, <4>4
    <3> QED
      BY <1>15, <3>1, <3>2, <3>3
  <2> QED
    BY <1>8, <2>1, <2>2 DEF Pending
\* The order.
<1>18. ASSUME NEW a \in 1 .. Len(q)
       PROVE  /\ Item(q[a]).is = "node" /\ Item(q[a]).id = q[a]
              /\ EdgeOf(q[a]).is = "edge" /\ EdgeOf(q[a]).to = q[a]
              /\ EdgeOf(q[a]).from = c + 1
  BY <1>4, <1>11, LineFacts
<1>19. ASSUME NEW x \in Lines \cup Items
       PROVE  /\ x.is \in {"node", "edge"}
              /\ x.is = "node" => x.id \in Nat
              /\ x.is = "edge" => x.to \in Nat /\ x.from \in Nat
  <2>1. PICK j \in DOMAIN tree : x = Item(j) \/ x = NodeLine(j)
                                 \/ (j # 1 /\ x = EdgeOf(j))
    <3>1. \A j \in 2 .. Len(tree) : j \in DOMAIN tree /\ j # 1
      BY <1>3
    <3> QED
      BY <3>1, LineFacts
  <2>2. j \in Nat /\ (j # 1 => Parent(j) \in Nat)
    BY <1>3
  <2> QED
    BY <2>1, <2>2, LineFacts
<1>20. InOrder(all)
  <2>1. SUFFICES ASSUME NEW i \in DOMAIN all, NEW j \in DOMAIN all, i < j
                 PROVE  Before(all[i], all[j])
    BY DEF InOrder
  <2>2. CASE \E a \in 1 .. Len(q) : i \in {2 * a - 1, 2 * a}
    <3>1. PICK a \in 1 .. Len(q) : \/ i = 2 * a - 1 /\ all[i] = Item(q[a])
                                   \/ i = 2 * a /\ all[i] = EdgeOf(q[a])
      BY <1>16, <2>2
    <3>2. CASE \E b \in 1 .. Len(q) : \/ j = 2 * b - 1 /\ all[j] = Item(q[b])
                                      \/ j = 2 * b /\ all[j] = EdgeOf(q[b])
      <4>1. PICK b \in 1 .. Len(q) : \/ j = 2 * b - 1 /\ all[j] = Item(q[b])
                                     \/ j = 2 * b /\ all[j] = EdgeOf(q[b])
        BY <3>2
      <4>2. q[a] \in Nat /\ q[b] \in Nat /\ a \in Nat /\ b \in Nat
        BY <1>3, <1>4, <1>11, <1>12
      <4>3. CASE a < b
        <5>1. q[a] < q[b]
          BY <1>4, <4>3
        <5> QED
          BY <1>18, <3>1, <4>1, <4>2, <5>1 DEF Before
      <4>4. CASE a = b
        BY <1>18, <2>1, <3>1, <4>1, <4>2, <4>4 DEF Before
      <4>5. CASE a > b
        BY <2>1, <3>1, <4>1, <4>2, <4>5
      <4> QED
        BY <4>2, <4>3, <4>4, <4>5
    <3>3. CASE \E l \in 2 .. size : j = l + count - 1 /\ all[j] = toDraw[l]
      <4>1. PICK l \in 2 .. size : j = l + count - 1 /\ all[j] = toDraw[l]
        BY <3>3
      <4>2. all[j] \in Items
        BY <1>8
      <4>3. all[j].is = "edge" => all[j].from # c + 1
        BY <1>12, <1>13, <1>19, <4>1, <4>2
      <4> QED
        BY <1>13, <1>18, <3>1, <4>1, <4>3 DEF Before
    <3> QED
      BY <1>15, <3>2, <3>3
  <2>3. CASE \E l \in 2 .. size : i = l + count - 1 /\ all[i] = toDraw[l]
    <3>1. PICK l \in 2 .. size : i = l + count - 1 /\ all[i] = toDraw[l]
      BY <2>3
    <3>2. i > count /\ l \in 1 .. size
      BY <1>7, <1>10, <3>1
    <3>3. \A a \in 1 .. Len(q) : 2 * a - 1 <= count /\ 2 * a <= count
      BY <1>6, <1>7
    <3>4. PICK k \in 2 .. size : j = k + count - 1 /\ all[j] = toDraw[k]
      <4>1. j > count
        BY <1>7, <1>8, <2>1, <3>2
      <4>2. ~(j <= count)
        BY <1>7, <1>8, <4>1
      <4> QED
        BY <1>15, <3>3, <4>2
    <3>5. l < k /\ k \in 1 .. size
      BY <1>7, <1>10, <2>1, <3>1, <3>4
    <3> QED
      BY <1>1, <1>5, <3>1, <3>2, <3>4, <3>5 DEF InOrder
  <2> QED
    BY <1>15, <2>2, <2>3
<1>21. InOrder(out)
  <2>1. ASSUME NEW i \in 1 .. old + 1, NEW j \in 1 .. old + 1, i < j
        PROVE  Before(out[i], out[j])
    <3>1. i \in 1 .. old
      BY <1>9, <2>1
    <3>2. CASE j \in 1 .. old
      BY <1>1, <1>9, <2>1, <3>1, <3>2 DEF InOrder
    <3>3. CASE j = old + 1
      <4>1. out[j].is = "node" /\ out[j].id = c + 1
        BY <1>9, <1>11, <3>3, LineFacts
      <4>2. output[i] \in Lines
        BY <1>1, <1>9, <3>1, ElementOfSeq
      <4>3. out[i].is = "node" => out[i].id <= c /\ out[i].id \in Nat
        BY <1>1, <1>9, <1>19, <3>1, <4>2 DEF Written
      <4> QED
        BY <1>12, <4>1, <4>3 DEF Before
    <3> QED
      BY <1>10, <3>2, <3>3
  <2> QED
    BY <1>9, <2>1 DEF InOrder
<1>22. ASSUME NEW i \in DOMAIN out, NEW k \in DOMAIN all
       PROVE  Before(out[i], all[k])
  <2>1. CASE i \in 1 .. old
    <3>1. out[i] = output[i] /\ output[i] \in Lines
      BY <1>1, <1>9, <2>1, ElementOfSeq
    <3>2. CASE \E a \in 1 .. Len(q) : \/ k = 2 * a - 1 /\ all[k] = Item(q[a])
                                      \/ k = 2 * a /\ all[k] = EdgeOf(q[a])
      <4>1. PICK a \in 1 .. Len(q) : \/ k = 2 * a - 1 /\ all[k] = Item(q[a])
                                     \/ k = 2 * a /\ all[k] = EdgeOf(q[a])
        BY <3>2
      <4>2. q[a] \in Nat /\ q[a] > c + 1 /\ Parent(q[a]) = c + 1
        BY <1>3, <1>4, <1>11, <1>12
      <4>3. output[i].is = "node" => output[i].id <= c /\ output[i].id \in Nat
        BY <1>1, <1>9, <1>19, <2>1, <3>1 DEF Written
      <4>4. output[i].is = "edge" =>
              output[i].to # q[a] /\ output[i].from # c + 1
        <5>1. ASSUME output[i].is = "edge"
              PROVE  output[i].to # q[a] /\ output[i].from # c + 1
          <6>1. PICK j \in 2 .. Len(tree) : output[i] = EdgeOf(j)
            BY <3>1, <5>1, LineFacts
          <6>2. output[i].to = j /\ output[i].from = Parent(j)
            BY <6>1, LineFacts
          <6>3. PICK l \in 1 .. i - 1 : output[l] = NodeLine(j)
            BY <1>1, <1>9, <2>1, <5>1, <6>2 DEF Written
          <6>4. l \in 1 .. old
            BY <1>9, <2>1
          <6>5. j <= c
            <7>1. output[l].is = "node" /\ output[l].id = j
              BY <6>3, LineFacts
            <7> QED
              BY <1>1, <1>9, <6>4, <7>1 DEF Written
          <6>6. Parent(j) \in 1 .. j - 1
            BY <1>3
          <6> QED
            BY <1>12, <4>2, <6>2, <6>5, <6>6
        <5> QED
          BY <5>1
      <4> QED
        BY <1>12, <1>18, <3>1, <4>1, <4>2, <4>3, <4>4 DEF Before
    <3>3. CASE \E l \in 2 .. size : k = l + count - 1 /\ all[k] = toDraw[l]
      BY <1>1, <1>5, <1>9, <1>10, <2>1, <3>1, <3>3
    <3> QED
      BY <1>15, <3>2, <3>3
  <2>2. CASE i = old + 1
    <3>1. out[i].is = "node" /\ out[i].id = c + 1
      BY <1>9, <1>11, <2>2, LineFacts
    <3>2. all[k].is = "node" => c + 1 < all[k].id
      BY <1>17 DEF Pending, Due
    <3> QED
      BY <3>1, <3>2 DEF Before
  <2> QED
    BY <1>9, <1>10, <2>1, <2>2
<1>23. EdgesThere(c + 1, out, all)
  <2>1. SUFFICES ASSUME NEW j \in 2 .. Len(tree), Parent(j) <= c + 1
                 PROVE  \/ \E i \in DOMAIN out : out[i] = EdgeOf(j)
                        \/ \E k \in DOMAIN all : all[k] = EdgeOf(j)
    BY DEF EdgesThere
  <2>2. CASE Parent(j) = m
    <3>1. PICK a \in 1 .. Len(q) : j = q[a]
      BY <1>4, <2>2
    <3> QED
      BY <1>16, <3>1
  <2>3. CASE Parent(j) <= c
    <3>1. CASE \E i \in DOMAIN output : output[i] = EdgeOf(j)
      BY <1>9, <1>10, <3>1
    <3>2. CASE \E l \in DOMAIN toDraw : toDraw[l] = EdgeOf(j)
      <4>1. PICK l \in 1 .. size : toDraw[l] = EdgeOf(j)
        BY <1>5, <3>2
      <4>2. l # 1
        BY <1>2, <4>1, LineFacts
      <4>3. l \in 2 .. size
        BY <1>10, <4>2
      <4> QED
        BY <1>8, <4>1, <4>3
    <3> QED
      BY <1>1, <2>3, <3>1, <3>2 DEF EdgesThere
  <2> QED
    BY <1>3, <1>11, <1>12, <2>1, <2>2, <2>3
<1>24. /\ Written(c + 1, output)' <=> Written(c + 1, output')
       /\ Pending(c + 1, toDraw)' <=> Pending(c + 1, toDraw')
       /\ EdgesThere(c + 1, output, toDraw)' <=> EdgesThere(c + 1, output', toDraw')
  <2>1. (\A m_1 : NodeLine(m_1)' = NodeLine(m_1)) /\ Lines' = Lines /\ Items' = Items
    BY <1>2 DEF NodeLine, detail, Lines, Items, operatorsStr, EdgeOf, EdgeLine, Parent
  <2>2. \A m_1 : Parent(m_1)' = Parent(m_1) /\ EdgeOf(m_1)' = EdgeOf(m_1)
    BY <1>2 DEF Parent, EdgeOf, EdgeLine
  <2> QED
    BY <1>2, <2>1, <2>2 DEF Written, Pending, EdgesThere, Due
<1>25. output' = out /\ toDraw' = all
  BY <1>2 DEF out, all, new, q
<1>26. c + 1 \in 0 .. Len(tree)
  BY <1>12
<1> QED
  BY <1>14, <1>17, <1>20, <1>21, <1>22, <1>23, <1>24, <1>25, <1>26 DEF Drawing, InOrder

\* While nothing is written the invariant stays.
LEMMA SameDrawing ==
  ASSUME DrawInv, UNCHANGED <<tree, dotVars>>
  PROVE  DrawInv'
<1>1. (\A m : NodeLine(m)' = NodeLine(m)) /\ Lines' = Lines /\ Items' = Items
  BY DEF NodeLine, detail, Lines, Items, operatorsStr, EdgeOf, EdgeLine, Parent
<1>2. \A m : Parent(m)' = Parent(m) /\ EdgeOf(m)' = EdgeOf(m)
  BY DEF Parent, EdgeOf, EdgeLine
<1>3. tree' = tree /\ output' = output /\ toDraw' = toDraw
  BY DEF dotVars
<1> QED
  BY <1>1, <1>2, <1>3 DEF DrawInv, Drawing, Written, Pending, InOrder, EdgesThere, Due

LEMMA DrawStep ==
  ASSUME TypeOK, DrawInv, [BackendNext]_backendVars
  PROVE  DrawInv'
<1>1. WellFormed(tree) /\ Len(tree) \in Nat
  BY TreeShape DEF TypeOK
<1>2. PICK c \in 0 .. Len(tree) : Drawing(c)
  BY DEF DrawInv
<1>3. CASE UNCHANGED <<tree, dotVars>>
  BY <1>3, SameDrawing
<1>4. CASE GenerateNode
  <2>1. tree' = tree
    BY <1>4 DEF GenerateNode, vars
  <2> QED
    BY <1>1, <1>2, <1>4, <2>1, NodeDrawing DEF DrawInv
<1>5. CASE GenerateEdge
  <2>1. tree' = tree
    BY <1>5 DEF GenerateEdge, vars
  <2> QED
    BY <1>1, <1>2, <1>5, <2>1, EdgeDrawing DEF DrawInv
<1>6. Next => UNCHANGED tree
  BY DEF Next, AnalyzeRoot, AnalyzeVarDecl, AnalyzeFnParam, AnalyzeFnDef,
         AnalyzeBlock, AnalyzeIfSt, AnalyzeVariable, AnalyzeFnCallExpr,
         AnalyzeOperands, AnalyzeLiteral, RefuseDeclaration, RefuseVariable,
         RefuseCall, Finish, Analyze, fatalSemaError
<1>7. CodegenNext => UNCHANGED vars
  BY CodegenKeepsTree
<1> QED
  BY <1>3, <1>4, <1>5, <1>6, <1>7 DEF BackendNext, backendVars, vars

THEOREM DrawingInvariant == BackendSpec => []DrawInv
<1>1. TypeOK /\ DotInit => DrawInv
  <2>1. TypeOK /\ DotInit => Drawing(0) /\ 0 \in 0 .. Len(tree)
    BY InitDrawing, TreeShape DEF TypeOK
  <2> QED
    BY <2>1 DEF DrawInv
<1>2. TypeOK /\ DrawInv /\ [BackendNext]_backendVars => DrawInv'
  BY DrawStep
<1> QED
  BY <1>1, <1>2, TreeStays, PTL DEF BackendSpec, BackendInit

\* The one element of a set is its greatest, and counts for one.
LEMMA Only ==
  ASSUME NEW i \in Nat, NEW s, i \in s, \A j \in s : j = i
  PROVE  s = {i} /\ Cardinality(s) = 1 /\ Max(s) = i
<1>1. s = {i}
  OBVIOUS
<1>2. Cardinality({i}) = 1
  BY FS_Singleton
<1>3. Max({i}) = i
  BY MaxUnique
<1> QED
  BY <1>1, <1>2, <1>3

LEMMA DrawnIsTree ==
  ASSUME WellFormed(tree), NEW c \in 0 .. Len(tree), Drawing(c), Drawn
  PROVE  GraphIsTree
<1>1. /\ Written(c, output) /\ Pending(c, toDraw) /\ InOrder(output)
      /\ EdgesThere(c, output, toDraw) /\ DOMAIN toDraw = {}
  BY DEF Drawing, Drawn
<1>2. /\ Len(tree) \in Nat /\ DOMAIN tree = 1 .. Len(tree)
      /\ \A m \in 2 .. Len(tree) : Parent(m) \in 1 .. m - 1 /\ m \in Kids(Parent(m))
      /\ \A m \in DOMAIN tree : \A k \in Kids(m) : /\ k \in m + 1 .. Len(tree)
                                                   /\ Parent(k) = m
  BY TreeShape
<1> DEFINE old == Len(output)
<1>3. old \in Nat /\ DOMAIN output = 1 .. old /\ \A i \in 1 .. old : output[i] \in Lines
  BY <1>1, LenProperties, ElementOfSeq DEF Written
<1> HIDE DEF old
<1>4. c = Len(tree)
  <2>1. SUFFICES ASSUME c # Len(tree) PROVE FALSE
    OBVIOUS
  <2>2. c + 1 \in DOMAIN tree /\ c \in Nat
    <3> DEFINE len == Len(tree)
    <3>1. len \in Nat /\ c \in 0 .. len /\ c # len /\ DOMAIN tree = 1 .. len
      BY <1>2, <2>1
    <3> HIDE DEF len
    <3> QED
      BY <3>1
  <2>3. c + 1 = 1 \/ Parent(c + 1) \in 1 .. c + 1 - 1
    BY <1>2, <2>2
  <2>4. Due(c, c + 1)
    BY <2>2, <2>3 DEF Due
  <2> QED
    BY <1>1, <2>2, <2>4 DEF Pending
\* Of two lines for the same node one would be before the other.
<1>5. \A i, j \in 1 .. old : i < j => Before(output[i], output[j])
  BY <1>1, <1>3 DEF InOrder
<1>6. ASSUME NEW m \in DOMAIN tree
      PROVE  \E i \in 1 .. old : /\ output[i] = NodeLine(m)
                                 /\ \A j \in drawings(m) : j = i
                                 /\ i \in drawings(m)
  <2>1. PICK i \in 1 .. old : output[i] = NodeLine(m)
    BY <1>1, <1>2, <1>3, <1>4 DEF Written
  <2>2. output[i].is = "node" /\ output[i].id = m /\ m \in Nat
    BY <1>2, <2>1, LineFacts
  <2>3. \A j \in drawings(m) : j \in 1 .. old /\ output[j].is = "node" /\ output[j].id = m
    BY <1>3 DEF drawings
  <2>4. ASSUME NEW j \in drawings(m) PROVE j = i
    <3>1. ~(i < j) /\ ~(j < i)
      BY <1>5, <2>2, <2>3 DEF Before
    <3> QED
      BY <1>3, <2>3, <3>1
  <2> QED
    BY <1>3, <2>1, <2>2, <2>4 DEF drawings
<1>7. ASSUME NEW m \in 2 .. Len(tree)
      PROVE  \E i \in 1 .. old : /\ output[i] = EdgeOf(m)
                                 /\ \A j \in edgesTo(m) : j = i
                                 /\ i \in edgesTo(m)
  <2>1. PICK i \in 1 .. old : output[i] = EdgeOf(m)
    <3>1. Parent(m) <= c
      BY <1>2, <1>4
    <3> QED
      BY <1>1, <1>3, <3>1 DEF EdgesThere
  <2>2. output[i].is = "edge" /\ output[i].to = m
    BY <2>1, LineFacts
  <2>3. \A j \in edgesTo(m) : j \in 1 .. old /\ output[j].is = "edge" /\ output[j].to = m
    BY <1>3 DEF edgesTo
  <2>4. ASSUME NEW j \in edgesTo(m) PROVE j = i
    <3>1. ~(i < j) /\ ~(j < i)
      BY <1>5, <2>2, <2>3 DEF Before
    <3> QED
      BY <1>3, <2>3, <3>1
  <2> QED
    BY <1>3, <2>1, <2>2, <2>4 DEF edgesTo
<1>8. ASSUME NEW i \in 1 .. old, output[i].is = "edge"
      PROVE  /\ output[i].to \in 2 .. Len(tree)
             /\ output[i].from = Parent(output[i].to)
             /\ output[i] = EdgeOf(output[i].to)
             /\ \E j \in 1 .. i - 1 : output[j] = NodeLine(output[i].to)
  <2>1. PICK m \in 2 .. Len(tree) : output[i] = EdgeOf(m)
    BY <1>3, <1>8, LineFacts
  <2>2. output[i].to = m /\ output[i].from = Parent(m)
    BY <2>1, LineFacts
  <2> QED
    BY <1>1, <1>3, <1>8, <2>1, <2>2 DEF Written
<1>9. ASSUME NEW m \in DOMAIN tree
      PROVE  /\ Cardinality(drawings(m)) = 1
             /\ Max(drawings(m)) \in 1 .. old
             /\ output[Max(drawings(m))] = NodeLine(m)
             /\ drawings(m) = {Max(drawings(m))}
  <2>1. PICK i \in 1 .. old : /\ output[i] = NodeLine(m)
                              /\ \A j \in drawings(m) : j = i
                              /\ i \in drawings(m)
    BY <1>6
  <2>2. i \in Nat
    BY <1>3
  <2> QED
    BY <2>1, <2>2, Only
<1>10. ASSUME NEW m \in DOMAIN tree
       PROVE  Cardinality(edgesTo(m)) = (IF m = 1 THEN 0 ELSE 1)
  <2>1. CASE m = 1
    <3>1. edgesTo(m) = {}
      <4>1. \A i \in edgesTo(m) : i \in 1 .. old /\ output[i].is = "edge" /\ output[i].to = 1
        BY <1>3, <2>1 DEF edgesTo
      <4>2. 1 \notin 2 .. Len(tree)
        BY <1>2
      <4> QED
        BY <1>8, <4>1, <4>2
    <3> QED
      BY <2>1, <3>1, FS_EmptySet
  <2>2. CASE m # 1
    <3>1. m \in 2 .. Len(tree)
      BY <1>2, <2>2
    <3>2. PICK i \in 1 .. old : /\ \A j \in edgesTo(m) : j = i
                                /\ i \in edgesTo(m)
      BY <1>7, <3>1
    <3>3. i \in Nat
      BY <1>3
    <3> QED
      BY <2>2, <3>2, <3>3, Only
  <2> QED
    BY <2>1, <2>2
<1>11. ASSUME NEW m \in DOMAIN tree
       PROVE  {output[i].to : i \in edgesFrom(m)} = ChildrenOf(tree, m)
  <2>1. ASSUME NEW i \in edgesFrom(m) PROVE output[i].to \in Kids(m)
    <3>1. i \in 1 .. old /\ output[i].is = "edge" /\ output[i].from = m
      BY <1>3 DEF edgesFrom
    <3> QED
      BY <1>2, <1>8, <3>1
  <2>2. ASSUME NEW k \in Kids(m) PROVE \E i \in edgesFrom(m) : output[i].to = k
    <3>1. k \in 2 .. Len(tree) /\ Parent(k) = m
      BY <1>2
    <3>2. PICK i \in 1 .. old : output[i] = EdgeOf(k)
      BY <1>7, <3>1
    <3>3. output[i].is = "edge" /\ output[i].to = k /\ output[i].from = m
      BY <3>1, <3>2, LineFacts
    <3> QED
      BY <1>3, <3>3 DEF edgesFrom
  <2> QED
    BY <2>1, <2>2 DEF Kids
<1>12. ASSUME NEW m \in DOMAIN tree, NEW i \in edgesFrom(m), NEW j \in edgesFrom(m), i < j
       PROVE  output[i].to < output[j].to
  <2>1. /\ i \in 1 .. old /\ output[i].is = "edge" /\ output[i].from = m
        /\ j \in 1 .. old /\ output[j].is = "edge" /\ output[j].from = m
    BY <1>3 DEF edgesFrom
  <2> QED
    BY <1>5, <1>12, <2>1 DEF Before
<1>13. ASSUME NEW m \in DOMAIN tree, NEW i \in edgesTo(m)
       PROVE  /\ Max(drawings(output[i].from)) < Max(drawings(m))
              /\ Max(drawings(m)) < i
  <2>1. i \in 1 .. old /\ output[i].is = "edge" /\ output[i].to = m
    BY <1>3 DEF edgesTo
  <2>2. /\ m \in 2 .. Len(tree) /\ output[i].from = Parent(m)
        /\ \E j \in 1 .. i - 1 : output[j] = NodeLine(m)
    BY <1>8, <2>1
  <2>3. Parent(m) \in DOMAIN tree /\ Parent(m) < m /\ Parent(m) \in Nat /\ m \in Nat
    BY <1>2, <2>2
  <2> DEFINE a == Max(drawings(Parent(m)))
             b == Max(drawings(m))
  <2>4. /\ a \in 1 .. old /\ output[a] = NodeLine(Parent(m))
        /\ b \in 1 .. old /\ output[b] = NodeLine(m)
        /\ drawings(m) = {b}
    BY <1>9, <2>3
  <2> HIDE DEF a, b
  <2>5. a < b
    <3>1. /\ output[a].is = "node" /\ output[a].id = Parent(m)
          /\ output[b].is = "node" /\ output[b].id = m
      BY <2>4, LineFacts
    <3>2. ~(b < a) /\ a # b
      BY <1>5, <2>3, <2>4, <3>1 DEF Before
    <3> QED
      BY <1>3, <2>4, <3>2
  <2>6. b < i
    <3>1. PICK j \in 1 .. i - 1 : output[j] = NodeLine(m)
      BY <2>2
    <3>2. j \in 1 .. old /\ output[j].is = "node" /\ output[j].id = m
      BY <1>3, <2>1, <3>1, LineFacts
    <3>3. j \in drawings(m)
      BY <1>3, <3>2 DEF drawings
    <3> QED
      BY <1>3, <2>1, <2>4, <3>1, <3>3
  <2> QED
    BY <2>2, <2>5, <2>6 DEF a, b
<1> QED
  BY <1>9, <1>10, <1>11, <1>12, <1>13 DEF GraphIsTree

\* The graph is the tree: nothing is drawn twice, forgotten, or named by an edge
\* before it has its label.
THEOREM GraphShowsTree == BackendSpec => []GraphIsTree
<1>1. TypeOK /\ DrawInv => GraphIsTree
  <2>1. ASSUME TypeOK, DrawInv, Drawn PROVE GraphIsTree
    BY <2>1, DrawnIsTree DEF TypeOK, DrawInv
  <2> QED
    BY <2>1 DEF GraphIsTree
<1> QED
  BY <1>1, TreeStays, DrawingInvariant, PTL
=============================================================================
