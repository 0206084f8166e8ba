------------------------------- MODULE DotGen -------------------------------
(***************************************************************************)
(* The drawing of the tree: DotGenerator (src/src/dotgen.cpp), which writes *)
(* a line for every node, before its children, and a line for the edge to  *)
(* each child, behind all the child's own lines.                           *)
(***************************************************************************)
EXTENDS Sema

VARIABLES
  toDraw,  \* the nodes and edges still to be written, the next one first
  output   \* the lines written

dotVars == <<toDraw, output>>

Named == {"VarDecl", "FnParam", "FnDef", "AssignSt", "VarExpr", "FnCallExpr"}
Valued == {"FloatExpr", "IntegerExpr", "BoolExpr"}

\* The switch over prefix operators has no case for MINUS.
operatorsStr(m) ==
  IF tree[m].kind = "PrefixExpr"
    THEN SelectSeq(tree[m].ops, LAMBDA op : op = "NOT")
    ELSE tree[m].ops

\* The second part of a label; most kinds have none.
detail(m) ==
  CASE tree[m].kind \in Named -> <<tree[m].name>>
    [] tree[m].kind \in Valued -> <<tree[m].value>>
    [] tree[m].kind \in {"BinExpr", "PrefixExpr"} -> operatorsStr(m)
    [] OTHER -> <<>>

NodeLine(m) == [is |-> "node", id |-> m, kind |-> tree[m].kind, detail |-> detail(m)]
EdgeLine(m, k) == [is |-> "edge", from |-> m, to |-> k]

DotInit ==
  /\ toDraw = <<[is |-> "node", id |-> 1]>>
  /\ output = <<>>

\* Mutant: the body of a function is forgotten.
drawnButBody(m) ==
  IF tree[m].kind = "FnDef" THEN SubSeq(tree[m].kids, 1, Len(tree[m].kids) - 1)
  ELSE tree[m].kids

drawn(m) == tree[m].kids

\* A node: its line, then for each child the child and the edge to it.
GenerateNode ==
  /\ status = "analysed"
  /\ toDraw # <<>>
  /\ Head(toDraw).is = "node"
  /\ LET m == Head(toDraw).id
         kids == drawn(m)
     IN  /\ output' = Append(output, NodeLine(m))
         /\ toDraw' = [k \in 1 .. 2 * Len(kids) |->
                         IF k % 2 = 1 THEN [is |-> "node", id |-> kids[(k + 1) \div 2]]
                         ELSE EdgeLine(m, kids[k \div 2])]
                      \o Tail(toDraw)
  /\ UNCHANGED vars

GenerateEdge ==
  /\ status = "analysed"
  /\ toDraw # <<>>
  /\ Head(toDraw).is = "edge"
  /\ output' = Append(output, Head(toDraw))
  /\ toDraw' = Tail(toDraw)
  /\ UNCHANGED vars

Drawn == toDraw = <<>>

-----------------------------------------------------------------------------
(* Properties. *)

edgesFrom(m) == {i \in DOMAIN output : output[i].is = "edge" /\ output[i].from = m}
drawings(m) == {i \in DOMAIN output : output[i].is = "node" /\ output[i].id = m}
edgesTo(m) == {i \in DOMAIN output : output[i].is = "edge" /\ output[i].to = m}

\* The graph is the tree: every node is drawn once, every node but the root has
\* one edge to it, the edges from a node go to its children, in their order, and
\* a child is drawn behind its parent's line and before the edge to it, so that
\* no edge names a node that has no label yet.
GraphIsTree ==
  Drawn =>
    \A m \in DOMAIN tree :
      /\ Cardinality(drawings(m)) = 1
      /\ Cardinality(edgesTo(m)) = (IF m = 1 THEN 0 ELSE 1)
      /\ {output[i].to : i \in edgesFrom(m)} = ChildrenOf(tree, m)
      /\ \A i, j \in edgesFrom(m) : i < j => output[i].to < output[j].to
      /\ \A i \in edgesTo(m) :
           Max(drawings(output[i].from)) < Max(drawings(m)) /\ Max(drawings(m)) < i
=============================================================================
