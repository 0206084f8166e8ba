------------------------------ MODULE Scoping ------------------------------
(***************************************************************************)
(* What the semantic analysis has to find out, stated for the tree alone:  *)
(* which declarations a node can see, and which nodes are wrong.  Nothing  *)
(* here knows of scopes, of symbols or of the order of the analysis.       *)
(***************************************************************************)
EXTENDS Sema

Kids(m) == ChildrenOf(tree, m)

\* A node and what is below it: up to the next node below an earlier one.
Subtree(m) ==
  LET others == UNION {Kids(a) : a \in 1 .. m - 1}
  IN  {k \in m .. Len(tree) : others \cap m + 1 .. k = {}}

\* The nodes that bound what is declared below them: the root, a function and
\* the two branches of an if statement.  A block bounds nothing.
Bounds ==
  {m \in DOMAIN tree : tree[m].kind \in {"Root", "FnDef"}}
    \cup UNION {{tree[m].kids[2], tree[m].kids[3]} :
                  m \in {m \in DOMAIN tree : tree[m].kind = "IfSt"}}

\* The innermost bound a declaration is in; a function is declared outside.
Owner(d) ==
  Max({b \in Bounds : /\ d \in Subtree(b)
                      /\ ~(b = d /\ tree[d].kind = "FnDef")})

Declarations ==
  {d \in DOMAIN tree : tree[d].kind \in {"VarDecl", "FnParam", "FnDef"}}

\* A declaration is seen from where it stands to the end of its bound.
Visible(m) ==
  {d \in Declarations : /\ tree[d].name = tree[m].name
                        /\ d < m
                        /\ m \in Subtree(Owner(d))}

Variables(m) == {d \in Visible(m) : tree[d].kind # "FnDef"}
Functions(m) == Visible(m) \ Variables(m)

Correct(m) ==
  CASE m \in Declarations -> /\ Visible(m) = {}
                             /\ tree[m].typeName \in Types
    [] tree[m].kind \in {"AssignSt", "VarExpr"} -> Variables(m) # {}
    [] tree[m].kind = "FnCallExpr" ->
         \E d \in Functions(m) : Len(tree[d].kids) = Len(tree[m].kids) + 1
    [] OTHER -> TRUE

\* The nodes below a call are its arguments.
Arguments ==
  UNION {Subtree(m) \ {m} :
           m \in {m \in DOMAIN tree : tree[m].kind = "FnCallExpr"}}

\* SymbolObject::param_num can count the parameters of every function.  A call
\* of one with ParamValues parameters would pass without an argument.
ParametersFit ==
  \A t \in Trees : \A m \in DOMAIN t :
    t[m].kind = "FnDef" => Len(t[m].kids) <= ParamValues

Wrong == {m \in DOMAIN tree \ Arguments : ~Correct(m)}

-----------------------------------------------------------------------------
(* Properties. *)

\* A tree passes only if it has no wrong node, the arguments of calls apart,
\* and then every variable has the symbol of the one declaration it can see,
\* which is global exactly when it stands at top level.
ResolvesStatically ==
  status = "analysed" =>
    /\ Wrong = {}
    /\ \A m \in DOMAIN tree \ Arguments :
         tree[m].kind \in {"AssignSt", "VarExpr"} =>
           /\ Variables(m) = {symbolOf[m].declaredAt}
           /\ symbolOf[m].isGlobal <=> Owner(symbolOf[m].declaredAt) = 1

\* A tree is refused only for a wrong node, and for the first one in the text.
RefusesFirstWrong ==
  status = "semantic_error" => Wrong # {} /\ errorAt = Min(Wrong)
=============================================================================
