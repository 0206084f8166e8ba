-------------------------------- MODULE Sema --------------------------------
(***************************************************************************)
(* The semantic analysis of unzig: SemanticAnalyzer (src/src/sema.cpp)     *)
(* with the scopes (scope.cpp) and symbols (symbol.hpp) it resolves names  *)
(* by.                                                                     *)
(*                                                                         *)
(* The tree is flat: nodes are numbered in the order in which they stand   *)
(* in the source, the root is 1 and a node names its children.  The calls  *)
(* of sema() that are still to be made are kept in `work', each with the   *)
(* scope that setScope() gives the node before the call; an action is one  *)
(* analyze().                                                              *)
(***************************************************************************)
EXTENDS Integers, Sequences, FiniteSetsExt

CONSTANTS
  Names,      \* of variables and functions
  Trees,      \* the trees considered
  ParamValues \* the number of values of SymbolObject::param_num, 2^16 in the program

Literals == {"FloatExpr", "IntegerExpr", "BoolExpr", "Empty"}
Operations == {"OrExpr", "AndExpr", "PrefixExpr", "BinExpr"}

Kind == Literals \cup Operations \cup
        {"Root", "VarDecl", "FnParam", "FnDef", "Block", "AssignSt",
         "ReturnSt", "IfSt", "VarExpr", "FnCallExpr"}

\* A node without a name, a type, operators or a value has any; nobody looks.
TreeNode ==
  [kind : Kind, name : Names, typeName : STRING, ops : Seq(STRING), value : Nat,
   kids : Seq(Nat)]

ExpressionKinds == Literals \cup Operations \cup {"VarExpr", "FnCallExpr"}

ChildrenOf(tree, n) == {tree[n].kids[k] : k \in DOMAIN tree[n].kids}
ParentOf(tree, m) == CHOOSE n \in DOMAIN tree : m \in ChildrenOf(tree, n)

\* The parameters of a function come before its body; the initialiser, the
\* value returned and the else branch are Empty when they are left out.
HasParts(tree, n) ==
  LET kind == tree[n].kind
      below == {tree[m].kind : m \in ChildrenOf(tree, n)}
  IN  /\ kind = "IfSt" => Len(tree[n].kids) = 3
      /\ kind = "FnDef" => Len(tree[n].kids) > 0
      /\ kind \in Literals \cup {"FnParam", "VarExpr"} => below = {}
      /\ kind \in ExpressionKinds => below \subseteq ExpressionKinds
      /\ "FnDef" \in below => kind = "Root"

\* The root is the first node, every other one is below exactly one node, and
\* what stands between a node and one below it is below that node as well.
WellFormed(tree) ==
  /\ tree \in Seq(TreeNode)
  /\ Len(tree) > 0
  /\ \A n \in DOMAIN tree :
       /\ tree[n].kind = "Root" <=> n = 1
       /\ \A k \in DOMAIN tree[n].kids :
            /\ tree[n].kids[k] \in n + 1 .. Len(tree)
            /\ ParentOf(tree, tree[n].kids[k]) = n
            /\ \A j \in 1 .. k - 1 : tree[n].kids[j] < tree[n].kids[k]
       /\ HasParts(tree, n)
  /\ \A m \in 2 .. Len(tree) :
       LET parent == ParentOf(tree, m)
       IN  /\ parent \in DOMAIN tree
           /\ m \in ChildrenOf(tree, parent)
           /\ \A k \in parent + 1 .. m : ParentOf(tree, k) >= parent

ASSUME TreesAssumption == \A tree \in Trees : WellFormed(tree)
ASSUME ParamValuesAssumption == ParamValues \in Nat \ {0}

-----------------------------------------------------------------------------
VARIABLES
  tree,       \* the nodes, never changed
  work,       \* the calls of sema() to come, the next one first
  scopes,     \* the scopes created so far
  symbolOf,   \* the symbols the nodes were given
  errorAt,    \* the node of the error reported, 0 for none
  status      \* "running", "analysed" or "semantic_error"

vars == <<tree, work, scopes, symbolOf, errorAt, status>>

Types == {"bool", "i32", "f32"}

createSymbol(n, symbolType, isGlobal, param_num) ==
  [declaredAt |-> n, symbolType |-> symbolType, isGlobal |-> isGlobal,
   param_num |-> param_num % ParamValues]

NoSymbol == [declaredAt |-> 0, symbolType |-> "none", isGlobal |-> FALSE,
             param_num |-> 0]

\* A scope knows its parents, up to the outermost; with itself they are its
\* chain.  A scope is created after its parent, so the innermost of a chain has
\* the highest number.
ScopeObject(chain, isGlobal) ==
  [chain |-> chain, isGlobal |-> isGlobal,
   table |-> [name \in Names |-> NoSymbol]]

\* The k-th scope to be created next, inside the scope s.
next(k) == Len(scopes) + k
createChildScope(s, k) == ScopeObject(scopes[s].chain \cup {next(k)}, FALSE)

holders(s, name) ==
  {t \in scopes[s].chain : scopes[t].table[name] # NoSymbol}

lookupSymbol(s, name) ==
  IF holders(s, name) = {} THEN NoSymbol
  ELSE scopes[Max(holders(s, name))].table[name]

\* std::unordered_map::insert keeps what is there.
insertSymbol(s, symbol) ==
  [scopes EXCEPT ![s].table[tree[symbol.declaredAt].name] =
     IF @ = NoSymbol THEN symbol ELSE @]

Init ==
  /\ tree \in Trees
  /\ work = <<[node |-> 1, scope |-> 0]>>
  /\ scopes = <<>>
  /\ symbolOf = [n \in DOMAIN tree |-> NoSymbol]
  /\ errorAt = 0
  /\ status = "running"

-----------------------------------------------------------------------------
(* One action per analyze(). *)

n == Head(work).node
node == tree[n]
scope == Head(work).scope

Analyze(kinds) ==
  /\ status = "running"
  /\ work # <<>>
  /\ node.kind \in kinds
  /\ UNCHANGED <<tree, errorAt, status>>

\* sema() is called for the nodes, in their order, with the scope s.
In(s, nodes) == [k \in DOMAIN nodes |-> [node |-> nodes[k], scope |-> s]]
AndThen(calls) == work' = calls \o Tail(work)

fatalSemaError ==
  /\ status = "running"
  /\ errorAt' = n
  /\ status' = "semantic_error"
  /\ UNCHANGED <<tree, work, scopes, symbolOf>>

AnalyzeRoot ==
  /\ Analyze({"Root"})
  /\ scopes' = <<ScopeObject({1}, TRUE)>>
  /\ AndThen(In(1, node.kids))
  /\ UNCHANGED symbolOf

\* Mutant: only the innermost scope is searched.
CanBeDeclaredHere ==
  scopes[scope].table[node.name] = NoSymbol /\ node.typeName \in Types

CanBeDeclared ==
  lookupSymbol(scope, node.name) = NoSymbol /\ node.typeName \in Types

RefuseDeclaration ==
  /\ work # <<>>
  /\ node.kind \in {"VarDecl", "FnParam", "FnDef"}
  /\ ~CanBeDeclared
  /\ fatalSemaError

variable == createSymbol(n, "Var", scopes[scope].isGlobal, 0)

\* The symbol is there before the initialiser is looked at.
AnalyzeVarDecl ==
  /\ Analyze({"VarDecl"})
  /\ CanBeDeclared
  /\ symbolOf' = [symbolOf EXCEPT ![n] = variable]
  /\ scopes' = insertSymbol(scope, variable)
  /\ AndThen(In(scope, node.kids))

AnalyzeFnParam ==
  /\ Analyze({"FnParam"})
  /\ CanBeDeclared
  /\ symbolOf' = [symbolOf EXCEPT ![n] = variable]
  /\ scopes' = insertSymbol(scope, variable)
  /\ AndThen(<<>>)

function ==
  createSymbol(n, "Fn", scopes[scope].isGlobal, Len(node.kids) - 1)

\* Mutant: the parameters and the body share the scope of the function.
AnalyzeFnDefOneScope ==
  /\ Analyze({"FnDef"})
  /\ CanBeDeclared
  /\ scopes' = insertSymbol(scope, function)
  /\ AndThen(In(scope, node.kids))
  /\ UNCHANGED symbolOf

AnalyzeFnDef ==
  /\ Analyze({"FnDef"})
  /\ CanBeDeclared
  /\ scopes' = Append(insertSymbol(scope, function), createChildScope(scope, 1))
  /\ AndThen(In(next(1), node.kids))
  /\ UNCHANGED symbolOf

AnalyzeBlock ==
  /\ Analyze({"Block"})
  /\ AndThen(In(scope, node.kids))
  /\ UNCHANGED <<scopes, symbolOf>>

\* Mutant: the branches are analysed in the scope of the statement.
AnalyzeIfStOneScope ==
  /\ Analyze({"IfSt"})
  /\ AndThen(In(scope, node.kids))
  /\ UNCHANGED <<scopes, symbolOf>>

\* The scope of the else branch is created after the then branch was analysed,
\* which nobody can tell from its being created before.
AnalyzeIfSt ==
  /\ Analyze({"IfSt"})
  /\ scopes' = scopes \o <<createChildScope(scope, 1),
                           createChildScope(scope, 2)>>
  /\ AndThen(<<[node |-> node.kids[1], scope |-> scope],
               [node |-> node.kids[2], scope |-> next(1)],
               [node |-> node.kids[3], scope |-> next(2)]>>)
  /\ UNCHANGED symbolOf

symbolHere == lookupSymbol(scope, node.name)

RefuseVariable ==
  /\ work # <<>>
  /\ node.kind \in {"AssignSt", "VarExpr"}
  /\ symbolHere.symbolType # "Var"
  /\ fatalSemaError

AnalyzeVariable ==
  /\ Analyze({"AssignSt", "VarExpr"})
  /\ symbolHere.symbolType = "Var"
  /\ symbolOf' = [symbolOf EXCEPT ![n] = symbolHere]
  /\ AndThen(In(scope, node.kids))
  /\ UNCHANGED scopes

RightArguments ==
  /\ symbolHere.symbolType = "Fn"
  /\ symbolHere.param_num = Len(node.kids)

RefuseCall ==
  /\ work # <<>>
  /\ node.kind = "FnCallExpr"
  /\ ~RightArguments
  /\ fatalSemaError

\* The arguments are counted, never analysed.
AnalyzeFnCallExpr ==
  /\ Analyze({"FnCallExpr"})
  /\ RightArguments
  /\ AndThen(<<>>)
  /\ UNCHANGED <<scopes, symbolOf>>

\* Mutant: setScope() is forgotten.
AnalyzeOperandsUnscoped ==
  /\ Analyze(Operations \cup {"ReturnSt"})
  /\ AndThen(In(0, node.kids))
  /\ UNCHANGED <<scopes, symbolOf>>

AnalyzeOperands ==
  /\ Analyze(Operations \cup {"ReturnSt"})
  /\ AndThen(In(scope, node.kids))
  /\ UNCHANGED <<scopes, symbolOf>>

AnalyzeLiteral ==
  /\ Analyze(Literals)
  /\ AndThen(<<>>)
  /\ UNCHANGED <<scopes, symbolOf>>

Finish ==
  /\ status = "running"
  /\ work = <<>>
  /\ status' = "analysed"
  /\ UNCHANGED <<tree, work, scopes, symbolOf, errorAt>>

Next ==
  \/ AnalyzeRoot \/ AnalyzeVarDecl \/ AnalyzeFnParam \/ AnalyzeFnDef
  \/ AnalyzeBlock \/ AnalyzeIfSt \/ AnalyzeVariable \/ AnalyzeFnCallExpr
  \/ AnalyzeOperands \/ AnalyzeLiteral
  \/ RefuseDeclaration \/ RefuseVariable \/ RefuseCall
  \/ Finish

Spec == Init /\ [][Next]_vars

-----------------------------------------------------------------------------
(* Properties. *)

Symbol ==
  [declaredAt : Nat, symbolType : {"Var", "Fn", "none"}, isGlobal : BOOLEAN,
   param_num : Nat]

ScopeType == [chain : SUBSET Nat, isGlobal : BOOLEAN, table : [Names -> Symbol]]

\* A chain begins at the outermost scope and goes through the chain of every
\* scope on it.
IsChain(s) ==
  /\ s \in scopes[s].chain
  /\ scopes[s].chain \subseteq 1 .. s
  /\ \A t \in scopes[s].chain :
       scopes[t].chain = {u \in scopes[s].chain : u <= t}

\* The variables have values of their types, scopes form a tree, and no node
\* but the root is analysed before it was given a scope: analyze() would
\* dereference a null pointer.
TypeOK ==
  /\ WellFormed(tree)
  /\ \/ work = <<[node |-> 1, scope |-> 0]>> /\ scopes = <<>>
     \/ work \in Seq([node : 2 .. Len(tree), scope : DOMAIN scopes])
  /\ scopes \in Seq(ScopeType)
  /\ \A s \in DOMAIN scopes : IsChain(s)
  /\ symbolOf \in [DOMAIN tree -> Symbol]
  /\ errorAt \in 0 .. Len(tree)
  /\ status \in {"running", "analysed", "semantic_error"}

\* What a name means in a scope never changes once it means something: no later
\* declaration, in whatever scope, captures a name that was resolved before.
\* This is what lets one pass suffice.
LookupsStable ==
  [][\A s \in DOMAIN scopes : \A name \in Names :
       lookupSymbol(s, name) # NoSymbol
         => lookupSymbol(s, name)' = lookupSymbol(s, name)]_vars
=============================================================================
