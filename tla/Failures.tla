------------------------------ MODULE Failures ------------------------------
(***************************************************************************)
(* What makes the code generation of an analysed tree end early, stated    *)
(* for the tree alone.                                                     *)
(***************************************************************************)
EXTENDS Codegen, Scoping

Of(kinds) == {m \in DOMAIN tree : tree[m].kind \in kinds}

\* The nodes of these kinds that m is a proper part of.
Around(m, kinds) == {a \in Of(kinds) : a # m /\ m \in Subtree(a)}

Params(f) == SubSeq(tree[f].kids, 1, Len(tree[f].kids) - 1)
TypeOfDeclaration(d) == toLLVMType(tree[d].typeName)
Declared(m) == CHOOSE d \in Visible(m) : TRUE

\* The type of an expression without operators.
TypeOfOperand(m) ==
  CASE tree[m].kind = "FloatExpr" -> "f32"
    [] tree[m].kind \in {"VarExpr", "FnCallExpr"} ->
         IF Visible(m) = {} THEN "none" ELSE TypeOfDeclaration(Declared(m))
    [] OTHER -> "i32"

Negated(m) ==
  tree[m].kind = "PrefixExpr" /\ \E k \in DOMAIN tree[m].ops : tree[m].ops[k] = "NOT"

\* The type of an expression: that of its first operand.
TypeOf[m \in DOMAIN tree] ==
  IF tree[m].kind \notin Operations THEN TypeOfOperand(m)
  ELSE IF Negated(m) THEN "i1"
  ELSE TypeOf[tree[m].kids[1]]

InitialisesWithItself ==
  \E m \in Of({"VarExpr"}) : Variables(m) \cap Around(m, {"VarDecl"}) # {}

HasGlobalVariable == \E d \in Kids(1) : tree[d].kind = "VarDecl"

LacksValue ==
  \E m \in Of({"VarDecl", "ReturnSt"}) : tree[tree[m].kids[1]].kind = "Empty"

\* The operands of an operation differ in their types or are no integers, or the
\* arguments of a call are not of the types of the parameters.
MixesTypes ==
  \/ \E m \in Of(Chains) : \E k \in Kids(m) :
       TypeOf[k] \notin {TypeOf[tree[m].kids[1]]} \cap IntegerTypes
  \/ \E m \in Of({"FnCallExpr"}) : \E f \in Functions(m) :
       [k \in DOMAIN tree[m].kids |-> TypeOf[tree[m].kids[k]]]
         # [k \in DOMAIN Params(f) |-> TypeOfDeclaration(Params(f)[k])]

mains == {f \in Of({"FnDef"}) : tree[f].name = "main"}

-----------------------------------------------------------------------------
(* Properties. *)

\* A variable that was resolved is allocated before it is used, but for its own
\* initial value; the generation ends early only for what the analysis left out:
\* arguments of calls, types, and variables outside of functions.
FailsForACause ==
  /\ outcome = "assert_failed" => \E m \in Arguments : tree[m].kind = "VarExpr"
  /\ outcome = "codegen_error" =>
       \/ \E m \in Arguments : ~Correct(m)
       \/ InitialisesWithItself
       \/ HasGlobalVariable /\ LacksValue
  /\ outcome = "crashed" => HasGlobalVariable
  /\ outcome = "undefined" => MixesTypes
  /\ outcome \in {"generated", "no_main"} =>
       (outcome = "no_main" <=> mains = {})

\* Codegen::generate(const VarExprNode &): assert(astNode.varSymbol)
\* (codegen.cpp:171).
AssertHolds == outcome # "assert_failed"
=============================================================================
