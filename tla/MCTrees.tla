------------------------------ MODULE MCTrees ------------------------------
(***************************************************************************)
(* How the programs for TLC are written down: as nested nodes, which are   *)
(* then numbered.                                                          *)
(***************************************************************************)
EXTENDS Integers, SequencesExt

T(kind, name, typeName, kids) ==
  [kind |-> kind, name |-> name, typeName |-> typeName, ops |-> <<>>,
   value |-> 1, kids |-> kids]
Plain(kind, kids) == T(kind, "a", "i32", kids)

\* A nested tree, numbered from `first' on in the order of the text.
RECURSIVE Flat(_, _)
Flat(t, first) ==
  LET add(done, kid) ==
        [nodes |-> done.nodes \o Flat(kid, first + 1 + Len(done.nodes)),
         ids |-> Append(done.ids, first + 1 + Len(done.nodes))]
      below == FoldLeft(add, [nodes |-> <<>>, ids |-> <<>>], t.kids)
  IN  <<[t EXCEPT !.kids = below.ids]>> \o below.nodes

Empty == Plain("Empty", <<>>)
Number == Plain("IntegerExpr", <<>>)
Var(name) == T("VarExpr", name, "i32", <<>>)
Call(name, args) == T("FnCallExpr", name, "i32", args)
Decl(name, type, init) == T("VarDecl", name, type, <<init>>)
Assign(name, expr) == T("AssignSt", name, "i32", <<expr>>)
Return(expr) == Plain("ReturnSt", <<expr>>)
Block(statements) == Plain("Block", statements)
If(cond, then, else) == Plain("IfSt", <<cond, then, else>>)
Fn(name, type, params, statements) ==
  T("FnDef", name, type, Append(params, Block(statements)))
Param(name, type) == T("FnParam", name, type, <<>>)

RootOf(declarations) == Flat(Plain("Root", declarations), 1)
=============================================================================
