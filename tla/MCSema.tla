------------------------------- MODULE MCSema -------------------------------
(***************************************************************************)
(* Trees for model-checking Sema.                                          *)
(***************************************************************************)
EXTENDS Scoping, MCTrees

MCNames == {"a", "b", "c"}

Exprs == {Number, Var("a"), Call("b", <<>>), Call("b", <<Var("c")>>),
          Plain("BinExpr", <<Var("a"), Number>>)}

Simple == {Decl("a", "i32", Empty), Decl("c", "f32", Var("c")),
           Decl("a", "i33", Number), Assign("a", Number),
           Assign("c", Call("a", <<>>))}
          \cup {Return(expr) : expr \in Exprs}

Nested == {Block(<<s>>) : s \in Simple}
          \cup {If(Number, Block(<<s>>), Empty) : s \in Simple}
          \cup {If(Var("a"), Block(<<Decl("c", "i32", Number)>>),
                     Block(<<s>>)) : s \in Simple}

Bodies == UNION {[1 .. k -> Simple \cup Nested] : k \in 0 .. 2}
          \cup {<<s, t, Return(expr)>> :
                  s \in Nested, t \in {Decl("a", "i32", Empty),
                                      Decl("c", "i32", Number)},
                  expr \in Exprs}

Params == {<<>>, <<Param("a", "i32")>>, <<Param("c", "i32"), Param("c", "i32")>>,
           <<Param("b", "bool")>>}

Preludes == {<<>>, <<Decl("a", "i32", Number)>>,
             <<Fn("a", "f32", <<Param("c", "f32")>>, <<Return(Var("c"))>>)>>}

SmallTrees ==
  {RootOf(Append(prelude, Fn("b", "i32", params, body))) :
     prelude \in Preludes, params \in Params, body \in Bodies}

\* What the theorems about Scoping take for granted.
ASSUME ParametersFit
=============================================================================
