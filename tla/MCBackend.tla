----------------------------- MODULE MCBackend -----------------------------
(***************************************************************************)
(* Programs for model-checking Backend.                                    *)
(***************************************************************************)
EXTENDS Backend, Compiling, MCTrees

Programs == {"main", "f", "a", "b"}

Literal(v) == [Number EXCEPT !.value = v]
Bool == [Plain("BoolExpr", <<>>) EXCEPT !.value = 0]
Float == Plain("FloatExpr", <<>>)
Bin(op, l, r) == [Plain("BinExpr", <<l, r>>) EXCEPT !.ops = <<op>>]
And(l, r) == Plain("AndExpr", <<l, r>>)
Or(l, r) == Plain("OrExpr", <<l, r>>)
Prefix(ops, e) == [Plain("PrefixExpr", <<e>>) EXCEPT !.ops = ops]
I32(name, init) == Decl(name, "i32", init)
Main(statements) == Fn("main", "i32", <<>>, statements)

-----------------------------------------------------------------------------
(* Expressions, of a parameter and of constants. *)

Atoms == {Var("a"), Literal(1), Literal(2)}
OperatorLists == {<<"NOT">>, <<"MINUS">>, <<"NOT", "MINUS">>, <<"MINUS", "NOT">>}
Deeper(exprs) ==
  {Prefix(ops, e) : ops \in OperatorLists, e \in exprs}
  \cup {Bin(op, l, r) : op \in {"ADD", "SUB"}, l \in exprs, r \in exprs}
  \cup {And(l, r) : l \in exprs, r \in exprs}
  \cup {Or(l, r) : l \in exprs, r \in exprs}

Others ==
  {Bool, Float, Bin("MUL", Var("a"), Literal(3)), Bin("DIV", Literal(2), Var("a")),
   Bin("ADD", Float, Float), Bin("ADD", Literal(1), Float), Prefix(<<"MINUS">>, Float),
   And(Prefix(<<"NOT">>, Var("a")), Literal(1)), And(Float, Literal(1)),
   And(Prefix(<<"NOT">>, Var("a")), Prefix(<<"NOT">>, Literal(0))),
   Plain("OrExpr", <<Literal(0), Bool, And(Var("a"), Literal(1))>>),
   Prefix(<<"NOT">>, Float), Prefix(<<"NOT", "NOT">>, Var("a"))}

\* Operators on operands of one bit, and beside them of a whole number.
Nots == {<<"NOT">>, <<"MINUS">>, <<"NOT", "MINUS">>, <<"MINUS", "NOT">>,
         <<"NOT", "NOT">>}
UnderPrefixes == {Prefix(ops, Var("a")) : ops \in Nots} \cup {Prefix(<<"NOT">>, Literal(0))}
OfTruths == {Bin(op, l, r) : op \in {"ADD", "SUB", "MUL"}, l \in UnderPrefixes, r \in UnderPrefixes}

Expressions == Atoms \cup Deeper(Atoms) \cup Others \cup OfTruths
               \cup {Prefix(ops, e) : ops \in OperatorLists, e \in Deeper({Var("a")})}

Uses(e) ==
  {<<Return(e)>>,
   <<If(e, Block(<<Return(Literal(2))>>), Empty), Return(Literal(1))>>,
   <<I32("b", Literal(2)), If(e, Block(<<Assign("b", Literal(1))>>),
                                 Block(<<Assign("b", Literal(3))>>)),
     Return(Var("b"))>>,
   <<I32("b", e), Return(Var("b"))>>}

ExpressionPrograms ==
  {RootOf(<<Fn("f", "i32", <<Param("a", "i32")>>, body),
            Main(<<Return(Call("f", <<Literal(v)>>))>>)>>) :
     body \in UNION {Uses(e) : e \in Expressions}, v \in 0 .. 2}

-----------------------------------------------------------------------------
(* Statements of main. *)

Singles ==
  {I32("a", Literal(1)), I32("a", Empty), I32("b", Var("a")), I32("a", Var("a")),
   Decl("b", "f32", Float), Assign("a", Bin("ADD", Var("a"), Literal(1))),
   Assign("b", Var("a")), Return(Var("a")), Return(Literal(1)), Return(Var("b")),
   Return(Call("main", <<>>)), Return(Empty), Return(Float)}

InBranches ==
  {Assign("a", Literal(2)), I32("b", Literal(1)), Return(Var("a")),
   If(Var("a"), Block(<<Assign("a", Literal(3))>>), Empty)}

\* Several statements in a branch: more behind a return, or a branch before it.
Sequences ==
  {<<If(Var("a"), Block(inner), Empty), s>> :
     inner \in {<<>>, <<Return(Literal(2))>>},
     s \in {Return(Literal(1)), Assign("a", Literal(2))}}
  \cup {<<Return(Literal(1)), s>> :
          s \in {Assign("a", Literal(2)), Return(Literal(2)),
                If(Var("a"), Block(<<>>), Empty)}}
  \cup {<<I32("b", Var("a")), Assign("a", Var("b"))>>}

LongBranches ==
  {If(Var("a"), Block(seq), else) :
     seq \in Sequences, else \in {Empty, Block(<<>>), Block(<<Return(Literal(3))>>)}}
  \cup {If(Var("a"), Block(<<>>), Block(seq)) : seq \in Sequences}
  \cup {If(Literal(0), Block(seq), Empty) : seq \in Sequences}
  \cup {Block(seq) : seq \in Sequences}

Branches ==
  {If(Var("a"), Block(<<s>>), else) :
     s \in InBranches,
     else \in {Empty, Block(<<>>), Block(<<Assign("a", Literal(3))>>),
               Block(<<I32("b", Literal(2))>>),
               If(Var("a"), Block(<<Assign("a", Literal(0))>>), Empty)}}
  \cup {Block(<<s>>) : s \in InBranches}
  \cup {If(Literal(0), Block(<<s>>), Empty) : s \in InBranches}

StatementPrograms ==
  {RootOf(<<Main(body)>>) :
     body \in {<<>>}
       \cup {<<s>> : s \in Singles \cup Branches}
       \cup {<<s, t>> : s \in Singles, t \in Singles \cup Branches}
       \cup {<<I32("a", Literal(1)), s, t>> :
               s \in Singles \cup Branches, t \in Singles}
       \cup {<<I32("a", Literal(1)), s, t, Return(Var("a"))>> :
               s \in Branches, t \in Singles \cup Branches}
       \cup {<<I32("a", Literal(v)), s, Return(Literal(2))>> :
               s \in LongBranches, v \in 0 .. 1}
       \cup {<<I32("a", Literal(1)), s, t, Return(Literal(2))>> :
               s \in LongBranches, t \in InBranches}}

-----------------------------------------------------------------------------
(* Functions and variables of the module. *)

TopLevel ==
  {I32("a", Literal(1)), I32("a", Empty), I32("b", Call("f", <<>>)),
   I32("b", Var("b")),
   Fn("f", "i32", <<>>, <<Return(Literal(2))>>),
   Fn("f", "i32", <<>>, <<>>),
   Fn("f", "i32", <<Param("b", "bool")>>, <<Return(Var("b"))>>),
   Fn("f", "f32", <<Param("a", "f32")>>, <<Return(Var("a"))>>)}

Callers ==
  {Main(<<Return(Call("f", args))>>) :
     args \in {<<>>, <<Literal(1)>>, <<Float>>, <<Var("a")>>, <<Var("b")>>,
               <<Call("f", <<Literal(2)>>)>>, <<Call("f", <<>>)>>,
               <<Call("b", <<>>)>>, <<Prefix(<<"NOT">>, Literal(1))>>}}
  \cup {Main(<<I32("b", Literal(1)), Return(Call("f", <<Var("b")>>))>>),
        Main(<<Return(Literal(1))>>),
        Fn("b", "i32", <<>>, <<Return(Literal(1))>>),
        Fn("main", "i32", <<Param("a", "i32")>>,
           <<If(Var("a"), Block(<<Return(Call("f", <<>>))>>), Empty),
             Return(Literal(3))>>)}

ModulePrograms ==
  {RootOf(declarations) :
     declarations \in
       {<<>>} \cup (TopLevel \X Callers) \cup (TopLevel \X TopLevel \X Callers)
       \cup (Callers \X TopLevel) \cup {<<c>> : c \in Callers}}

AllPrograms == ExpressionPrograms \cup StatementPrograms \cup ModulePrograms
=============================================================================
