------------------------------ MODULE Grammar ------------------------------
(***************************************************************************)
(* The language of unzig, as the comments above the parse functions of     *)
(* src/src/parser.cpp and src/spec/grammar.y give it, and what the trees   *)
(* that the parser returns have to do with it.  The rules are data and     *)
(* Ends interprets them as a context-free grammar: a choice is not ordered *)
(* and a repetition may stop early, so nothing of the parser's strategy is *)
(* assumed.  AsParsed is not the whole of grammar.y: the parser has neither *)
(* its comparisons (:29) nor the comma it lets stand behind the last        *)
(* parameter or argument (:48, :51), and each of these has a property of    *)
(* its own at the end.                                                     *)
(***************************************************************************)
EXTENDS Parser, SequencesExt

Exp(tag, arg) == [tag |-> tag, arg |-> arg]
T(kind) == Exp("token", {kind})
OneOf(kinds) == Exp("token", kinds)
N(name) == Exp("rule", name)
Cat(parts) == Exp("cat", parts)
Choice(names) == Exp("choice", {N(name) : name \in names})
Star(part) == Exp("star", part)
Maybe(part) == Exp("choice", {part, Cat(<<>>)})

CompareOps == {"EqualEqual", "ExclamationMarkEqual", "LArrow", "RArrow",
               "LArrowEqual", "RArrowEqual"}

\* The rules that the parser follows, and those of grammar.y among the
\* extensions: "comparisons" and "trailing commas".
Rules(extensions) ==
  LET List(part) ==
        IF "trailing commas" \in extensions
          THEN Cat(<<Star(Cat(<<part, T("Comma")>>)), Maybe(part)>>)
          ELSE Maybe(Cat(<<part, Star(Cat(<<T("Comma"), part>>))>>))
      Chain(kind, part) == Cat(<<part, Star(Cat(<<T(kind), part>>))>>)
      Init_(part) == Maybe(Cat(<<T("Equal"), part>>))
      operand == N("BinaryExpr")
  IN [parse |-> Cat(<<N("TopLevelDecl"), Star(N("TopLevelDecl"))>>),
      TopLevelDecl |-> Choice({"FnDef", "VarDecl"}),
      FnDef |-> Cat(<<T("KwFn"), T("Identifier"), T("LParen"),
                      List(N("FnParam")), T("RParen"), T("Identifier"),
                      N("Block")>>),
      FnParam |-> Cat(<<T("Identifier"), T("Colon"), T("Identifier")>>),
      VarDecl |-> Cat(<<T("KwVar"), T("Identifier"), T("Colon"),
                        T("Identifier"), Init_(N("Expr")), T("Semicolon")>>),
      Block |-> Cat(<<T("LBrace"), Star(N("Statement")), T("RBrace")>>),
      Statement |-> Choice({"VarDecl", "IfSt", "AssignSt", "ReturnSt",
                            "Block"}),
      IfSt |-> Cat(<<T("KwIf"), T("LParen"), N("Expr"), T("RParen"),
                     N("Block"),
                     Maybe(Cat(<<T("KwElse"), N("Statement")>>))>>),
      AssignSt |-> Cat(<<T("Identifier"), T("Equal"), N("Expr"),
                         T("Semicolon")>>),
      ReturnSt |-> Cat(<<T("KwReturn"), Maybe(N("Expr")), T("Semicolon")>>),
      Expr |-> Chain("KwOr", N("AndExpr")),
      AndExpr |-> Chain("KwAnd", N("CompareExpr")),
      CompareExpr |->
        IF "comparisons" \in extensions
          THEN Cat(<<operand, Maybe(Cat(<<OneOf(CompareOps), operand>>))>>)
          ELSE operand,
      BinaryExpr |-> Cat(<<N("PrefixExpr"),
                           Star(Cat(<<OneOf(BinOps), N("PrefixExpr")>>))>>),
      PrefixExpr |-> Cat(<<Star(OneOf(PrefixOps)), N("PrimaryExpr")>>),
      PrimaryExpr |-> Choice({"GroupedExpr", "FnCallExpr", "Atom"}),
      GroupedExpr |-> Cat(<<T("LParen"), N("Expr"), T("RParen")>>),
      FnCallExpr |-> Cat(<<T("Identifier"), T("LParen"), List(N("Expr")),
                           T("RParen")>>),
      Atom |-> OneOf({"Identifier", "KwTrue", "KwFalse", "IntegerLiteral",
                      "FloatLiteral"})]

AsParsed == Rules({})

\* Where a text of the expression that begins at the token i can end.
RECURSIVE Ends(_, _, _)
Ends(rules, e, i) ==
  LET Then(part, from) == UNION {Ends(rules, part, k) : k \in from}
  IN  CASE e.tag = "token" -> IF token(i) \in e.arg THEN {i + 1} ELSE {}
        [] e.tag = "rule" -> Ends(rules, rules[e.arg], i)
        [] e.tag = "cat" -> FoldLeft(LAMBDA from, part : Then(part, from),
                                     {i}, e.arg)
        [] e.tag = "choice" -> UNION {Ends(rules, part, i) : part \in e.arg}
        [] e.tag = "star" -> {i} \cup Then(e, Ends(rules, e.arg, i))

\* The whole list, the Eof token excepted, is a text of the start symbol.
IsText(rules) == Size - 1 \in Ends(rules, N(Start), 0)

-----------------------------------------------------------------------------
(* Trees. *)

Join(lists, separator) ==
  IF lists = <<>> THEN <<>>
  ELSE FoldLeft(LAMBDA a, b : a \o separator \o b, Head(lists), Tail(lists))

\* The operators of a prefix expression stand before its operand.
prefixRun(at) ==
  LET end == CHOOSE k \in at .. Size - 1 :
               /\ token(k) \notin PrefixOps
               /\ \A m \in at .. k - 1 : token(m) \in PrefixOps
  IN  SubSeq(tokens, at + 1, end)

\* The tokens that print a tree.
RECURSIVE Spell(_)
Spell(n) ==
  LET kids == [k \in DOMAIN n.kids |-> Spell(n.kids[k])]
      last == kids[Len(kids)]
      body ==
        CASE n.kind \in {"BoolExpr", "NumberExpr", "VarExpr"} -> <<token(n.at)>>
          [] n.kind = "BinExpr" -> kids[1] \o <<token(n.at)>> \o kids[2]
          [] n.kind = "PrefixExpr" -> prefixRun(n.at) \o last
          [] n.kind = "OrExpr" -> Join(kids, <<"KwOr">>)
          [] n.kind = "AndExpr" -> Join(kids, <<"KwAnd">>)
          [] n.kind = "FnCallExpr" ->
               <<"Identifier", "LParen">> \o Join(kids, <<"Comma">>)
               \o <<"RParen">>
          [] n.kind = "FnParam" -> <<"Identifier", "Colon", "Identifier">>
          [] n.kind = "FnDef" ->
               <<"KwFn", "Identifier", "LParen">>
               \o Join(SubSeq(kids, 1, Len(kids) - 1), <<"Comma">>)
               \o <<"RParen", "Identifier">> \o last
          [] n.kind = "VarDecl" ->
               <<"KwVar", "Identifier", "Colon", "Identifier">>
               \o (IF kids = <<>> THEN <<>> ELSE <<"Equal">> \o last)
               \o <<"Semicolon">>
          [] n.kind = "AssignSt" ->
               <<"Identifier", "Equal">> \o last \o <<"Semicolon">>
          [] n.kind = "ReturnSt" ->
               <<"KwReturn">> \o Join(kids, <<>>) \o <<"Semicolon">>
          [] n.kind = "Block" -> <<"LBrace">> \o Join(kids, <<>>) \o <<"RBrace">>
          [] n.kind = "IfSt" ->
               <<"KwIf", "LParen">> \o kids[1] \o <<"RParen">> \o kids[2]
               \o (IF Len(kids) = 3 THEN <<"KwElse">> \o last ELSE <<>>)
          [] n.kind = "TopLevelDeclarations" -> Join(kids, <<>>)
      repeat(kind) == [k \in 1 .. n.parens |-> kind]
  IN  repeat("LParen") \o body \o repeat("RParen")

-----------------------------------------------------------------------------
(* Properties. *)

Returned == status = "returned" /\ ret # EmptyNode
Accepted == Returned /\ cursor = Size - 1

\* The parser accepts exactly the texts of the grammar without comparisons and
\* trailing commas: trying the alternatives in order, without ever looking
\* ahead more than one token, neither refuses a text nor lets another one pass.
AcceptsGrammar == status # "running" => (Accepted <=> IsText(AsParsed))

\* The tree stands for the tokens consumed: printed, it gives them back, none
\* lost, none twice, all in their order.
TreeSpellsTokens == Returned => Spell(ret) = SubSeq(tokens, 1, cursor)

\* CompareExpr <- BinaryExpr (CompareOp BinaryExpr)? (parser.cpp:289)
ComparisonsAreExpressions ==
  status # "running" => (IsText(Rules({"comparisons"})) => Accepted)

\* ExprList <- (Expr COMMA)* Expr? and FnParamList <- (FnParam COMMA)* FnParam?
\* (spec/grammar.y:48, :51): a comma may stand behind the last one.
TrailingCommasAreAllowed ==
  status # "running" => (IsText(Rules({"trailing commas"})) => Accepted)
=============================================================================
