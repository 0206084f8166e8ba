----------------------------- MODULE ParserRules -----------------------------
(***************************************************************************)
(* The parse functions of src/src/parser.cpp as programs for the machine   *)
(* of the module Parser.  A function parseX becomes the sequence of its    *)
(* steps, each of which looks at one token or calls one parse function and *)
(* says what happens when that fails:                                      *)
(*                                                                         *)
(*   reset   back to where the function started, return the empty node     *)
(*   mark    syntax error at the token where the function started          *)
(*   prev    syntax error at the token read last                           *)
(*   here    syntax error at the token under the cursor                    *)
(*   comma   syntax error at the token skipped last                        *)
(*   goto    no error, go on at the step `other'                           *)
(***************************************************************************)
EXTENDS Tokens

Step(op, kinds, fn, fail, other) ==
  [op |-> op, kinds |-> kinds, fn |-> fn, fail |-> fail, other |-> other]

\* getTokenAndAdvance(), which must be one of the kinds.
Take(kinds, fail) == Step("take", kinds, "none", fail, 0)

\* getToken() must be one of the kinds, it is not consumed.
Peek(kinds, fail) == Step("peek", kinds, "none", fail, 0)

\* A token of the kinds is skipped, or the function goes on elsewhere.
When(kinds, other) == Step("when", kinds, "none", "goto", other)

\* The node that fn returns is kept; the empty node is a failure.
Sub(fn, fail) == Step("call", {}, fn, fail, 0)
Opt(fn, other) == Step("call", {}, fn, "goto", other)

\* The node that fn returns is returned; the empty node leads to the next step.
Alt(fn) == Step("alt", {}, fn, "none", 0)

\* fn is called with the node kept last as its argument.
With(fn) == Step("with", {}, fn, "none", 0)

\* The same, if the next operator binds tighter than the one skipped last.
Climb(fn) == Step("climb", {}, fn, "none", 0)

\* The two nodes kept become the operands of the operator skipped last.
Combine == Step("combine", {}, "none", "none", 0)

Jump(other) == Step("jump", {}, "none", "none", other)
Return == Step("return", {}, "none", "none", 0)
ReturnEmpty == Step("empty", {}, "none", "none", 0)

BinOps == {"Asterisk", "Slash", "Plus", "Minus"}
PrefixOps == {"ExclamationMark", "Minus"}

-----------------------------------------------------------------------------
(* Expressions. *)

parseBoolExpr == <<Take({"KwTrue", "KwFalse"}, "reset"), Return>>

parseNumberExpr == <<Take({"IntegerLiteral", "FloatLiteral"}, "reset"), Return>>

parseGroupedExpr ==
  <<Take({"LParen"}, "reset"), Sub("Expr", "mark"), Take({"RParen"}, "prev"),
    Return>>

parseVarExpr == <<Take({"Identifier"}, "reset"), Return>>

parseFnCallExpr ==
  <<Take({"Identifier"}, "reset"), Take({"LParen"}, "reset"),
    Opt("Expr", 7), When({"Comma"}, 7), Sub("Expr", "comma"), Jump(4),
    Take({"RParen"}, "prev"), Return>>

\* Mutant: a name is a variable before it can be the name of a function.
parsePrimaryExprVarFirst ==
  <<Alt("GroupedExpr"), Alt("VarExpr"), Alt("FnCallExpr"), Alt("BoolExpr"),
    Alt("NumberExpr"), ReturnEmpty>>

parsePrimaryExpr ==
  <<Alt("GroupedExpr"), Alt("FnCallExpr"), Alt("VarExpr"), Alt("BoolExpr"),
    Alt("NumberExpr"), ReturnEmpty>>

parseBinOpRhsExpr ==
  <<When(BinOps, 6), Sub("PrefixExpr", "here"), Climb("BinOpRhsExpr"),
    Combine, Jump(1), Return>>

parseOrExpr ==
  <<Sub("AndExpr", "reset"), When({"KwOr"}, 5), Sub("AndExpr", "reset"),
    Jump(2), Return>>

parseAndExpr ==
  <<Sub("CompareExpr", "reset"), When({"KwAnd"}, 5),
    Sub("CompareExpr", "reset"), Jump(2), Return>>

parseCompareExpr == <<Alt("BinaryExpr"), ReturnEmpty>>

parseBinaryExpr ==
  <<Opt("PrefixExpr", 4), With("BinOpRhsExpr"), Return, ReturnEmpty>>

parsePrefixExpr ==
  <<When(PrefixOps, 3), Jump(1), Sub("PrimaryExpr", "reset"), Return>>

parseExpr == <<Alt("OrExpr"), ReturnEmpty>>

-----------------------------------------------------------------------------
(* Statements and declarations. *)

parseVarDecl ==
  <<Take({"KwVar"}, "reset"), Take({"Identifier"}, "prev"),
    Take({"Colon"}, "prev"), Take({"Identifier"}, "prev"),
    When({"Equal"}, 7), Sub("Expr", "here"), Take({"Semicolon"}, "prev"),
    Return>>

parseIfSt ==
  <<Take({"KwIf"}, "reset"), Take({"LParen"}, "mark"), Sub("Expr", "mark"),
    Take({"RParen"}, "mark"), Sub("Block", "mark"), When({"KwElse"}, 8),
    Sub("Statement", "mark"), Return>>

parseReturnSt ==
  <<Take({"KwReturn"}, "reset"), Opt("Expr", 3), Take({"Semicolon"}, "here"),
    Return>>

parseAssignSt ==
  <<Take({"Identifier"}, "reset"), Take({"Equal"}, "prev"),
    Sub("Expr", "here"), Take({"Semicolon"}, "prev"), Return>>

parseStatement ==
  <<Alt("VarDecl"), Alt("IfSt"), Alt("AssignSt"), Alt("ReturnSt"),
    Alt("Block"), ReturnEmpty>>

\* Mutant: the loop over the statements never ends.
parseBlockForever ==
  <<Take({"LBrace"}, "reset"), Opt("Statement", 2), Jump(2),
    Take({"RBrace"}, "prev"), Return>>

\* Mutant: the error is reported at the token after the offending one.
parseBlockHere ==
  <<Take({"LBrace"}, "reset"), Opt("Statement", 4), Jump(2),
    Take({"RBrace"}, "here"), Return>>

parseBlock ==
  <<Take({"LBrace"}, "reset"), Opt("Statement", 4), Jump(2),
    Take({"RBrace"}, "prev"), Return>>

\* Mutant: the name stays consumed when no colon follows it.
parseFnParamUnreset ==
  <<Take({"Identifier"}, "reset"), When({"Colon"}, 5),
    Take({"Identifier"}, "reset"), Return, ReturnEmpty>>

parseFnParam ==
  <<Take({"Identifier"}, "reset"), Take({"Colon"}, "reset"),
    Take({"Identifier"}, "reset"), Return>>

parseFnDef ==
  <<Take({"KwFn"}, "reset"), Take({"Identifier"}, "prev"),
    Take({"LParen"}, "prev"), Opt("FnParam", 8), When({"Comma"}, 8),
    Sub("FnParam", "comma"), Jump(5), Take({"RParen"}, "prev"),
    Take({"Identifier"}, "prev"), Sub("Block", "here"), Return>>

parseTopLevelDecl == <<Alt("FnDef"), Alt("VarDecl"), ReturnEmpty>>

parseTopLevelDeclarations ==
  <<Sub("TopLevelDecl", "here"), Opt("TopLevelDecl", 4), Jump(2), Return>>

\* Mutant: the Eof token is consumed, not only looked at.
parseRootPastEof ==
  <<Sub("TopLevelDeclarations", "here"), Take({"Eof"}, "prev"), Return>>

parseRoot ==
  <<Sub("TopLevelDeclarations", "here"), Peek({"Eof"}, "here"), Return>>

parse == <<Sub("Root", "here"), Return>>

script ==
  [BoolExpr |-> parseBoolExpr, NumberExpr |-> parseNumberExpr,
   GroupedExpr |-> parseGroupedExpr, VarExpr |-> parseVarExpr,
   FnCallExpr |-> parseFnCallExpr, PrimaryExpr |-> parsePrimaryExpr,
   BinOpRhsExpr |-> parseBinOpRhsExpr, OrExpr |-> parseOrExpr,
   AndExpr |-> parseAndExpr, CompareExpr |-> parseCompareExpr,
   BinaryExpr |-> parseBinaryExpr, PrefixExpr |-> parsePrefixExpr,
   Expr |-> parseExpr, VarDecl |-> parseVarDecl, IfSt |-> parseIfSt,
   ReturnSt |-> parseReturnSt, AssignSt |-> parseAssignSt,
   Statement |-> parseStatement, Block |-> parseBlock,
   FnParam |-> parseFnParam, FnDef |-> parseFnDef,
   TopLevelDecl |-> parseTopLevelDecl,
   TopLevelDeclarations |-> parseTopLevelDeclarations, Root |-> parseRoot,
   parse |-> parse]

Fn == DOMAIN script
=============================================================================
