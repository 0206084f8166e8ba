------------------------------- MODULE Parser -------------------------------
(***************************************************************************)
(* The recursive-descent parser of unzig: ParserCtxt (src/src/parser.hpp)  *)
(* and the parse functions (src/src/parser.cpp), whose steps ParserRules   *)
(* lists.  The call stack is explicit; an action is one step of the parse  *)
(* function at its top, or the return into it.                             *)
(*                                                                         *)
(* A token is its id: the parser looks at nothing else.  The cursor counts *)
(* from 0.  A node keeps its kind, the token whose position it carries and *)
(* its children; the pairs of parentheses around it, which the AST does    *)
(* not record, are counted for the properties only.                        *)
(***************************************************************************)
EXTENDS ParserRules

CONSTANTS
  Inputs,     \* the token lists considered
  Start       \* the parse function that is called

\* What tokenize() returns: one Eof, at the end.
ASSUME InputsAssumption ==
  /\ Inputs \subseteq Seq(TokenId)
  /\ \A t \in Inputs : /\ Len(t) > 0
                       /\ \A k \in 1 .. Len(t) : t[k] = "Eof" <=> k = Len(t)

\* parseBinOpRhsExpr() cannot be called without an operand.
ASSUME StartAssumption == Start \in Fn \ {"BinOpRhsExpr"}

VARIABLES
  tokens,     \* the token ids, chosen once
  exposed,    \* the last character of the source is a token of its own
  cursor,     \* the index of the token under the cursor
  stack,      \* the frames of the parse functions, innermost first
  ret,        \* what a function just returned: a node, Empty or nothing yet
  status      \* "running", "returned", "syntax_error", "assert_failed" or
              \* "uncaught"

vars == <<tokens, exposed, cursor, stack, ret, status>>

Size == Len(tokens)
token(k) == tokens[k + 1]

Node(kind, at, kids) ==
  [kind |-> kind, at |-> at, kids |-> kids, parens |-> 0]

EmptyNode == Node("Empty", 0, <<>>)
Nothing == Node("Nothing", 0, <<>>)

\* A call notes where it starts; `at' is the token skipped last, none so far.
Frame(fn, cur, kids) ==
  [fn |-> fn, pc |-> 1, mark |-> cur, at |-> cur - 1, kids |-> kids]

Init ==
  /\ tokens \in Inputs
  /\ exposed \in BOOLEAN
  /\ cursor = 0
  /\ stack = <<Frame(Start, 0, <<>>)>>
  /\ ret = Nothing
  /\ status = "running"

Top == Head(stack)
step == script[Top.fn][Top.pc]
SetTop(frame) == stack' = <<frame>> \o Tail(stack)
GoTo(pc) == SetTop([Top EXCEPT !.pc = pc])
Proceed == GoTo(Top.pc + 1)

\* The function at the top is at a step of this kind.
At(op) ==
  /\ status = "running"
  /\ stack # <<>>
  /\ ret = Nothing
  /\ step.op = op
  /\ UNCHANGED <<tokens, exposed>>

Leave(node) ==
  /\ stack' = Tail(stack)
  /\ ret' = node

-----------------------------------------------------------------------------
(* Failure. *)

\* SourceObject::getHightlightedPosition() throws std::out_of_range for the
\* Eof token, which lies behind the text, and for a token at the very last
\* character, which it cuts off the line it shows.  Nobody catches it.
Highlightable(k) ==
  /\ k # Size - 1
  /\ ~(exposed /\ k = Size - 2)

\* fatalSyntaxError(): move the cursor, show the line, exit.
Fatal(mark) ==
  /\ status' = IF mark >= Size THEN "assert_failed"
               ELSE IF Highlightable(mark) THEN "syntax_error" ELSE "uncaught"
  /\ cursor' = IF mark >= Size THEN cursor ELSE mark
  /\ ret' = Nothing
  /\ UNCHANGED stack

\* The token the step reports, when the code has moved the cursor to cur.
reported(cur) ==
  CASE step.fail = "mark" -> Top.mark
    [] step.fail = "prev" -> IF cur = 0 THEN 0 ELSE cur - 1
    [] step.fail = "comma" -> Top.at
    [] OTHER -> cur

Fail(cur) ==
  \/ /\ step.fail = "reset"
     /\ cursor' = Top.mark
     /\ Leave(EmptyNode)
     /\ UNCHANGED status
  \/ /\ step.fail = "goto"
     /\ GoTo(step.other)
     /\ ret' = Nothing
     /\ UNCHANGED <<cursor, status>>
  \/ /\ step.fail \in {"mark", "prev", "here", "comma"}
     /\ Fatal(reported(cur))

-----------------------------------------------------------------------------
(* Steps that look at a token. *)

TakeToken ==
  /\ At("take")
  /\ token(cursor) \in step.kinds
  /\ cursor' = cursor + 1
  /\ Proceed
  /\ UNCHANGED <<ret, status>>

\* getTokenAndAdvance() has moved on when the token turns out to be wrong.
RefuseToken ==
  /\ At("take")
  /\ token(cursor) \notin step.kinds
  /\ Fail(cursor + 1)

PeekToken ==
  /\ At("peek")
  /\ token(cursor) \in step.kinds
  /\ Proceed
  /\ UNCHANGED <<cursor, ret, status>>

PeekOther ==
  /\ At("peek")
  /\ token(cursor) \notin step.kinds
  /\ Fail(cursor)

SkipToken ==
  /\ At("when")
  /\ token(cursor) \in step.kinds
  /\ cursor' = cursor + 1
  /\ SetTop([Top EXCEPT !.pc = Top.pc + 1, !.at = cursor])
  /\ UNCHANGED <<ret, status>>

SkipNothing ==
  /\ At("when")
  /\ token(cursor) \notin step.kinds
  /\ Fail(cursor)

-----------------------------------------------------------------------------
(* Calls and returns. *)

Call ==
  /\ At("call") \/ At("alt")
  /\ stack' = <<Frame(step.fn, cursor, <<>>)>> \o stack
  /\ UNCHANGED <<cursor, ret, status>>

\* The node kept last moves from the caller to the callee.
HandOver ==
  /\ stack' = << Frame(step.fn, cursor, <<Top.kids[Len(Top.kids)]>>),
                 [Top EXCEPT !.kids = SubSeq(@, 1, Len(@) - 1)] >>
              \o Tail(stack)
  /\ UNCHANGED <<cursor, ret, status>>

CallWith == At("with") /\ HandOver

binOpPrec == [Plus |-> 10, Minus |-> 10, Asterisk |-> 20, Slash |-> 20]

\* Mutant: no operator binds tighter than another.
NextBindsTighterNever == FALSE

\* Mutant: an operator of the same level is taken for a tighter one.
NextBindsTighterOrEqual ==
  /\ token(cursor) \in BinOps
  /\ binOpPrec[token(cursor)] >= binOpPrec[token(Top.at)]

NextBindsTighter ==
  /\ token(cursor) \in BinOps
  /\ binOpPrec[token(cursor)] > binOpPrec[token(Top.at)]

ClimbUp == At("climb") /\ NextBindsTighter /\ HandOver

StayLevel ==
  /\ At("climb")
  /\ ~NextBindsTighter
  /\ Proceed
  /\ UNCHANGED <<cursor, ret, status>>

\* Mutant: the operands change places.
CombineOperandsSwapped ==
  /\ At("combine")
  /\ SetTop([Top EXCEPT !.pc = Top.pc + 1,
                        !.kids = <<Node("BinExpr", Top.at,
                                        <<Top.kids[2], Top.kids[1]>>)>>])
  /\ UNCHANGED <<cursor, ret, status>>

CombineOperands ==
  /\ At("combine")
  /\ SetTop([Top EXCEPT !.pc = Top.pc + 1,
                        !.kids = <<Node("BinExpr", Top.at, Top.kids)>>])
  /\ UNCHANGED <<cursor, ret, status>>

JumpTo ==
  /\ At("jump")
  /\ GoTo(step.other)
  /\ UNCHANGED <<cursor, ret, status>>

PassesOn == {"BinaryExpr", "BinOpRhsExpr", "Root", "parse"}

\* Mutant: a list of one operand keeps its node.
resultNotUnwrapped ==
  LET last == Top.kids[Len(Top.kids)]
  IN  CASE Top.fn = "GroupedExpr" -> [last EXCEPT !.parens = @ + 1]
        [] \/ Top.fn \in PassesOn
           \/ Top.fn = "PrefixExpr" /\ Top.at < Top.mark -> last
        [] OTHER -> Node(Top.fn, Top.mark, Top.kids)

\* A list of one, and a prefix expression without operators, is its operand.
result ==
  LET last == Top.kids[Len(Top.kids)]
  IN  CASE Top.fn = "GroupedExpr" -> [last EXCEPT !.parens = @ + 1]
        [] \/ Top.fn \in PassesOn
           \/ Top.fn \in {"OrExpr", "AndExpr"} /\ Len(Top.kids) = 1
           \/ Top.fn = "PrefixExpr" /\ Top.at < Top.mark -> last
        [] OTHER -> Node(Top.fn, Top.mark, Top.kids)

ReturnNode ==
  /\ At("return")
  /\ Leave(result)
  /\ UNCHANGED <<cursor, status>>

ReturnEmptyNode ==
  /\ At("empty")
  /\ Leave(EmptyNode)
  /\ UNCHANGED <<cursor, status>>

\* The caller goes on with what it was returned.
Resume ==
  /\ status = "running"
  /\ ret # Nothing
  /\ stack # <<>>
  /\ UNCHANGED <<tokens, exposed>>

ResumeWithNode ==
  /\ Resume
  /\ ret # EmptyNode
  /\ step.op # "alt"
  /\ SetTop([Top EXCEPT !.pc = Top.pc + 1, !.kids = Append(@, ret)])
  /\ ret' = Nothing
  /\ UNCHANGED <<cursor, status>>

ResumeAlternative ==
  /\ Resume
  /\ ret # EmptyNode
  /\ step.op = "alt"
  /\ Leave(ret)
  /\ UNCHANGED <<cursor, status>>

NextAlternative ==
  /\ Resume
  /\ ret = EmptyNode
  /\ step.op = "alt"
  /\ Proceed
  /\ ret' = Nothing
  /\ UNCHANGED <<cursor, status>>

ResumeWithEmpty ==
  /\ Resume
  /\ ret = EmptyNode
  /\ step.op = "call"
  /\ Fail(cursor)

Finish ==
  /\ status = "running"
  /\ stack = <<>>
  /\ status' = "returned"
  /\ UNCHANGED <<tokens, exposed, cursor, stack, ret>>

Next ==
  \/ TakeToken \/ RefuseToken \/ PeekToken \/ PeekOther
  \/ SkipToken \/ SkipNothing
  \/ Call \/ CallWith \/ ClimbUp \/ StayLevel \/ CombineOperands
  \/ JumpTo \/ ReturnNode \/ ReturnEmptyNode
  \/ ResumeWithNode \/ ResumeAlternative \/ NextAlternative \/ ResumeWithEmpty
  \/ Finish

Spec == Init /\ [][Next]_vars

\* The parser runs on one thread and is never suspended.
FairSpec == Spec /\ WF_vars(Next)
-----------------------------------------------------------------------------
(* Properties. *)

Kind == Fn \cup {"BinExpr", "Empty", "Nothing"}

IsNode(n) ==
  /\ n.kind \in Kind
  /\ n.at \in 0 .. Size - 1
  /\ n.parens \in Nat

IsFrame(f) ==
  /\ f.fn \in Fn
  /\ f.pc \in 1 .. Len(script[f.fn])
  /\ f.mark \in 0 .. Size - 1
  /\ f.at \in f.mark - 1 .. Size - 2
  /\ \A k \in DOMAIN f.kids : IsNode(f.kids[k])

\* The variables have values of their types.  The cursor stays on a token:
\* getToken() asserts that it does (parser.hpp:16).
TypeOK ==
  /\ tokens \in Seq(TokenId)
  /\ exposed \in BOOLEAN
  /\ cursor \in 0 .. Size - 1
  /\ \A k \in DOMAIN stack : IsFrame(stack[k])
  /\ IsNode(ret)
  /\ status \in {"running", "returned", "syntax_error", "assert_failed",
                 "uncaught"}

Expressions == {"BoolExpr", "NumberExpr", "VarExpr", "FnCallExpr", "BinExpr",
                "PrefixExpr", "OrExpr", "AndExpr"}
Statements == {"VarDecl", "IfSt", "AssignSt", "ReturnSt", "Block"}

\* The children k to l of a node are of these kinds.
AreOf(kids, k, l, kinds) == \A m \in k .. l : kids[m].kind \in kinds

\* The kinds and the number of the children that a node may have.
HasItsShape(n) ==
  LET count == Len(n.kids)
      All(kinds) == AreOf(n.kids, 1, count, kinds)
  IN  CASE n.kind \in {"BoolExpr", "NumberExpr", "VarExpr", "FnParam"} -> count = 0
        [] n.kind \in {"OrExpr", "AndExpr"} -> count > 1 /\ All(Expressions)
        [] n.kind = "BinExpr" -> count = 2 /\ All(Expressions)
        [] n.kind \in {"PrefixExpr", "AssignSt"} -> count = 1 /\ All(Expressions)
        [] n.kind \in {"VarDecl", "ReturnSt"} -> count <= 1 /\ All(Expressions)
        [] n.kind = "FnCallExpr" -> All(Expressions)
        [] n.kind = "Block" -> All(Statements)
        [] n.kind = "IfSt" ->
             /\ count \in {2, 3}
             /\ AreOf(n.kids, 1, 1, Expressions)
             /\ AreOf(n.kids, 2, 2, {"Block"})
             /\ AreOf(n.kids, 3, count, Statements)
        [] n.kind = "FnDef" ->
             /\ count > 0
             /\ AreOf(n.kids, 1, count - 1, {"FnParam"})
             /\ AreOf(n.kids, count, count, {"Block"})
        [] n.kind = "TopLevelDeclarations" ->
             count > 0 /\ All({"FnDef", "VarDecl"})
        [] OTHER -> FALSE

\* The children of every node are the ones the later phases take for granted:
\* a list of operands has two at least (codegen.cpp:294, 317), the parameters
\* of a function are parameters (codegen.cpp:215 reads them through an unchecked
\* cast), its body and the then branch are blocks, a declaration stands where a
\* scope is made for it, and no node that means failure is left in a tree.  It
\* is said of the nodes in hand: every node is in hand, returned by its function,
\* before it becomes part of another one, and is not changed then.
TreesAsLaterPhasesAssume ==
  /\ ret \notin {EmptyNode, Nothing} => HasItsShape(ret)
  /\ \A f \in DOMAIN stack : \A k \in DOMAIN stack[f].kids :
       HasItsShape(stack[f].kids[k])

nodesInHand ==
  {ret} \cup UNION {{stack[f].kids[k] : k \in DOMAIN stack[f].kids} : f \in DOMAIN stack}

prec(n) == binOpPrec[token(n.at)]

\* A binary expression that is printed without parentheses.
OpenBinary(n) == n.kind = "BinExpr" /\ n.parens = 0

\* What is printed first of n: its first operand, that operand's, and so on.
FirstPart(n) == IF OpenBinary(n) THEN n.kids[1] ELSE n

LeftEdge(n) ==
  LET edge[k \in Nat] == IF k = 0 THEN n ELSE FirstPart(edge[k - 1])
  IN  edge

\* The first operator that is printed of n is one of a level above p; there are
\* fewer than Size of them.
OpensTighter(n, p) ==
  \A k \in 0 .. Size :
    LET m == LeftEdge(n)[k]
    IN  OpenBinary(m) /\ ~OpenBinary(m.kids[1]) => prec(m) > p

\* A product or quotient is never split by a sum or difference: without
\* parentheses, an operand's operator binds at least as tight (parser.cpp:213-229).
ProductsBindTighter ==
  \A n \in nodesInHand : n.kind = "BinExpr" =>
    \A k \in 1 .. 2 : OpenBinary(n.kids[k]) => prec(n.kids[k]) >= prec(n)

\* Operators of one level group to the left (1 - 2 - 3 is (1 - 2) - 3), with
\* the one exception the loop of parseBinOpRhsExpr() makes: a right operand
\* that begins with a tighter operator takes the rest of the expression
\* (1 - 2 * 3 + 4 is 1 - ((2 * 3) + 4), parser.cpp:225-227).
RightOperandOpensTighter ==
  \A n \in nodesInHand :
    n.kind = "BinExpr" /\ OpenBinary(n.kids[2]) => OpensTighter(n.kids[2], prec(n))

\* What lets the callers of the parse functions try one alternative after the
\* other: a function that returns the empty node has put the cursor back to
\* where it was called, however deep it had read, and one that returns a node
\* has consumed a token, unless it only looks for further operators.
EmptyOrProgress ==
  [][Len(stack') < Len(stack) =>
       IF ret' = EmptyNode THEN cursor' = Top.mark
       ELSE \/ cursor' > Top.mark
            \/ Top.fn = "BinOpRhsExpr" /\ cursor' = Top.mark]_vars

\* A syntax error is reported at the token that was refused or at one before
\* it.  Only parseReturnSt() (parser.cpp:416) points one token further; when
\* that one does not exist, and only then, the assertion of resetCursor() ends
\* the run (parser.hpp:33).
ErrorsPointNoFurther ==
  [][status' \notin {status, "returned"} =>
       IF Top.fn = "ReturnSt" /\ Top.pc = 3
         THEN IF token(cursor) = "Eof" THEN status' = "assert_failed"
              ELSE status' # "assert_failed" /\ cursor' = cursor + 1
         ELSE status' # "assert_failed" /\ cursor' \in Top.mark - 1 .. cursor]_vars

\* resetCursor() asserts that the new cursor is on a token (parser.hpp:33).
AssertHolds == status # "assert_failed"

\* parse() returns or exits: no loop over operators, arguments, statements or
\* declarations goes on without consuming a token.
Termination == <>(status # "running")
=============================================================================
