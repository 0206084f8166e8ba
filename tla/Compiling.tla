----------------------------- MODULE Compiling -----------------------------
(***************************************************************************)
(* What a program means and when it must compile, stated for the tree      *)
(* alone, and what the compiler has to do with it.  Nothing here knows of  *)
(* blocks, instructions or the order of the generation.                    *)
(***************************************************************************)
EXTENDS Clang, Failures, SequencesExt

FunctionOf(m) == Max(Around(m, {"FnDef"}))
Body(f) == Last(tree[f].kids)

-----------------------------------------------------------------------------
(* What makes a program one that does not compile. *)

MisusesName ==
  \/ Wrong # {}
  \/ \E m \in Arguments : tree[m].kind = "VarExpr" \/ ~Correct(m)

\* The statements of a function that do something, outside of branches.
Effects(f) ==
  {m \in Subtree(f) : /\ tree[m].kind \in {"VarDecl", "AssignSt", "ReturnSt", "IfSt"}
                      /\ Around(m, {"IfSt"}) = {}}

\* A branch that returns needs a return behind it nevertheless.
EndsWithoutReturn ==
  \E f \in Of({"FnDef"}) :
    Effects(f) = {} \/ tree[Max(Effects(f))].kind # "ReturnSt"

ReturnsOtherType ==
  \E m \in Of({"ReturnSt"}) :
    TypeOf[tree[m].kids[1]] # TypeOfDeclaration(FunctionOf(m))

Faulty ==
  \/ MisusesName \/ InitialisesWithItself \/ HasGlobalVariable \/ LacksValue
  \/ EndsWithoutReturn \/ MixesTypes \/ ReturnsOtherType \/ mains = {}

\* What is no fault, and yet hardly compiles.
ReturnsInBranch == \E m \in Of({"ReturnSt"}) : Around(m, {"IfSt"}) # {}

HasDeadCode ==
  \E f \in Of({"FnDef"}) : \E m \in Effects(f) :
    tree[m].kind = "ReturnSt" /\ m # Max(Effects(f))

Recurses ==
  \E m \in Of({"FnCallExpr"}) : tree[m].name = tree[FunctionOf(m)].name

-----------------------------------------------------------------------------
(* The meaning of a program.  A value is Unknown where this one does not say: *)
(* a quotient, a floating point number, an `and' or `or' of numbers that are  *)
(* no truth values, a variable given a value of another type.  A value has    *)
(* the width of its type, and a `not' is of one bit: so is the sum of two.    *)

Arithmetic(op, x, y, bits) ==
  CASE x < 0 \/ y < 0 -> Unknown
    [] op = "ADD" -> (x + y) % PowerOf2[bits]
    [] op = "SUB" -> (x - y) % PowerOf2[bits]
    [] op = "MUL" -> (x * y) % PowerOf2[bits]
    [] op = "DIV" -> Unknown

Connective(kind, truths) ==
  IF ~(truths \subseteq {0, 1}) THEN Unknown
  ELSE IF kind = "AndExpr" THEN Min(truths) ELSE Max(truths)

\* An operator applies to all that follows it.
Prefixed(op, x) ==
  CASE x.v < 0 -> x
    [] op = "NOT" -> [v |-> IF x.v = 0 THEN 1 ELSE 0, bits |-> 1]
    [] op = "MINUS" -> [x EXCEPT !.v = (0 - @) % PowerOf2[x.bits]]

Unset == -3

RECURSIVE Meaning(_, _), Effect(_, _), Result(_, _)

\* Of an expression, with the values of the variables.
Meaning(m, env) ==
  LET of == [k \in DOMAIN tree[m].kids |-> Meaning(tree[m].kids[k], env)]
      kind == tree[m].kind
      bits == Bits(TypeOf[tree[m].kids[1]])
  IN  CASE kind \in {"IntegerExpr", "BoolExpr"} -> tree[m].value
        [] kind = "FloatExpr" -> Unknown
        [] kind = "VarExpr" -> env[Declared(m)]
        [] kind = "BinExpr" -> Arithmetic(tree[m].ops[1], of[1], of[2], bits)
        [] kind \in {"OrExpr", "AndExpr"} -> Connective(kind, Range(of))
        [] kind = "PrefixExpr" -> FoldRight(Prefixed, tree[m].ops, [v |-> of[1], bits |-> bits]).v
        [] kind = "FnCallExpr" -> Result(Declared(m), of)

\* Of a statement: the values of the variables after it, and what it returns.
Effect(m, before) ==
  LET operand == tree[m].kids[1]
      value == Meaning(operand, before.env)
      d == IF tree[m].kind = "VarDecl" THEN m ELSE Declared(m)
  IN  CASE before.returns # Unset -> before
        [] tree[m].kind = "Empty" -> before
        [] tree[m].kind = "Block" ->
             FoldLeft(LAMBDA done, statement : Effect(statement, done), before, tree[m].kids)
        [] tree[m].kind = "ReturnSt" -> [before EXCEPT !.returns = value]
        [] tree[m].kind = "IfSt" ->
             IF value < 0 THEN [before EXCEPT !.returns = Unknown]
             ELSE Effect(tree[m].kids[IF value # 0 THEN 2 ELSE 3], before)
        [] tree[m].kind \in {"VarDecl", "AssignSt"} ->
             [before EXCEPT !.env[d] = IF TypeOf[operand] = TypeOfDeclaration(d)
                                         THEN value ELSE Unknown]

Result(f, args) ==
  LET params == Params(f)
      env == [m \in DOMAIN tree |->
                IF \E k \in DOMAIN params : params[k] = m
                  THEN args[CHOOSE k \in DOMAIN params : params[k] = m]
                  ELSE Unset]
  IN  Effect(Body(f), [env |-> env, returns |-> Unset]).returns

-----------------------------------------------------------------------------
(* Properties. *)

zeros(f) == [k \in DOMAIN Params(f) |-> 0]

\* An executable returns what the program means: operands, negations, truths,
\* branches and calls survive the way through the analysis and the generation,
\* the case that falls through (codegen.cpp:348) does no harm, and neither does
\* what stands behind a return, where clang takes it.
MeansWhatItSays ==
  Compiled /\ ~Recurses =>
    LET main == CHOOSE f \in mains : TRUE
        meaning == Result(main, zeros(main))
    IN  meaning = Unknown
          \/ meaning = RunFunction(Min(named("main")), zeros(main))


\* A program without a fault that returns once, as the last thing its functions
\* do, becomes an executable: every block ends as it must, the insertion point
\* comes back from every branch, however nested (codegen.cpp:264-291), and every
\* variable has its allocation.
FaultlessCompiles ==
  Ended /\ ~Faulty /\ ~ReturnsInBranch /\ ~HasDeadCode => Compiled

mayBeUnset(d, before) ==
  LET storing == {b \in DOMAIN blocks :
                    \E i \in DOMAIN blocks[b].code :
                      blocks[b].code[i].op = "store" /\ blocks[b].code[i].refs = <<d>>}
  IN  before \cup UNION {Range(Last(blocks[b].code).refs) :
                           b \in {b \in before \ storing :
                                    Last(blocks[b].code).op \in {"br", "condbr"}}}

RECURSIVE UnsetIn(_, _)
UnsetIn(d, before) ==
  IF mayBeUnset(d, before) = before THEN before
  ELSE UnsetIn(d, mayBeUnset(d, before))

\* On every path to a load, taken or not, the variable is stored to before: the
\* scopes of the analysis and the order of the generation together rule out the
\* use of a variable whose declaration was passed by.
LoadsAreInitialised ==
  Compiled =>
    \A b \in DOMAIN blocks : \A i \in DOMAIN blocks[b].code :
      LET load == blocks[b].code[i]
      IN  load.op = "load" =>
            \/ b \notin UnsetIn(load.refs[1], {Min(BlocksOf(blocks[b].fn))})
            \/ \E j \in 1 .. i - 1 : /\ blocks[b].code[j].op = "store"
                                     /\ blocks[b].code[j].refs = load.refs
=============================================================================
