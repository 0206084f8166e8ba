------------------------------ MODULE Codegen ------------------------------
(***************************************************************************)
(* The code generation of unzig: Codegen (src/src/codegen.cpp) on the tree *)
(* that the semantic analysis has annotated.                               *)
(*                                                                         *)
(* The recursion of codegen() through the tree is the list `todo' of what  *)
(* is left to do and the stack `values' of the results that are still to   *)
(* be used.  A generate() is the action that begins it, and one for each   *)
(* place where it goes on after a child has returned.                      *)
(***************************************************************************)
EXTENDS Sema

CONSTANT ValueBits  \* the width of an integer, 32 in the program

ASSUME ValueBitsAssumption == ValueBits \in Nat \ {0}

\* What codegen() relies on when it goes through the children of a node.
Proper == ExpressionKinds \ {"Empty"}
Chains == {"BinExpr", "OrExpr", "AndExpr"}

CanBeGenerated(nodes, m) ==
  LET kind == nodes[m].kind
      kids == nodes[m].kids
      Are(first, last, kinds) == \A k \in first .. last : nodes[kids[k]].kind \in kinds
      InBlock == {"VarDecl", "IfSt", "AssignSt", "ReturnSt", "Block"}
  IN  /\ kind = "Root" => Are(1, Len(kids), {"VarDecl", "FnDef"})
      /\ kind = "FnDef" => /\ Are(1, Len(kids) - 1, {"FnParam"})
                          /\ Are(Len(kids), Len(kids), {"Block"})
      /\ kind = "Block" => Are(1, Len(kids), InBlock)
      /\ kind = "IfSt" => /\ Are(1, 1, Proper) /\ Are(2, 2, {"Block"})
                         /\ Are(3, 3, InBlock \cup {"Empty"})
      /\ kind \in {"VarDecl", "ReturnSt"} => Len(kids) = 1 /\ Are(1, 1, ExpressionKinds)
      /\ kind \in {"AssignSt", "PrefixExpr"} => Len(kids) = 1
      /\ kind \in Chains => Len(kids) > 1
      /\ kind = "BinExpr" => nodes[m].ops[1] \in {"ADD", "SUB", "MUL", "DIV"}
      /\ kind \in Chains \cup {"AssignSt", "PrefixExpr", "FnCallExpr"} =>
           Are(1, Len(kids), Proper)
      /\ kind = "PrefixExpr" =>
           \A k \in DOMAIN nodes[m].ops : nodes[m].ops[k] \in {"NOT", "MINUS"}

ASSUME GenerationAssumption ==
  \A nodes \in Trees : \A m \in DOMAIN nodes : CanBeGenerated(nodes, m)

VARIABLES
  todo,        \* what is left to do, the next first
  values,      \* the results not used yet, the last on top
  functions,   \* of the module, in the order of their creation
  blocks,      \* of all functions, in the order of their creation
  insertBlock, \* the block instructions go to, 0 before the first function
  allocated,   \* SymbolObject::allocaInst: the function in whose entry block the
               \* variable declared at a node is allocated, 0 for a null pointer
  outcome      \* "running", "generated", "no_main", "codegen_error", "crashed",
               \* "assert_failed" or "undefined": a contract of LLVM was broken

generated == <<functions, blocks, insertBlock, allocated>>
codegenVars == <<todo, values, generated, outcome>>

-----------------------------------------------------------------------------
(* Values and instructions of LLVM. *)

toLLVMType(typeName) == IF typeName = "f32" THEN "f32" ELSE "i32"
IntegerTypes == {"i1", "i32"}
Bits(type) == IF type = "i1" THEN 1 ELSE ValueBits

\* A constant that is not followed: a floating point number, a quotient.
Unknown == -1

Constant(type, v) == [is |-> "constant", type |-> type, v |-> v]
Argument(type, k) == [is |-> "argument", type |-> type, k |-> k]
Register(type, at) == [is |-> "register", type |-> type, at |-> at]
Label(block) == [is |-> "label", type |-> "label", block |-> block]
Null == [is |-> "null", type |-> "null"]

\* refs: the variable stored or loaded, the function called, the blocks a
\* branch goes to.
Instruction(op, type, args, refs) ==
  [op |-> op, type |-> type, args |-> args, refs |-> refs]

\* What an operation does to integers of a width.
PowerOf2[k \in Nat] == IF k = 0 THEN 1 ELSE 2 * PowerOf2[k - 1]
bit(x, k) == (x \div PowerOf2[k]) % 2
BitSum(width, bits) ==
  LET sum[k \in 0 .. width] ==
        IF k = 0 THEN 0 ELSE sum[k - 1] + PowerOf2[k - 1] * bits[k - 1]
  IN  sum[width]

Compute(op, width, x, y) ==
  IF op = "DIV" \/ x < 0 \/ y < 0 THEN Unknown
  ELSE CASE op = "ADD" -> (x + y) % PowerOf2[width]
         [] op = "SUB" -> (x - y) % PowerOf2[width]
         [] op = "MUL" -> (x * y) % PowerOf2[width]
         [] op = "AND" ->
              BitSum(width, [k \in 0 .. width - 1 |-> bit(x, k) * bit(y, k)])
         [] op = "OR" ->
              BitSum(width, [k \in 0 .. width - 1 |-> Max({bit(x, k), bit(y, k)})])
         [] op = "EQ" -> IF x = y THEN 1 ELSE 0
         [] op = "NE" -> IF x = y THEN 0 ELSE 1

\* IRBuilder: the result of an instruction put behind the others.
Insert(instruction) ==
  [value |-> Register(instruction.type,
                      <<insertBlock, Len(blocks[insertBlock].code) + 1>>),
   code |-> <<instruction>>]

\* IRBuilder: an operation on constants is folded, any other is inserted.
Build(op, type, x, y) ==
  IF x.is = "constant" /\ y.is = "constant"
    THEN [value |-> Constant(type, Compute(op, Bits(x.type), x.v, y.v)),
          code |-> <<>>]
    ELSE Insert(Instruction(op, type, <<x, y>>, <<>>))

CodegenInit ==
  /\ Init
  /\ todo = <<[do |-> "generate", node |-> 1]>>
  /\ values = <<>>
  /\ functions = <<>>
  /\ blocks = <<>>
  /\ insertBlock = 0
  /\ allocated = [m \in DOMAIN tree |-> 0]
  /\ outcome = "running"

-----------------------------------------------------------------------------
job == Head(todo)
here == tree[job.node]
kid(k) == here.kids[k]
top == values[Len(values)]

Do(what) ==
  /\ status = "analysed"
  /\ outcome = "running"
  /\ todo # <<>>
  /\ job.do = what
  /\ UNCHANGED vars

Generate(kinds) == Do("generate") /\ here.kind \in kinds

\* The work on the node at hand goes on with these steps.
Then(jobs) == todo' = jobs \o Tail(todo) /\ UNCHANGED outcome
codegen(m) == [do |-> "generate", node |-> m]
Step(what) == [do |-> what, node |-> job.node]
codegenEach(nodes) == [k \in DOMAIN nodes |-> codegen(nodes[k])]

\* A step uses up the topmost values and leaves a result.
Use(count, result) ==
  values' = Append(SubSeq(values, 1, Len(values) - count), result)

Emit(code) ==
  blocks' = IF code = <<>> THEN blocks
            ELSE [blocks EXCEPT ![insertBlock].code = @ \o code]

\* The step ends here, with no more than this result and its instructions.
Yield(count, built) ==
  /\ Use(count, built.value)
  /\ Emit(built.code)
  /\ Then(<<>>)
  /\ UNCHANGED <<functions, insertBlock, allocated>>

Stop(how) ==
  /\ outcome' = how
  /\ UNCHANGED <<todo, values, generated>>

\* The checks of a null pointer that a child may have returned.  Only the absent
\* part before the first function is one: an expression never is.
fatalCodegenError ==
  /\ \E what \in {"VarDecl", "statement", "AssignSt", "IfSt", "else", "merge"} :
       Do(what)
  /\ top = Null
  /\ Stop("codegen_error")

-----------------------------------------------------------------------------
(* Expressions. *)

GenerateLiteral ==
  /\ Generate({"FloatExpr", "IntegerExpr", "BoolExpr"})
  /\ Yield(0, [code |-> <<>>, value |->
        IF here.kind = "FloatExpr" THEN Constant("f32", Unknown)
        ELSE Constant("i32", here.value % PowerOf2[ValueBits])])

GetInsertBlock ==
  [code |-> <<>>,
   value |-> IF insertBlock = 0 THEN Null ELSE Label(insertBlock)]

GenerateEmpty == Generate({"Empty"}) /\ Yield(0, GetInsertBlock)

symbolThere == symbolOf[job.node]

GenerateVarExpr ==
  /\ Generate({"VarExpr"})
  /\ symbolThere # NoSymbol
  /\ allocated[symbolThere.declaredAt] # 0
  /\ LET type == toLLVMType(tree[symbolThere.declaredAt].typeName)
     IN  Yield(0, Insert(Instruction("load", type, <<>>,
                                     <<symbolThere.declaredAt>>)))

\* assert(astNode.varSymbol)
AssertSymbol ==
  /\ Generate({"VarExpr"})
  /\ symbolThere = NoSymbol
  /\ Stop("assert_failed")

RefuseUnallocated ==
  /\ Generate({"VarExpr", "AssignSt"})
  /\ symbolThere # NoSymbol
  /\ allocated[symbolThere.declaredAt] = 0
  /\ Stop("codegen_error")

\* The first operand, then each other one and its combination with the result
\* so far.
GenerateChain ==
  /\ Generate(Chains)
  /\ Then(<<codegen(kid(1))>>
            \o [k \in 1 .. 2 * (Len(here.kids) - 1) |->
                  IF k % 2 = 1 THEN codegen(kid((k + 3) \div 2))
                  ELSE Step("combine")])
  /\ UNCHANGED <<values, generated>>

operator ==
  CASE here.kind = "OrExpr" -> "OR"
    [] here.kind = "AndExpr" -> "AND"
    [] here.kind = "BinExpr" -> here.ops[1]

left == values[Len(values) - 1]
sameIntegers == left.type = top.type /\ top.type \in IntegerTypes

\* Mutant: the operands change places.
operandsSwapped == <<top, left>>
operands == <<left, top>>

Combine ==
  /\ Do("combine")
  /\ sameIntegers
  /\ Yield(2, Build(operator, top.type, operands[1], operands[2]))

CombineOthers ==
  /\ Do("combine")
  /\ ~sameIntegers
  /\ Stop("undefined")

\* The operators are applied in the order in which they are written.
GeneratePrefixExpr ==
  /\ Generate({"PrefixExpr"})
  /\ Then(<<codegen(kid(1))>> \o [k \in DOMAIN here.ops |-> Step(here.ops[k])])
  /\ UNCHANGED <<values, generated>>

Zero(type) == Constant(type, IF type \in IntegerTypes THEN 0 ELSE Unknown)

MinusOne(type) ==
  Constant(type, IF type \in IntegerTypes THEN PowerOf2[Bits(type)] - 1 ELSE Unknown)

\* No break: the case falls through to that of MINUS.
Negate ==
  /\ Do("NOT")
  /\ LET built == Build("EQ", "i1", top, Zero(top.type))
     IN  Use(1, built.value) /\ Emit(built.code)
  /\ Then(<<Step("MINUS")>>)
  /\ UNCHANGED <<functions, insertBlock, allocated>>

Minus ==
  /\ Do("MINUS")
  /\ Yield(1, Build("MUL", top.type, top, MinusOne(top.type)))

\* The function is looked up by its name, in the module.
named(name) == {f \in DOMAIN functions : functions[f].name = name}

GenerateFnCallExpr ==
  /\ Generate({"FnCallExpr"})
  /\ named(here.name) # {}
  /\ Then(codegenEach(here.kids) \o <<Step("call")>>)
  /\ UNCHANGED <<values, generated>>

RefuseCallee ==
  /\ Generate({"FnCallExpr"})
  /\ named(here.name) = {}
  /\ Stop("codegen_error")

callee == CHOOSE f \in named(here.name) : TRUE
arguments == SubSeq(values, Len(values) - Len(here.kids) + 1, Len(values))
argumentTypes == [k \in DOMAIN arguments |-> arguments[k].type]

CreateCall ==
  /\ Do("call")
  /\ argumentTypes = functions[callee].params
  /\ Yield(Len(here.kids), Insert(Instruction("call", functions[callee].type,
                                              arguments, <<callee>>)))

CreateOtherCall ==
  /\ Do("call")
  /\ argumentTypes # functions[callee].params
  /\ Stop("undefined")

-----------------------------------------------------------------------------
(* Statements.  Their value only has to be other than null: the value of the *)
(* expression stands for the instruction the code returns.                  *)

store(value, declaration) ==
  Instruction("store", value.type, <<value>>, <<declaration>>)

\* The expression comes first; an assignment looks at its variable before.
GenerateOperand ==
  /\ \/ Generate({"VarDecl", "ReturnSt", "IfSt"})
     \/ Generate({"AssignSt"}) /\ allocated[symbolThere.declaredAt] # 0
  /\ Then(<<codegen(kid(1)), Step(here.kind)>>)
  /\ UNCHANGED <<values, generated>>

\* Mutant: the symbol is not told.
recordedNowhere(d) == allocated
recorded(d) == [allocated EXCEPT ![d] = blocks[insertBlock].fn]

Declare ==
  /\ Do("VarDecl")
  /\ top # Null
  /\ insertBlock # 0
  /\ allocated' = recorded(job.node)
  /\ Emit(<<store(top, job.node)>>)
  /\ Then(<<>>)
  /\ UNCHANGED <<values, functions, insertBlock>>

\* getCurrentFunc() through the null insertion block.
DeclareNowhere ==
  /\ Do("VarDecl")
  /\ top # Null
  /\ insertBlock = 0
  /\ Stop("crashed")

CreateStore ==
  /\ Do("AssignSt")
  /\ top # Null
  /\ Yield(1, [value |-> top, code |-> <<store(top, symbolThere.declaredAt)>>])

CreateRet ==
  /\ Do("ReturnSt")
  /\ Yield(1, [value |-> top,
               code |-> <<Instruction("ret", top.type, <<top>>, <<>>)>>])

\* The blocks then, else and merge are appended to the function together.
newBlock(k) == Len(blocks) + k
EmptyBlock(fn) == [fn |-> fn, code |-> <<>>]
Jump(what, target, k) ==
  [do |-> what, node |-> job.node, target |-> target, goOnIn |-> k]

Branch ==
  /\ Do("IfSt")
  /\ top # Null
  /\ LET condition == Build("NE", "i1", top, Zero(top.type))
         fork == Instruction("condbr", "i1", <<condition.value>>,
                             <<newBlock(1), newBlock(2)>>)
         fn == blocks[insertBlock].fn
     IN  blocks' = [blocks EXCEPT ![insertBlock].code =
                      @ \o Append(condition.code, fork)]
                   \o [k \in 1 .. 3 |-> EmptyBlock(fn)]
  /\ insertBlock' = newBlock(1)
  /\ values' = SubSeq(values, 1, Len(values) - 1)
  /\ Then(<<codegen(kid(2)), Jump("else", newBlock(3), newBlock(2)),
            codegen(kid(3)), Jump("merge", newBlock(3), newBlock(3))>>)
  /\ UNCHANGED <<functions, allocated>>

\* Mutant: the insertion point stays in the branch.
MergeInPlace ==
  /\ Do("else") \/ Do("merge")
  /\ top # Null
  /\ Emit(<<Instruction("br", "none", <<>>, <<job.target>>)>>)
  /\ IF job.do = "else" THEN values' = SubSeq(values, 1, Len(values) - 1)
     ELSE Use(1, Label(job.goOnIn))
  /\ Then(<<>>)
  /\ UNCHANGED <<functions, insertBlock, allocated>>

\* A branch has been generated.
Merge ==
  /\ Do("else") \/ Do("merge")
  /\ top # Null
  /\ Emit(<<Instruction("br", "none", <<>>, <<job.target>>)>>)
  /\ insertBlock' = job.goOnIn
  /\ IF job.do = "else" THEN values' = SubSeq(values, 1, Len(values) - 1)
     ELSE Use(1, Label(job.goOnIn))
  /\ Then(<<>>)
  /\ UNCHANGED <<functions, allocated>>

\* The value of every child is looked at before the next one is generated.
Each(nodes) ==
  [k \in 1 .. 2 * Len(nodes) |->
     IF k % 2 = 1 THEN codegen(nodes[(k + 1) \div 2]) ELSE Step("statement")]

GenerateEach ==
  /\ Generate({"Block", "Root"})
  /\ Then(Append(Each(here.kids), Step(here.kind)))
  /\ UNCHANGED <<values, generated>>

Statement ==
  /\ Do("statement")
  /\ top # Null
  /\ values' = SubSeq(values, 1, Len(values) - 1)
  /\ Then(<<>>)
  /\ UNCHANGED generated

EndBlock == Do("Block") /\ Yield(0, GetInsertBlock)

-----------------------------------------------------------------------------
(* Functions and the module. *)

\* Mutant: the insertion point stays where it was.
entryBlockUnset == insertBlock
entryBlock == newBlock(1)

\* The value of the body stands for the function.  The parameters are stored
\* into variables of the entry block.
GenerateFnDef ==
  /\ Generate({"FnDef"})
  /\ LET fn == Len(functions) + 1
         params == SubSeq(here.kids, 1, Len(here.kids) - 1)
         types == [k \in DOMAIN params |-> toLLVMType(tree[params[k]].typeName)]
     IN  /\ functions' = Append(functions,
                                [name |-> here.name, params |-> types,
                                 type |-> toLLVMType(here.typeName)])
         /\ blocks' = Append(blocks,
              [fn |-> fn,
               code |-> [k \in DOMAIN params |->
                           store(Argument(types[k], k), params[k])]])
         /\ insertBlock' = entryBlock
         /\ allocated' = [m \in DOMAIN tree |->
              IF \E k \in DOMAIN params : params[k] = m THEN fn
              ELSE allocated[m]]
  /\ Then(<<codegen(kid(Len(here.kids)))>>)
  /\ UNCHANGED values


\* llvmModule.getFunction("main"), without which the driver prints nothing.
EndRoot ==
  /\ Do("Root")
  /\ Stop(IF named("main") = {} THEN "no_main" ELSE "generated")

CodegenNext ==
  \/ fatalCodegenError \/ AssertSymbol \/ RefuseUnallocated \/ RefuseCallee
  \/ CombineOthers \/ CreateOtherCall \/ DeclareNowhere
  \/ GenerateLiteral \/ GenerateEmpty \/ GenerateVarExpr \/ GenerateChain
  \/ Combine \/ GeneratePrefixExpr \/ Negate \/ Minus
  \/ GenerateFnCallExpr \/ CreateCall
  \/ GenerateOperand \/ Declare \/ CreateStore \/ CreateRet \/ Branch \/ Merge
  \/ GenerateEach \/ Statement \/ EndBlock \/ GenerateFnDef \/ EndRoot

\* No phase behind the parser goes on.
Ended == status = "semantic_error" \/ outcome # "running"
=============================================================================
