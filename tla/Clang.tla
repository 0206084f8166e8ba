------------------------------- MODULE Clang -------------------------------
(***************************************************************************)
(* What becomes of a generated module (external to the repository): the    *)
(* driver prints it as text and leaves it to clang.  The text is read back *)
(* by rules of its own, and then the program runs.                         *)
(***************************************************************************)
EXTENDS Codegen, TLC

Terminators == {"ret", "br", "condbr"}
isTerminated(code) == code # <<>> /\ code[Len(code)].op \in Terminators

\* What is printed with a number instead of a name: the results of calls and
\* computations, and every block but the first of a function.
isNumbered(instruction) ==
  instruction.op \notin Terminators \cup {"load", "store"}

BlocksOf(f) == {b \in DOMAIN blocks : blocks[b].fn = f}

\* The text knows no end of a block but a terminator or a label, so what stands
\* behind a terminator is read as another block.  That block takes a number,
\* and the next thing printed with a number has the wrong one.
ReadBack(b) ==
  LET code == blocks[b].code
      ends == {i \in DOMAIN code : code[i].op \in Terminators}
  IN  /\ isTerminated(code)
      /\ Min(ends) < Len(code) =>
           /\ b = Max(BlocksOf(blocks[b].fn))
           /\ \A i \in Min(ends) .. Len(code) : ~isNumbered(code[i])

\* A label is not returned and not stored, and a function returns its type.
Typed(b) ==
  \A i \in DOMAIN blocks[b].code :
    LET instruction == blocks[b].code[i]
    IN  /\ instruction.op = "store" => instruction.type # "label"
        /\ instruction.op = "ret" =>
             instruction.type = functions[blocks[b].fn].type

Accepted == \A b \in DOMAIN blocks : ReadBack(b) /\ Typed(b)

Compiled == outcome = "generated" /\ Accepted

-----------------------------------------------------------------------------
\* A variable nothing was stored to.
Uninitialised == -2

\* The value a variable has after a store: a part of it, or a value of another
\* kind, is not followed.
Stored(value, type, d) ==
  IF type = toLLVMType(tree[d].typeName) THEN value ELSE Unknown

\* What the function returns from the instruction i of the block b on.
RECURSIVE Run(_, _, _, _, _)
Run(b, i, registers, memory, args) ==
  LET instruction == blocks[b].code[i]
      valueOf(v) == CASE v.is = "constant" -> v.v
                      [] v.is = "argument" -> args[v.k]
                      [] v.is = "register" -> registers[v.at]
      inputs == [k \in DOMAIN instruction.args |->
                     valueOf(instruction.args[k])]
      refs == instruction.refs
      continueWith(result) ==
        Run(b, i + 1, (<<b, i>> :> result) @@ registers, memory, args)
  IN  CASE instruction.op = "ret" -> inputs[1]
        [] instruction.op = "br" -> Run(refs[1], 1, registers, memory, args)
        [] instruction.op = "condbr" ->
             IF inputs[1] \notin {0, 1} THEN inputs[1]
             ELSE Run(refs[2 - inputs[1]], 1, registers, memory, args)
        [] instruction.op = "store" ->
             Run(b, i + 1, registers,
                 [memory EXCEPT ![refs[1]] =
                    Stored(inputs[1], instruction.type, refs[1])], args)
        [] instruction.op = "load" -> continueWith(memory[refs[1]])
        [] instruction.op = "call" ->
             continueWith(Run(Min(BlocksOf(refs[1])), 1, <<>>,
                              [m \in DOMAIN tree |-> Uninitialised], inputs))
        [] OTHER ->
             continueWith(Compute(instruction.op, Bits(instruction.args[1].type),
                                  inputs[1], inputs[2]))

RunFunction(f, args) ==
  Run(Min(BlocksOf(f)), 1, <<>>, [m \in DOMAIN tree |-> Uninitialised], args)

=============================================================================
