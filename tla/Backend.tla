------------------------------ MODULE Backend ------------------------------
(***************************************************************************)
(* The phases behind the parser in the order in which main() runs them     *)
(* (src/src/unzig_cmd.cpp): the semantic analysis annotates the tree, the  *)
(* tree is drawn, and code is generated from tree and annotations.         *)
(***************************************************************************)
EXTENDS Codegen, DotGen

backendVars == <<vars, dotVars, codegenVars>>

BackendInit == CodegenInit /\ DotInit

BackendNext ==
  \/ Next /\ UNCHANGED <<dotVars, codegenVars>>
  \/ GenerateNode /\ UNCHANGED codegenVars
  \/ GenerateEdge /\ UNCHANGED codegenVars
  \/ Drawn /\ CodegenNext /\ UNCHANGED dotVars

BackendSpec == BackendInit /\ [][BackendNext]_backendVars

-----------------------------------------------------------------------------
(* Properties. *)

ValueTypes == {"i1", "i32", "f32"}

\* A register is the result of the instruction it names, of its type.
IsResult(v, within) ==
  /\ v = Register(v.type, v.at)
  /\ v.at \in (DOMAIN within) \X (Nat \ {0})
  /\ v.at[2] \in DOMAIN within[v.at[1]].code
  /\ within[v.at[1]].code[v.at[2]].type = v.type

\* A value of a module with these blocks.
IsValue(v, within) ==
  /\ v.is \in {"constant", "argument", "register", "label", "null"}
  /\ v.is \in {"constant", "argument", "register"} => v.type \in ValueTypes
  /\ v.is = "constant" => v = Constant(v.type, v.v)
  /\ v.is = "argument" => v = Argument(v.type, v.k) /\ v.k \in Nat
  /\ v.is = "register" => IsResult(v, within)
  /\ v.is = "label" => v = Label(v.block) /\ v.block \in DOMAIN within
  /\ v.is = "null" => v = Null

\* The values have their types and belong to the function that is generated,
\* instructions go to a block of the last function, its variables are allocated
\* in it, and a finished module left no value over.
BackendTypeOK ==
  /\ \A i \in DOMAIN values : IsValue(values[i], blocks)
  /\ insertBlock \in 0 .. Len(blocks)
  /\ insertBlock = 0 <=> functions = <<>>
  /\ insertBlock # 0 => blocks[insertBlock].fn = Len(functions)
  /\ \A b \in DOMAIN blocks :
       /\ blocks[b].fn \in DOMAIN functions
       /\ \A i \in DOMAIN blocks[b].code : \A k \in DOMAIN blocks[b].code[i].args :
            IsValue(blocks[b].code[i].args[k], blocks)
  /\ allocated \in [DOMAIN tree -> 0 .. Len(functions)]
  /\ outcome \in {"generated", "no_main"} => values = <<>> /\ Len(todo) = 1
=============================================================================
