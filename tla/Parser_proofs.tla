--------------------------- MODULE Parser_proofs ---------------------------
(***************************************************************************)
(* Proofs about the parser, for every set of token lists and every parse   *)
(* function that is called first.  The first part goes through the steps   *)
(* of the parse functions, one function at a time: where a function is     *)
(* with respect to the token it was called at, which nodes it has kept,    *)
(* and how each of its steps changes that.  What follows uses of the steps *)
(* only what is proved there, until the last part, on the grouping of      *)
(* operators, looks at those of the three functions that read them.        *)
(***************************************************************************)
EXTENDS Parser, SequenceTheorems, WellFoundedInduction, TLAPS

-----------------------------------------------------------------------------
(* What is known of a parse function that is at one of its steps. *)

stepAt(fn, pc) == script[fn][pc]
Steps(fn) == 1 .. Len(script[fn])

Loops == {"PrefixExpr", "BinOpRhsExpr"}

\* The cursor is where the function was called.
AtStart(fn, pc) ==
  \/ stepAt(fn, pc).op \in {"alt", "empty"}
  \/ pc = 1 /\ fn \notin Loops

\* The function has consumed a token.
Moved(fn, pc) ==
  /\ ~AtStart(fn, pc)
  /\ fn = "PrefixExpr" => pc \notin {1, 3}
  /\ fn = "BinOpRhsExpr" => pc \notin {1, 6}

\* It has skipped one that it may have to report or that is its operator.
HasSkipped(fn, pc) ==
  \/ fn = "BinOpRhsExpr" /\ pc \in 2 .. 5
  \/ stepAt(fn, pc).fail = "comma"

\* The kinds of the nodes it returns.
Yields(fn) ==
  CASE fn \in {"BoolExpr", "NumberExpr", "VarExpr", "FnCallExpr", "PrefixExpr",
               "OrExpr", "AndExpr", "GroupedExpr", "PrimaryExpr", "BinOpRhsExpr",
               "CompareExpr", "BinaryExpr", "Expr"} -> Expressions
    [] fn = "Statement" -> Statements
    [] fn = "TopLevelDecl" -> {"FnDef", "VarDecl"}
    [] fn \in {"Root", "parse"} -> {"TopLevelDeclarations"}
    [] OTHER -> {fn}

\* The nodes it has kept so far.
Fits(fn, pc, kids) ==
  LET count == Len(kids)
      All(kinds) == AreOf(kids, 1, count, kinds)
      Keeps(from, kinds) == All(kinds) /\ count = (IF pc >= from THEN 1 ELSE 0)
      MayKeep(from, kinds) == All(kinds) /\ count <= (IF pc >= from THEN 1 ELSE 0)
  IN  CASE fn \in {"OrExpr", "AndExpr"} ->
             All(Expressions) /\ (pc > 1 => count > 0) /\ (pc = 1 => count = 0)
        [] fn = "BinOpRhsExpr" ->
             All(Expressions) /\ count = (IF pc \in {3, 4} THEN 2 ELSE 1)
        [] fn = "BinaryExpr" ->
             All(Expressions) /\ count = (IF pc \in {2, 3} THEN 1 ELSE 0)
        [] fn = "GroupedExpr" -> Keeps(3, Expressions)
        [] fn \in {"PrefixExpr", "AssignSt"} -> Keeps(4, Expressions)
        [] fn = "VarDecl" -> MayKeep(7, Expressions)
        [] fn = "ReturnSt" -> MayKeep(3, Expressions)
        [] fn = "FnCallExpr" -> All(Expressions)
        [] fn = "Block" -> All(Statements)
        [] fn = "IfSt" ->
             /\ count > 0 => AreOf(kids, 1, 1, Expressions)
             /\ count > 1 => AreOf(kids, 2, 2, {"Block"})
             /\ AreOf(kids, 3, count, Statements)
             /\ IF pc <= 3 THEN count = 0 ELSE IF pc <= 5 THEN count = 1
                ELSE IF pc <= 7 THEN count = 2 ELSE count \in {2, 3}
        [] fn = "FnDef" ->
             IF pc <= 10 THEN All({"FnParam"})
             ELSE /\ count > 0
                  /\ AreOf(kids, 1, count - 1, {"FnParam"})
                  /\ AreOf(kids, count, count, {"Block"})
        [] fn = "TopLevelDeclarations" ->
             /\ All({"FnDef", "VarDecl"})
             /\ (pc > 1 => count > 0) /\ (pc = 1 => count = 0)
        [] fn \in {"Root", "parse"} -> Keeps(2, {"TopLevelDeclarations"})
        [] OTHER -> count = 0

-----------------------------------------------------------------------------
(* The steps of the parse functions. *)

\* A step after which the node kept last is in the hands of another function.
Hands == {"with", "climb"}

\* The functions that may return a binary expression without parentheses.
Loose == {"BinOpRhsExpr", "BinaryExpr", "CompareExpr", "AndExpr", "OrExpr", "Expr"}

GoesOn(fn, from, to) ==
  /\ to \in Steps(fn)
  /\ AtStart(fn, to) => AtStart(fn, from)
  /\ Moved(fn, to) => Moved(fn, from)
  /\ HasSkipped(fn, to) => HasSkipped(fn, from)

\* A step that consumes a token, or keeps a node that did.
Consumes(fn, pc) ==
  /\ pc + 1 \in Steps(fn)
  /\ ~AtStart(fn, pc + 1)

TriesAlternatives ==
  {"PrimaryExpr", "CompareExpr", "Expr", "Statement", "TopLevelDecl"}

\* The function has kept all it needs at this step.
HasKept(fn) ==
  CASE fn = "FnDef" -> 11
    [] fn = "IfSt" -> 8
    [] fn = "BinOpRhsExpr" -> 6
    [] fn \in {"GroupedExpr", "PrefixExpr", "AssignSt"} -> 4
    [] fn = "BinaryExpr" -> 3
    [] OTHER -> 2

\* What the steps of a kind have in common, and what stands behind them.
StepFacts(fn, pc) ==
  LET s == stepAt(fn, pc)
  IN  /\ s.op \in {"take", "peek", "when", "call", "alt", "with", "climb",
                   "combine", "jump", "return", "empty"}
      /\ s.op = "take" =>
           /\ "Eof" \notin s.kinds
           /\ Consumes(fn, pc) /\ (HasSkipped(fn, pc + 1) => HasSkipped(fn, pc))
           /\ s.fail \in {"reset", "mark", "prev", "here"}
           /\ s.fail = "here" <=> fn = "ReturnSt" /\ pc = 3
      /\ s.op = "peek" => GoesOn(fn, pc, pc + 1) /\ s.fail = "here"
      /\ s.op = "when" =>
           /\ "Eof" \notin s.kinds
           /\ Consumes(fn, pc)
           /\ s.fail = "goto" /\ GoesOn(fn, pc, s.other)
      /\ s.op = "call" =>
           /\ s.fn \in Fn \ {"BinOpRhsExpr"}
           /\ Consumes(fn, pc) /\ (HasSkipped(fn, pc + 1) => HasSkipped(fn, pc))
           /\ s.fail \in {"reset", "mark", "here", "comma", "goto"}
           /\ s.fail = "goto" => GoesOn(fn, pc, s.other)
      /\ s.op = "alt" =>
           /\ s.fn \in Fn \ {"BinOpRhsExpr"}
           /\ fn # "BinOpRhsExpr"
           /\ Yields(s.fn) \subseteq Yields(fn)
           /\ fn \notin Loose => s.fn \notin Loose
           /\ GoesOn(fn, pc, pc + 1)
      /\ s.op \in Hands =>
           /\ s.fn = "BinOpRhsExpr"
           /\ \/ fn = "BinaryExpr" /\ pc = 2
              \/ fn = "BinOpRhsExpr" /\ pc = 3
           /\ Moved(fn, pc) /\ GoesOn(fn, pc, pc + 1)
      /\ s.op = "combine" => fn = "BinOpRhsExpr" /\ pc = 4 /\ GoesOn(fn, 4, 5)
      /\ s.op = "jump" => GoesOn(fn, pc, s.other)
      /\ s.op = "return" =>
           /\ Moved(fn, pc) \/ fn = "BinOpRhsExpr"
           /\ fn \notin TriesAlternatives
           /\ pc >= HasKept(fn) /\ (fn = "BinaryExpr" => pc = 3)
      /\ fn = "ReturnSt" /\ pc = 3 => s.op = "take"

LEMMA Script ==
  \A fn \in Fn : /\ 1 \in Steps(fn)
                 /\ ~HasSkipped(fn, 1)
                 /\ \A pc \in Steps(fn) : StepFacts(fn, pc)
<1> USE DEF script, Fn, Step, Take, Peek, When, Sub, Opt, Alt, With, Climb,
            Combine, Jump, Return, ReturnEmpty, stepAt, Steps, StepFacts,
            GoesOn, Consumes, AtStart, Moved, HasSkipped, Loops, Hands, Yields,
            BinOps, PrefixOps, Expressions, Statements, TriesAlternatives,
            HasKept, Loose
<1>1. /\ 1 \in Steps("BoolExpr")
      /\ ~HasSkipped("BoolExpr", 1)
      /\ \A pc \in Steps("BoolExpr") : StepFacts("BoolExpr", pc)
  BY DEF parseBoolExpr
<1>2. /\ 1 \in Steps("NumberExpr")
      /\ ~HasSkipped("NumberExpr", 1)
      /\ \A pc \in Steps("NumberExpr") : StepFacts("NumberExpr", pc)
  BY DEF parseNumberExpr
<1>3. /\ 1 \in Steps("GroupedExpr")
      /\ ~HasSkipped("GroupedExpr", 1)
      /\ \A pc \in Steps("GroupedExpr") : StepFacts("GroupedExpr", pc)
  BY DEF parseGroupedExpr
<1>4. /\ 1 \in Steps("VarExpr")
      /\ ~HasSkipped("VarExpr", 1)
      /\ \A pc \in Steps("VarExpr") : StepFacts("VarExpr", pc)
  BY DEF parseVarExpr
<1>5. /\ 1 \in Steps("FnCallExpr")
      /\ ~HasSkipped("FnCallExpr", 1)
      /\ \A pc \in Steps("FnCallExpr") : StepFacts("FnCallExpr", pc)
  BY DEF parseFnCallExpr
<1>6. /\ 1 \in Steps("PrimaryExpr")
      /\ ~HasSkipped("PrimaryExpr", 1)
      /\ \A pc \in Steps("PrimaryExpr") : StepFacts("PrimaryExpr", pc)
  BY DEF parsePrimaryExpr
<1>7. /\ 1 \in Steps("BinOpRhsExpr")
      /\ ~HasSkipped("BinOpRhsExpr", 1)
      /\ \A pc \in Steps("BinOpRhsExpr") : StepFacts("BinOpRhsExpr", pc)
  BY DEF parseBinOpRhsExpr
<1>8. /\ 1 \in Steps("OrExpr")
      /\ ~HasSkipped("OrExpr", 1)
      /\ \A pc \in Steps("OrExpr") : StepFacts("OrExpr", pc)
  BY DEF parseOrExpr
<1>9. /\ 1 \in Steps("AndExpr")
      /\ ~HasSkipped("AndExpr", 1)
      /\ \A pc \in Steps("AndExpr") : StepFacts("AndExpr", pc)
  BY DEF parseAndExpr
<1>10. /\ 1 \in Steps("CompareExpr")
      /\ ~HasSkipped("CompareExpr", 1)
      /\ \A pc \in Steps("CompareExpr") : StepFacts("CompareExpr", pc)
  BY DEF parseCompareExpr
<1>11. /\ 1 \in Steps("BinaryExpr")
      /\ ~HasSkipped("BinaryExpr", 1)
      /\ \A pc \in Steps("BinaryExpr") : StepFacts("BinaryExpr", pc)
  BY DEF parseBinaryExpr
<1>12. /\ 1 \in Steps("PrefixExpr")
      /\ ~HasSkipped("PrefixExpr", 1)
      /\ \A pc \in Steps("PrefixExpr") : StepFacts("PrefixExpr", pc)
  BY DEF parsePrefixExpr
<1>13. /\ 1 \in Steps("Expr")
      /\ ~HasSkipped("Expr", 1)
      /\ \A pc \in Steps("Expr") : StepFacts("Expr", pc)
  BY DEF parseExpr
<1>14. /\ 1 \in Steps("VarDecl")
      /\ ~HasSkipped("VarDecl", 1)
      /\ \A pc \in Steps("VarDecl") : StepFacts("VarDecl", pc)
  BY DEF parseVarDecl
<1>15. /\ 1 \in Steps("IfSt")
      /\ ~HasSkipped("IfSt", 1)
      /\ \A pc \in Steps("IfSt") : StepFacts("IfSt", pc)
  BY DEF parseIfSt
<1>16. /\ 1 \in Steps("ReturnSt")
      /\ ~HasSkipped("ReturnSt", 1)
      /\ \A pc \in Steps("ReturnSt") : StepFacts("ReturnSt", pc)
  BY DEF parseReturnSt
<1>17. /\ 1 \in Steps("AssignSt")
      /\ ~HasSkipped("AssignSt", 1)
      /\ \A pc \in Steps("AssignSt") : StepFacts("AssignSt", pc)
  BY DEF parseAssignSt
<1>18. /\ 1 \in Steps("Statement")
      /\ ~HasSkipped("Statement", 1)
      /\ \A pc \in Steps("Statement") : StepFacts("Statement", pc)
  BY DEF parseStatement
<1>19. /\ 1 \in Steps("Block")
      /\ ~HasSkipped("Block", 1)
      /\ \A pc \in Steps("Block") : StepFacts("Block", pc)
  BY DEF parseBlock
<1>20. /\ 1 \in Steps("FnParam")
      /\ ~HasSkipped("FnParam", 1)
      /\ \A pc \in Steps("FnParam") : StepFacts("FnParam", pc)
  BY DEF parseFnParam
<1>21. /\ 1 \in Steps("FnDef")
      /\ ~HasSkipped("FnDef", 1)
      /\ \A pc \in Steps("FnDef") : StepFacts("FnDef", pc)
  BY DEF parseFnDef
<1>22. /\ 1 \in Steps("TopLevelDecl")
      /\ ~HasSkipped("TopLevelDecl", 1)
      /\ \A pc \in Steps("TopLevelDecl") : StepFacts("TopLevelDecl", pc)
  BY DEF parseTopLevelDecl
<1>23. /\ 1 \in Steps("TopLevelDeclarations")
      /\ ~HasSkipped("TopLevelDeclarations", 1)
      /\ \A pc \in Steps("TopLevelDeclarations") : StepFacts("TopLevelDeclarations", pc)
  BY DEF parseTopLevelDeclarations
<1>24. /\ 1 \in Steps("Root")
      /\ ~HasSkipped("Root", 1)
      /\ \A pc \in Steps("Root") : StepFacts("Root", pc)
  BY DEF parseRoot
<1>25. /\ 1 \in Steps("parse")
      /\ ~HasSkipped("parse", 1)
      /\ \A pc \in Steps("parse") : StepFacts("parse", pc)
  BY DEF parse
<1> HIDE DEF StepFacts, Steps, HasSkipped
<1> QED
  BY <1>1, <1>2, <1>3, <1>4, <1>5, <1>6, <1>7, <1>8, <1>9, <1>10, <1>11,
     <1>12, <1>13, <1>14, <1>15, <1>16, <1>17, <1>18, <1>19, <1>20, <1>21,
     <1>22, <1>23, <1>24, <1>25

\* What a function has kept goes with the step it is at, whatever it does.
KeepsFacts(fn, pc, kids, n) ==
  LET s == stepAt(fn, pc)
  IN  /\ s.op \in {"take", "peek", "when", "climb", "alt"} => Fits(fn, pc + 1, kids)
      /\ s.op = "jump" \/ s.fail = "goto" => Fits(fn, s.other, kids)
      /\ s.op = "call" /\ n.kind \in Yields(s.fn) => Fits(fn, pc + 1, Append(kids, n))

LEMMA Keeps ==
  ASSUME NEW S, NEW kids \in Seq(S), NEW n \in S,
         NEW fn \in Fn, NEW pc \in Steps(fn), Fits(fn, pc, kids)
  PROVE  KeepsFacts(fn, pc, kids, n)
<1>0. /\ Len(kids) \in Nat
      /\ Len(Append(kids, n)) = Len(kids) + 1
      /\ \A k \in 1 .. Len(kids) : Append(kids, n)[k] = kids[k]
      /\ Append(kids, n)[Len(kids) + 1] = n
  BY AppendProperties
<1> USE <1>0 DEF script, Step, Take, Peek, When, Sub, Opt, Alt, With, Climb,
            Combine, Jump, Return, ReturnEmpty, stepAt, Steps, KeepsFacts,
            Yields, Fits, AreOf, Expressions, Statements
<1>1. CASE fn = "BoolExpr"
  BY <1>1 DEF parseBoolExpr
<1>2. CASE fn = "NumberExpr"
  BY <1>2 DEF parseNumberExpr
<1>3. CASE fn = "GroupedExpr"
  BY <1>3 DEF parseGroupedExpr
<1>4. CASE fn = "VarExpr"
  BY <1>4 DEF parseVarExpr
<1>5. CASE fn = "FnCallExpr"
  BY <1>5 DEF parseFnCallExpr
<1>6. CASE fn = "PrimaryExpr"
  BY <1>6 DEF parsePrimaryExpr
<1>7. CASE fn = "BinOpRhsExpr"
  <2>1. CASE pc = 1
    BY <1>7, <2>1 DEF parseBinOpRhsExpr
  <2>2. CASE pc = 2
    <3>1. Len(kids) = 1
      BY <1>7, <2>2 DEF parseBinOpRhsExpr
    <3>2. Len(Append(kids, n)) = 2 /\ Append(kids, n)[1] = kids[1] /\ Append(kids, n)[2] = n
      BY <3>1
    <3> QED
      BY <1>7, <2>2, <3>1, <3>2 DEF parseBinOpRhsExpr
  <2>3. CASE pc = 3
    BY <1>7, <2>3 DEF parseBinOpRhsExpr
  <2>4. CASE pc = 4
    BY <1>7, <2>4 DEF parseBinOpRhsExpr
  <2>5. CASE pc = 5
    BY <1>7, <2>5 DEF parseBinOpRhsExpr
  <2>6. CASE pc = 6
    BY <1>7, <2>6 DEF parseBinOpRhsExpr
  <2> QED
    BY <1>7, <2>1, <2>2, <2>3, <2>4, <2>5, <2>6 DEF parseBinOpRhsExpr
<1>8. CASE fn = "OrExpr"
  BY <1>8 DEF parseOrExpr
<1>9. CASE fn = "AndExpr"
  BY <1>9 DEF parseAndExpr
<1>10. CASE fn = "CompareExpr"
  BY <1>10 DEF parseCompareExpr
<1>11. CASE fn = "BinaryExpr"
  BY <1>11 DEF parseBinaryExpr
<1>12. CASE fn = "PrefixExpr"
  BY <1>12 DEF parsePrefixExpr
<1>13. CASE fn = "Expr"
  BY <1>13 DEF parseExpr
<1>14. CASE fn = "VarDecl"
  BY <1>14 DEF parseVarDecl
<1>15. CASE fn = "IfSt"
  <2>1. CASE pc = 1
    BY <1>15, <2>1 DEF parseIfSt
  <2>2. CASE pc = 2
    BY <1>15, <2>2 DEF parseIfSt
  <2>3. CASE pc = 3
    BY <1>15, <2>3 DEF parseIfSt
  <2>4. CASE pc = 4
    BY <1>15, <2>4 DEF parseIfSt
  <2>5. CASE pc = 5
    <3>1. Len(kids) = 1
      BY <1>15, <2>5 DEF parseIfSt
    <3>2. Len(Append(kids, n)) = 2 /\ Append(kids, n)[1] = kids[1] /\ Append(kids, n)[2] = n
      BY <3>1
    <3> QED
      BY <1>15, <2>5, <3>1, <3>2 DEF parseIfSt
  <2>6. CASE pc = 6
    BY <1>15, <2>6 DEF parseIfSt
  <2>7. CASE pc = 7
    <3>1. Len(kids) = 2
      BY <1>15, <2>7 DEF parseIfSt
    <3>2. /\ Len(Append(kids, n)) = 3
          /\ Append(kids, n)[1] = kids[1]
          /\ Append(kids, n)[2] = kids[2]
          /\ Append(kids, n)[3] = n
      BY <3>1
    <3> QED
      BY <1>15, <2>7, <3>1, <3>2 DEF parseIfSt
  <2>8. CASE pc = 8
    BY <1>15, <2>8 DEF parseIfSt
  <2> QED
    BY <1>15, <2>1, <2>2, <2>3, <2>4, <2>5, <2>6, <2>7, <2>8 DEF parseIfSt
<1>16. CASE fn = "ReturnSt"
  BY <1>16 DEF parseReturnSt
<1>17. CASE fn = "AssignSt"
  BY <1>17 DEF parseAssignSt
<1>18. CASE fn = "Statement"
  BY <1>18 DEF parseStatement
<1>19. CASE fn = "Block"
  BY <1>19 DEF parseBlock
<1>20. CASE fn = "FnParam"
  BY <1>20 DEF parseFnParam
<1>21. CASE fn = "FnDef"
  BY <1>21 DEF parseFnDef
<1>22. CASE fn = "TopLevelDecl"
  BY <1>22 DEF parseTopLevelDecl
<1>23. CASE fn = "TopLevelDeclarations"
  BY <1>23 DEF parseTopLevelDeclarations
<1>24. CASE fn = "Root"
  BY <1>24 DEF parseRoot
<1>25. CASE fn = "parse"
  BY <1>25 DEF parse
<1> HIDE DEF KeepsFacts, Steps, Fits
<1> QED
  BY <1>1, <1>2, <1>3, <1>4, <1>5, <1>6, <1>7, <1>8, <1>9, <1>10, <1>11,
     <1>12, <1>13, <1>14, <1>15, <1>16, <1>17, <1>18, <1>19, <1>20, <1>21,
     <1>22, <1>23, <1>24, <1>25 DEF Fn

\* A function begins with nothing, the one that climbs with its operand.
LEMMA Begins ==
  ASSUME NEW fn \in Fn
  PROVE  /\ 1 \in Steps(fn)
         /\ ~Moved(fn, 1)
         /\ ~HasSkipped(fn, 1)
         /\ fn # "BinOpRhsExpr" => Fits(fn, 1, <<>>)
<1>1. 1 \in Steps(fn) /\ ~HasSkipped(fn, 1)
  BY Script
<1>2. fn # "BinOpRhsExpr" => Fits(fn, 1, <<>>)
  BY DEF Fits, AreOf
<1> QED
  BY <1>1, <1>2 DEF Moved, AtStart, Loops

\* What is handed over is an expression, and one takes its place.
LEMMA HandsOver ==
  ASSUME NEW S, NEW kids \in Seq(S), NEW fn \in Fn, NEW pc \in Steps(fn),
         stepAt(fn, pc).op \in Hands, Fits(fn, pc, kids)
  PROVE  /\ Len(kids) > 0
         /\ kids[Len(kids)].kind \in Expressions
         /\ Fits("BinOpRhsExpr", 1, <<kids[Len(kids)]>>)
<1>1. \/ fn = "BinaryExpr" /\ pc = 2 /\ Len(kids) = 1
      \/ fn = "BinOpRhsExpr" /\ pc = 3 /\ Len(kids) = 2
  BY Script DEF StepFacts, Fits
<1>2. AreOf(kids, 1, Len(kids), Expressions)
  BY <1>1 DEF Fits
<1>3. kids[Len(kids)].kind \in Expressions
  BY <1>1, <1>2 DEF AreOf
<1> QED
  BY <1>1, <1>3 DEF Fits, AreOf

LEMMA TakesBack ==
  ASSUME NEW S, NEW kids \in Seq(S), NEW n \in S, NEW m \in S,
         NEW fn \in Fn, NEW pc \in Steps(fn),
         stepAt(fn, pc).op \in Hands, Fits(fn, pc, Append(kids, n)),
         m.kind \in Expressions
  PROVE  Fits(fn, pc + 1, Append(kids, m))
<1>1. /\ Len(kids) \in Nat
      /\ Len(Append(kids, n)) = Len(kids) + 1
      /\ Len(Append(kids, m)) = Len(kids) + 1
      /\ \A k \in 1 .. Len(kids) : Append(kids, n)[k] = kids[k]
      /\ \A k \in 1 .. Len(kids) : Append(kids, m)[k] = kids[k]
      /\ Append(kids, m)[Len(kids) + 1] = m
  BY AppendProperties
<1>2. \/ fn = "BinaryExpr" /\ pc = 2 /\ Len(kids) = 0
      \/ fn = "BinOpRhsExpr" /\ pc = 3 /\ Len(kids) = 1
  <2>1. \/ fn = "BinaryExpr" /\ pc = 2
        \/ fn = "BinOpRhsExpr" /\ pc = 3
    BY Script DEF StepFacts
  <2>2. CASE fn = "BinaryExpr" /\ pc = 2
    <3> DEFINE count == Len(kids)
    <3>1. count \in Nat /\ count + 1 = 1
      BY <1>1, <2>2 DEF Fits
    <3> HIDE DEF count
    <3>2. count = 0
      BY <3>1
    <3> QED
      BY <2>2, <3>2 DEF count
  <2>3. CASE fn = "BinOpRhsExpr" /\ pc = 3
    <3> DEFINE count == Len(kids)
    <3>1. count \in Nat /\ count + 1 = 2
      BY <1>1, <2>3 DEF Fits
    <3> HIDE DEF count
    <3>2. count = 1
      BY <3>1
    <3> QED
      BY <2>3, <3>2 DEF count
  <2> QED
    BY <2>1, <2>2, <2>3
<1>3. AreOf(Append(kids, n), 1, Len(kids) + 1, Expressions)
  BY <1>1, <1>2 DEF Fits
<1>4. AreOf(Append(kids, m), 1, Len(kids) + 1, Expressions)
  BY <1>1, <1>2, <1>3 DEF AreOf
<1> QED
  BY <1>1, <1>2, <1>4 DEF Fits

ReturnsLast == PassesOn \cup {"GroupedExpr"}

\* What a function returns has its shape.
LEMMA Returns ==
  ASSUME NEW S, NEW kids \in Seq(S), NEW fn \in Fn, NEW pc \in Steps(fn),
         stepAt(fn, pc).op = "return", Fits(fn, pc, kids), NEW at
  PROVE  IF \/ fn \in ReturnsLast
            \/ fn \in {"OrExpr", "AndExpr"} /\ Len(kids) = 1
           THEN Len(kids) > 0 /\ kids[Len(kids)].kind \in Yields(fn)
           ELSE /\ fn \in Yields(fn) \cap Kind
                /\ fn \notin {"Empty", "Nothing"}
                /\ fn = "PrefixExpr" =>
                     Len(kids) > 0 /\ kids[Len(kids)].kind \in Yields(fn)
                /\ HasItsShape(Node(fn, at, kids))
<1> DEFINE count == Len(kids)
<1>1. /\ fn \notin TriesAlternatives
      /\ pc >= HasKept(fn)
      /\ fn = "BinaryExpr" => pc = 3
  BY Script DEF StepFacts
<1>2. count \in Nat /\ pc \in Nat
  BY DEF Steps
<1>3. CASE fn \in ReturnsLast \cup {"OrExpr", "AndExpr", "PrefixExpr"}
  <2>1. count > 0
    <3>1. CASE fn \in {"OrExpr", "AndExpr"}
      BY <1>1, <1>2, <3>1 DEF Fits, HasKept
    <3>2. CASE fn = "GroupedExpr"
      BY <1>1, <1>2, <3>2 DEF Fits, HasKept
    <3>3. CASE fn = "PrefixExpr"
      <4>1. pc >= 4 /\ count = IF pc >= 4 THEN 1 ELSE 0
        BY <1>1, <3>3 DEF Fits, HasKept
      <4> HIDE DEF count
      <4> QED
        BY <4>1
    <3>4. CASE fn = "BinaryExpr"
      <4>1. pc = 3 /\ count = IF pc \in {2, 3} THEN 1 ELSE 0
        BY <1>1, <3>4 DEF Fits
      <4> HIDE DEF count
      <4> QED
        BY <4>1
    <3>5. CASE fn = "BinOpRhsExpr"
      <4>1. count = IF pc \in {3, 4} THEN 2 ELSE 1
        BY <3>5 DEF Fits
      <4> HIDE DEF count
      <4> QED
        BY <4>1
    <3>6. CASE fn \in {"Root", "parse"}
      <4>1. pc >= 2 /\ count = IF pc >= 2 THEN 1 ELSE 0
        BY <1>1, <3>6 DEF Fits, HasKept
      <4> HIDE DEF count
      <4> QED
        BY <4>1
    <3> QED
      BY <1>3, <3>1, <3>2, <3>3, <3>4, <3>5, <3>6 DEF ReturnsLast, PassesOn
  <2>2. AreOf(kids, 1, count, Yields(fn))
    BY <1>1, <1>2, <1>3 DEF Fits, Yields, ReturnsLast, PassesOn
  <2>3. kids[count].kind \in Yields(fn)
    BY <1>2, <2>1, <2>2 DEF AreOf
  <2>4. CASE fn \in ReturnsLast
    BY <2>1, <2>3, <2>4
  <2>5. CASE fn \in {"OrExpr", "AndExpr", "PrefixExpr"}
    <3>1. Yields(fn) = Expressions /\ fn \in Expressions
      BY <2>5 DEF Yields, Expressions
    <3>2. CASE fn = "PrefixExpr"
      <4>1. count = 1
        BY <1>1, <1>2, <3>2 DEF Fits, HasKept
      <4> QED
        BY <2>1, <2>2, <2>3, <3>1, <3>2, <4>1 DEF HasItsShape, Node, Kind, ReturnsLast, PassesOn
    <3>3. CASE fn # "PrefixExpr"
      <4>1. fn \in {"OrExpr", "AndExpr"}
        BY <2>5, <3>3
      <4>2. count = 1 => kids[count].kind \in Yields(fn)
        BY <2>3
      <4>3. count > 1 => HasItsShape(Node(fn, at, kids))
        BY <2>2, <3>1, <4>1 DEF HasItsShape, Node
      <4>4. count = 1 \/ count > 1
        BY <1>2, <2>1
      <4>5. fn \in Kind /\ fn \notin ReturnsLast
        BY <4>1 DEF Kind, ReturnsLast, PassesOn, Fn, script
      <4> QED
        BY <2>1, <3>1, <4>1, <4>2, <4>3, <4>4, <4>5
    <3> QED
      BY <3>2, <3>3
  <2> QED
    BY <1>3, <2>4, <2>5
<1>4. CASE fn \notin ReturnsLast \cup {"OrExpr", "AndExpr", "PrefixExpr"}
  <2>1. fn \in {"BoolExpr", "NumberExpr", "VarExpr", "FnCallExpr", "VarDecl", "IfSt",
                "ReturnSt", "AssignSt", "Block", "FnParam", "FnDef",
                "TopLevelDeclarations"}
    BY <1>1, <1>4 DEF ReturnsLast, PassesOn, TriesAlternatives, Fn, script
  <2>2. fn \in Yields(fn) \cap Kind
    BY <2>1 DEF Yields, Kind, Expressions, Statements
  <2>3. HasItsShape(Node(fn, at, kids))
    <3>1. CASE fn \in {"BoolExpr", "NumberExpr", "VarExpr", "FnCallExpr", "FnParam"}
      BY <3>1 DEF HasItsShape, Node, Fits, AreOf
    <3>2. CASE fn \in {"VarDecl", "ReturnSt"}
      BY <1>2, <3>2 DEF HasItsShape, Node, Fits
    <3>3. CASE fn \in {"AssignSt", "Block"}
      BY <1>1, <1>2, <3>3 DEF HasItsShape, Node, Fits, HasKept
    <3>4. CASE fn = "IfSt"
      <4>1. pc >= 8
        BY <1>1, <3>4 DEF HasKept
      <4>2. /\ count > 0 => AreOf(kids, 1, 1, Expressions)
            /\ count > 1 => AreOf(kids, 2, 2, {"Block"})
            /\ AreOf(kids, 3, count, Statements)
            /\ IF pc <= 3 THEN count = 0 ELSE IF pc <= 5 THEN count = 1
               ELSE IF pc <= 7 THEN count = 2 ELSE count \in {2, 3}
        BY <3>4 DEF Fits
      <4> HIDE DEF count
      <4>3. count \in {2, 3} /\ count > 0 /\ count > 1
        BY <1>2, <4>1, <4>2
      <4> USE DEF count
      <4> QED
        BY <3>4, <4>2, <4>3 DEF HasItsShape, Node
    <3>5. CASE fn = "FnDef"
      <4>1. pc >= 11
        BY <1>1, <3>5 DEF HasKept
      <4>2. /\ count > 0
            /\ AreOf(kids, 1, count - 1, {"FnParam"})
            /\ AreOf(kids, count, count, {"Block"})
        BY <1>2, <3>5, <4>1 DEF Fits
      <4> QED
        BY <3>5, <4>2 DEF HasItsShape, Node
    <3>6. CASE fn = "TopLevelDeclarations"
      BY <1>1, <1>2, <3>6 DEF HasItsShape, Node, Fits, HasKept
    <3> QED
      BY <2>1, <3>1, <3>2, <3>3, <3>4, <3>5, <3>6
  <2> QED
    BY <1>4, <2>1, <2>2, <2>3
<1> QED
  BY <1>3, <1>4

LEMMA Combines ==
  ASSUME NEW S, NEW kids \in Seq(S), Fits("BinOpRhsExpr", 4, kids), NEW at
  PROVE  /\ HasItsShape(Node("BinExpr", at, kids))
         /\ Fits("BinOpRhsExpr", 5, <<Node("BinExpr", at, kids)>>)
<1>1. Len(kids) = 2 /\ AreOf(kids, 1, 2, Expressions)
  BY DEF Fits
<1>2. HasItsShape(Node("BinExpr", at, kids))
  BY <1>1 DEF HasItsShape, Node
<1>3. AreOf(<<Node("BinExpr", at, kids)>>, 1, 1, Expressions)
  BY DEF AreOf, Node, Expressions
<1>4. Len(<<Node("BinExpr", at, kids)>>) = 1
  OBVIOUS
<1> QED
  BY <1>2, <1>3, <1>4 DEF Fits

-----------------------------------------------------------------------------
(* The invariant.  S is a set of nodes the parser has built, with all their   *)
(* children in it: it grows while the parser runs, and what is said of the    *)
(* nodes in S is so said of trees of every depth.                             *)

Built(S, size) ==
  \A n \in S :
    /\ n \in [kind : Kind \ {"Empty", "Nothing"}, at : 0 .. size - 1,
              kids : Seq(S), parens : Nat]
    /\ HasItsShape(n)

Frames(S, size) ==
  {f \in [fn : Fn, pc : Nat, mark : 0 .. size - 1, at : Int, kids : Seq(S)] :
     /\ f.pc \in Steps(f.fn)
     /\ f.at \in f.mark - 1 .. size - 2}

\* A function is at its step with the cursor at p.
Placed(f, p) ==
  /\ f.mark <= p
  /\ f.at < p
  /\ AtStart(f.fn, f.pc) => p = f.mark
  /\ Moved(f.fn, f.pc) => f.mark < p
  /\ HasSkipped(f.fn, f.pc) => f.mark <= f.at

Active(f, p) == Placed(f, p) /\ Fits(f.fn, f.pc, f.kids)

Calls == {"call", "alt"} \cup Hands
Callee(f) == stepAt(f.fn, f.pc).fn

\* A function has called another one at p, and may have handed a node over.
Waiting(S, f, p) ==
  /\ stepAt(f.fn, f.pc).op \in Calls
  /\ Placed(f, p)
  /\ IF stepAt(f.fn, f.pc).op \in Hands
       THEN \E n \in S : Fits(f.fn, f.pc, Append(f.kids, n))
       ELSE Fits(f.fn, f.pc, f.kids)

\* The function of the frame f has been called by nobody, or by that of g.
CalledFirst(f) == f.fn = Start /\ f.mark = 0
CalledBy(S, f, g) == Waiting(S, g, f.mark) /\ Callee(g) = f.fn

Called(S, s) ==
  \A k \in 1 .. Len(s) : IF k = Len(s) THEN CalledFirst(s[k])
                          ELSE CalledBy(S, s[k], s[k + 1])

\* What fn, called at p, has returned with the cursor at q.
Outcome(S, fn, n, p, q) ==
  IF n = EmptyNode THEN q = p
  ELSE /\ n \in S
       /\ n.kind \in Yields(fn)
       /\ p < q \/ (fn = "BinOpRhsExpr" /\ p = q)

\* The function at the top goes on, or is returned a node by the one it called.
Ready(s, p) == s # <<>> /\ Active(s[1], p)

Answered(S, s, n, q) ==
  IF s = <<>> THEN Outcome(S, Start, n, 0, q)
  ELSE \E p \in 0 .. q : Waiting(S, s[1], p) /\ Outcome(S, Callee(s[1]), n, p, q)

Types(S) ==
  /\ Built(S, Size)
  /\ tokens \in Inputs
  /\ exposed \in BOOLEAN
  /\ cursor \in 0 .. Size - 1
  /\ stack \in Seq(Frames(S, Size))
  /\ ret \in S \cup {EmptyNode, Nothing}
  /\ status \in {"running", "returned", "syntax_error", "assert_failed",
                 "uncaught"}

Holds(S) ==
  /\ Types(S)
  /\ status = "running" =>
       /\ Called(S, stack)
       /\ IF ret = Nothing THEN Ready(stack, cursor)
          ELSE Answered(S, stack, ret, cursor)
  /\ status = "returned" => Outcome(S, Start, ret, 0, cursor)

IInv == \E S : Holds(S)

-----------------------------------------------------------------------------
(* The stack. *)

LEMMA Cons ==
  ASSUME NEW F, NEW f \in F, NEW t \in Seq(F)
  PROVE  LET s == <<f>> \o t
         IN  /\ s \in Seq(F) /\ s # <<>>
             /\ Head(s) = f /\ s[1] = f /\ Tail(s) = t
             /\ Len(t) \in Nat /\ Len(s) = Len(t) + 1
             /\ \A k \in 1 .. Len(t) : s[k + 1] = t[k]
<1> DEFINE s == <<f>> \o t
<1>1. <<f>> \in Seq(F) /\ Len(<<f>>) = 1
  OBVIOUS
<1>2. /\ s \in Seq(F) /\ Len(s) = 1 + Len(t) /\ Len(t) \in Nat
      /\ \A k \in 1 .. Len(s) : s[k] = IF k <= 1 THEN <<f>>[k] ELSE t[k - 1]
  BY <1>1, ConcatProperties, LenProperties
<1>3. s # <<>> /\ s[1] = f
  BY <1>2
<1>4. \A k \in 1 .. Len(t) : s[k + 1] = t[k]
  BY <1>2
<1>5. Head(s) = f /\ Tail(s) = t
  BY <1>2, <1>3, <1>4, HeadTailProperties, SeqEqual
<1> QED
  BY <1>2, <1>3, <1>4, <1>5

LEMMA Uncons ==
  ASSUME NEW F, NEW s \in Seq(F), s # <<>>
  PROVE  /\ Head(s) \in F /\ s[1] = Head(s) /\ Tail(s) \in Seq(F)
         /\ s = <<Head(s)>> \o Tail(s)
<1>1. /\ Head(s) = s[1] /\ Head(s) \in F /\ Tail(s) \in Seq(F)
      /\ Len(Tail(s)) = Len(s) - 1
      /\ \A k \in 1 .. Len(Tail(s)) : Tail(s)[k] = s[k + 1]
  BY HeadTailProperties
<1>2. s = <<Head(s)>> \o Tail(s)
  BY <1>1, SeqEqual, ConcatProperties
<1> QED
  BY <1>1, <1>2

\* The stack is as it should be if what lies beneath its top is, and calls it.
Beneath(S, t, f) ==
  IF t = <<>> THEN CalledFirst(f) ELSE CalledBy(S, f, t[1]) /\ Called(S, t)

LEMMA CalledCons ==
  ASSUME NEW S, NEW F, NEW f \in F, NEW t \in Seq(F)
  PROVE  Called(S, <<f>> \o t) <=> Beneath(S, t, f)
<1> DEFINE s == <<f>> \o t
           m == Len(t)
           Good(u, k, n) == IF k = n THEN CalledFirst(u[k])
                                     ELSE CalledBy(S, u[k], u[k + 1])
<1>1. /\ s[1] = f /\ m \in Nat /\ Len(s) = m + 1
      /\ \A k \in 1 .. m : s[k + 1] = t[k]
  BY Cons
<1>2. m = 0 <=> t = <<>>
  BY EmptySeq
<1>3. Called(S, s) <=> \A k \in 1 .. m + 1 : Good(s, k, m + 1)
  BY <1>1 DEF Called
<1>4. Called(S, t) <=> \A k \in 1 .. m : Good(t, k, m)
  BY DEF Called
<1>5. \A k \in 1 .. m : Good(s, k + 1, m + 1) <=> Good(t, k, m)
  <2> TAKE k \in 1 .. m
  <2>1. s[k + 1] = t[k] /\ (k # m => s[k + 1 + 1] = t[k + 1])
    BY <1>1
  <2>2. k + 1 = m + 1 <=> k = m
    BY <1>1
  <2> QED
    BY <2>1, <2>2
<1>6. Good(s, 1, m + 1) <=> IF m = 0 THEN CalledFirst(f) ELSE CalledBy(S, f, t[1])
  <2>1. m # 0 => s[1 + 1] = t[1]
    BY <1>1
  <2>2. 1 = m + 1 <=> m = 0
    BY <1>1
  <2> QED
    BY <1>1, <2>1, <2>2
<1>7. (\A k \in 1 .. m + 1 : Good(s, k, m + 1))
        <=> Good(s, 1, m + 1) /\ \A k \in 1 .. m : Good(s, k + 1, m + 1)
  <2> HIDE DEF Good, s, m
  <2>1. \A k \in 1 .. m + 1 : k = 1 \/ (k - 1 \in 1 .. m /\ k = k - 1 + 1)
    BY <1>1
  <2>2. \A k \in 1 .. m : k + 1 \in 1 .. m + 1
    BY <1>1
  <2>3. 1 \in 1 .. m + 1
    BY <1>1
  <2> QED
    BY <2>1, <2>2, <2>3
<1>8. (\A k \in 1 .. m : Good(s, k + 1, m + 1)) <=> (\A k \in 1 .. m : Good(t, k, m))
  BY <1>5
<1>9. m = 0 => Called(S, t)
  BY <1>1, <1>4
<1> HIDE DEF Good, s, m
<1>10. Called(S, s) <=> Beneath(S, t, f)
  BY <1>2, <1>3, <1>4, <1>6, <1>7, <1>8, <1>9 DEF Beneath
<1> QED
  BY <1>10 DEF s

LEMMA SeqGrows ==
  ASSUME NEW S, NEW T, S \subseteq T
  PROVE  Seq(S) \subseteq Seq(T)
BY SeqMonotonic

\* What is said of the stack stays true when the parser builds another node.
LEMMA Grows ==
  ASSUME NEW S, NEW T, S \subseteq T, NEW size
  PROVE  /\ Seq(Frames(S, size)) \subseteq Seq(Frames(T, size))
         /\ \A f, p : Waiting(S, f, p) => Waiting(T, f, p)
         /\ \A t, f : Beneath(S, t, f) => Beneath(T, t, f)
<1>1. Seq(S) \subseteq Seq(T)
  BY SeqGrows
<1>2. Frames(S, size) \subseteq Frames(T, size)
  BY <1>1 DEF Frames
<1>3. Seq(Frames(S, size)) \subseteq Seq(Frames(T, size))
  BY <1>2, SeqGrows
<1>4. \A f, p : Waiting(S, f, p) => Waiting(T, f, p)
  BY DEF Waiting
<1>5. \A f, g : CalledBy(S, f, g) => CalledBy(T, f, g)
  BY <1>4 DEF CalledBy
<1>6. \A t : Called(S, t) => Called(T, t)
  BY <1>5 DEF Called
<1> QED
  BY <1>3, <1>4, <1>5, <1>6 DEF Beneath

\* The set of what has been built may get another node.
LEMMA BuiltGrows ==
  ASSUME NEW S, NEW size \in Nat, Built(S, size), NEW n,
         n \in [kind : Kind \ {"Empty", "Nothing"}, at : 0 .. size - 1,
                kids : Seq(S), parens : Nat],
         HasItsShape(n)
  PROVE  Built(S \cup {n}, size)
<1>1. Seq(S) \subseteq Seq(S \cup {n})
  BY SeqGrows
<1>2. SUFFICES ASSUME NEW m \in S \cup {n}
               PROVE  /\ m \in [kind : Kind \ {"Empty", "Nothing"}, at : 0 .. size - 1,
                                kids : Seq(S \cup {n}), parens : Nat]
                      /\ HasItsShape(m)
  BY DEF Built
<1>3. m \in [kind : Kind \ {"Empty", "Nothing"}, at : 0 .. size - 1,
             kids : Seq(S), parens : Nat] /\ HasItsShape(m)
  BY DEF Built
<1> QED
  BY <1>1, <1>3

-----------------------------------------------------------------------------
(* What the actions have in common. *)

LEMMA TokensEnd ==
  ASSUME tokens \in Inputs
  PROVE  /\ Size \in Nat /\ Size > 0
         /\ \A k \in 0 .. Size - 1 : token(k) = "Eof" <=> k = Size - 1
<1> DEFINE n == Size
<1>1. tokens \in Seq(TokenId) /\ n > 0
  BY InputsAssumption DEF Size
<1>2. n \in Nat
  BY <1>1, LenProperties DEF Size
<1>3. \A k \in 1 .. n : tokens[k] = "Eof" <=> k = n
  BY InputsAssumption DEF Size
<1> HIDE DEF n
<1>4. \A k \in 0 .. n - 1 : k + 1 \in 1 .. n /\ (k + 1 = n <=> k = n - 1)
  BY <1>2
<1>5. \A k \in 0 .. n - 1 : token(k) = "Eof" <=> k = n - 1
  BY <1>3, <1>4 DEF token
<1> QED
  BY <1>1, <1>2, <1>5 DEF n

\* The frame at the top.
IsTop(S, f) ==
  /\ f \in Frames(S, Size)
  /\ f.fn \in Fn
  /\ f.pc \in Steps(f.fn)
  /\ f.mark \in 0 .. Size - 1
  /\ f.at \in f.mark - 1 .. Size - 2
  /\ f.kids \in Seq(S)
  /\ StepFacts(f.fn, f.pc)

LEMMA TopFacts ==
  ASSUME NEW S, Types(S), Called(S, stack), stack # <<>>
  PROVE  /\ IsTop(S, Top)
         /\ Top = stack[1]
         /\ step = stepAt(Top.fn, Top.pc)
         /\ Tail(stack) \in Seq(Frames(S, Size))
         /\ Beneath(S, Tail(stack), Top)
<1>1. stack \in Seq(Frames(S, Size))
  BY DEF Types
<1>2. /\ Top \in Frames(S, Size) /\ stack[1] = Top
      /\ Tail(stack) \in Seq(Frames(S, Size))
      /\ stack = <<Top>> \o Tail(stack)
  BY <1>1, Uncons DEF Top
<1>3. Beneath(S, Tail(stack), Top)
  BY <1>2, CalledCons
<1>4. IsTop(S, Top)
  BY <1>2, Script DEF Frames, IsTop
<1> QED
  BY <1>2, <1>3, <1>4 DEF step, stepAt

\* The function at the top goes on, perhaps with a node that was just built.
LEMMA Stays ==
  ASSUME NEW S, NEW T, S \subseteq T, Types(S), Built(T, Size),
         status = "running", stack # <<>>, Called(S, stack),
         NEW g \in Frames(T, Size), g.fn = Top.fn, g.mark = Top.mark,
         SetTop(g), cursor' \in 0 .. Size - 1, Active(g, cursor'),
         ret' = Nothing, UNCHANGED <<tokens, exposed, status>>
  PROVE  Holds(T)'
<1>1. /\ Tail(stack) \in Seq(Frames(T, Size))
      /\ Beneath(T, Tail(stack), Top)
  BY TopFacts, Grows
<1>2. Beneath(T, Tail(stack), g)
  BY <1>1 DEF Beneath, CalledFirst, CalledBy
<1>3. /\ Called(T, stack')
      /\ stack' \in Seq(Frames(T, Size))
      /\ stack'[1] = g /\ stack' # <<>>
  BY <1>1, <1>2, CalledCons, Cons DEF SetTop
<1>4. Size' = Size
  BY DEF Size
<1>5. Types(T)'
  BY <1>3, <1>4 DEF Types
<1>6. Ready(stack, cursor)'
  BY <1>3 DEF Ready
<1> QED
  BY <1>3, <1>5, <1>6 DEF Holds

\* It returns, and its caller has the outcome.
LEMMA Leaves ==
  ASSUME NEW S, NEW T, S \subseteq T, Types(S), Built(T, Size),
         status = "running", stack # <<>>, Called(S, stack),
         NEW n \in T \cup {EmptyNode}, Leave(n), cursor' \in 0 .. Size - 1,
         Top.mark <= cursor', Outcome(T, Top.fn, n, Top.mark, cursor'),
         UNCHANGED <<tokens, exposed, status>>
  PROVE  Holds(T)'
<1> DEFINE t == Tail(stack)
<1>1. /\ t \in Seq(Frames(T, Size))
      /\ Beneath(T, t, Top)
      /\ Top.mark \in 0 .. Size - 1
  BY TopFacts, Grows DEF IsTop
<1>2. n # Nothing
  BY DEF Built, EmptyNode, Nothing, Node
<1>3. Called(T, t)
  <2>1. CASE t = <<>>
    <3>1. Called(T, <<>>)
      BY DEF Called
    <3> QED
      BY <2>1, <3>1
  <2>2. CASE t # <<>>
    BY <1>1, <2>2 DEF Beneath
  <2> QED
    BY <2>1, <2>2
<1>4. Answered(T, t, n, cursor')
  <2>1. CASE t = <<>>
    BY <1>1, <2>1 DEF Beneath, CalledFirst, Answered
  <2>2. CASE t # <<>>
    <3>1. Waiting(T, t[1], Top.mark) /\ Callee(t[1]) = Top.fn
      BY <1>1, <2>2 DEF Beneath, CalledBy
    <3>2. Top.mark \in 0 .. cursor'
      BY <1>1, TokensEnd DEF Types
    <3> QED
      BY <2>2, <3>1, <3>2 DEF Answered
  <2> QED
    BY <2>1, <2>2
<1>5. stack' = t /\ ret' = n
  BY DEF Leave
<1>6. Size' = Size
  BY DEF Size
<1>7. Types(T)'
  BY <1>1, <1>5, <1>6 DEF Types
<1> QED
  BY <1>2, <1>3, <1>4, <1>5, <1>7 DEF Holds

\* It calls another function.
LEMMA Pushes ==
  ASSUME NEW S, Types(S), status = "running", stack # <<>>, Called(S, stack),
         NEW g \in Frames(S, Size), g.fn = Top.fn, g.mark = Top.mark,
         NEW f \in Frames(S, Size), CalledBy(S, f, g), Active(f, cursor),
         stack' = <<f, g>> \o Tail(stack),
         UNCHANGED <<tokens, exposed, status, cursor>>, ret' = Nothing
  PROVE  Holds(S)'
<1> DEFINE t == Tail(stack)
           u == <<g>> \o t
<1>1. t \in Seq(Frames(S, Size)) /\ Beneath(S, t, Top)
  BY TopFacts
<1>2. Beneath(S, t, g)
  BY <1>1 DEF Beneath, CalledFirst, CalledBy
<1>3. /\ Called(S, u) /\ u \in Seq(Frames(S, Size))
      /\ u[1] = g /\ u # <<>>
  BY <1>1, <1>2, CalledCons, Cons
<1>4. Beneath(S, u, f)
  BY <1>3 DEF Beneath
<1>5. stack' = <<f>> \o u
  <2>1. <<f>> \in Seq(Frames(S, Size)) /\ <<g>> \in Seq(Frames(S, Size))
    OBVIOUS
  <2>2. <<f, g>> = <<f>> \o <<g>>
    OBVIOUS
  <2> QED
    BY <1>1, <2>1, <2>2, ConcatAssociative
<1> HIDE DEF u
<1>6. /\ Called(S, stack') /\ stack' \in Seq(Frames(S, Size))
      /\ stack'[1] = f /\ stack' # <<>>
  <2>1. Called(S, <<f>> \o u)
    BY <1>3, <1>4, CalledCons
  <2>2. <<f>> \o u \in Seq(Frames(S, Size)) /\ <<f>> \o u # <<>> /\ (<<f>> \o u)[1] = f
    BY <1>3, Cons
  <2> QED
    BY <1>5, <2>1, <2>2
<1>7. Size' = Size
  BY DEF Size
<1>8. Types(S)'
  BY <1>6, <1>7 DEF Types
<1>9. Ready(stack, cursor)'
  BY <1>6 DEF Ready
<1> QED
  BY <1>6, <1>8, <1>9 DEF Holds

\* It fails for good.
LEMMA Stops ==
  ASSUME NEW S, Types(S), NEW m \in Int, m >= 0, Fatal(m), ret' = Nothing,
         UNCHANGED <<tokens, exposed>>
  PROVE  Holds(S)'
<1>1. cursor' \in 0 .. Size - 1
  <2>1. Size \in Nat
    BY TokensEnd DEF Types
  <2>2. cursor \in 0 .. Size - 1 /\ cursor' = (IF m >= Size THEN cursor ELSE m)
    BY DEF Types, Fatal
  <2> QED
    BY <2>1, <2>2
<1>2. status' \in {"syntax_error", "assert_failed", "uncaught"}
  BY DEF Fatal
<1>3. Size' = Size /\ stack' = stack
  BY DEF Size, Fatal
<1>4. Types(S)'
  BY <1>1, <1>2, <1>3 DEF Types
<1> QED
  BY <1>2, <1>4 DEF Holds

\* The function at the top goes on at another step without having read on.
LEMMA GoesTo ==
  ASSUME NEW S, Types(S), status = "running", stack # <<>>, Called(S, stack),
         Active(Top, cursor), NEW pc, GoesOn(Top.fn, Top.pc, pc),
         Fits(Top.fn, pc, Top.kids), GoTo(pc), ret' = Nothing,
         UNCHANGED <<tokens, exposed, cursor, status>>
  PROVE  Holds(S)'
<1> DEFINE g == [Top EXCEPT !.pc = pc]
<1>1. IsTop(S, Top)
  BY TopFacts
<1>2. g \in Frames(S, Size) /\ g.fn = Top.fn /\ g.mark = Top.mark
  BY <1>1 DEF IsTop, Frames, GoesOn, Steps
<1>3. Active(g, cursor)
  BY <1>1 DEF Active, Placed, GoesOn, IsTop, Frames
<1>4. SetTop(g) /\ cursor' \in 0 .. Size - 1 /\ Built(S, Size)
  BY DEF GoTo, Types
<1> HIDE DEF g
<1> QED
  BY <1>2, <1>3, <1>4, Stays

\* A token or a node was not what the function at the top expected there.
LEMMA Failing ==
  ASSUME NEW S, Types(S), status = "running", stack # <<>>, Called(S, stack),
         Active(Top, cursor), NEW cur \in {cursor, cursor + 1}, Fail(cur),
         step.fail = "goto" =>
           GoesOn(Top.fn, Top.pc, step.other) /\ Fits(Top.fn, step.other, Top.kids),
         UNCHANGED <<tokens, exposed>>
  PROVE  Holds(S)'
<1>1. IsTop(S, Top) /\ step = stepAt(Top.fn, Top.pc)
  BY TopFacts
<1>2. Size \in Nat /\ cursor \in 0 .. Size - 1
  BY TokensEnd DEF Types
<1>3. CASE /\ step.fail = "reset" /\ cursor' = Top.mark
           /\ Leave(EmptyNode) /\ UNCHANGED status
  <2>1. Outcome(S, Top.fn, EmptyNode, Top.mark, cursor')
    BY <1>3 DEF Outcome
  <2>2. Built(S, Size) /\ cursor' \in 0 .. Size - 1 /\ Top.mark <= cursor'
    BY <1>1, <1>2, <1>3 DEF Types, IsTop
  <2> QED
    BY <1>3, <2>1, <2>2, Leaves
<1>4. CASE /\ step.fail = "goto" /\ GoTo(step.other) /\ ret' = Nothing
           /\ UNCHANGED <<cursor, status>>
  BY <1>4, GoesTo
<1>5. CASE step.fail \in {"mark", "prev", "here", "comma"} /\ Fatal(reported(cur))
  <2>1. step.fail = "comma" => Top.mark <= Top.at
    BY <1>1 DEF Active, Placed, HasSkipped
  <2>2. reported(cur) \in Int /\ reported(cur) >= 0
    BY <1>1, <1>2, <1>5, <2>1 DEF reported, IsTop
  <2> QED
    BY <1>5, <2>2, Stops DEF Fatal
<1> QED
  BY <1>3, <1>4, <1>5 DEF Fail

-----------------------------------------------------------------------------
(* The actions. *)

\* The function at the top is at a step of its own.
LEMMA AtFacts ==
  ASSUME NEW S, Holds(S), NEW op, At(op)
  PROVE  /\ Types(S) /\ status = "running" /\ stack # <<>> /\ Called(S, stack)
         /\ Active(Top, cursor) /\ IsTop(S, Top)
         /\ step = stepAt(Top.fn, Top.pc) /\ step.op = op
         /\ Placed(Top, cursor) /\ Fits(Top.fn, Top.pc, Top.kids)
         /\ Built(S, Size) /\ Size \in Nat /\ cursor \in 0 .. Size - 1
         /\ UNCHANGED <<tokens, exposed>>
<1>1. /\ Types(S) /\ status = "running" /\ stack # <<>> /\ Called(S, stack)
      /\ Ready(stack, cursor) /\ step.op = op /\ UNCHANGED <<tokens, exposed>>
  BY DEF Holds, At
<1>2. Size \in Nat
  BY <1>1, TokensEnd DEF Types
<1> QED
  BY <1>1, <1>2, TopFacts DEF Ready, Active, Types

\* The function at the top is returned a node by the one it has called.
LEMMA ResumeFacts ==
  ASSUME NEW S, Holds(S), Resume
  PROVE  /\ Types(S) /\ status = "running" /\ stack # <<>> /\ Called(S, stack)
         /\ IsTop(S, Top) /\ step = stepAt(Top.fn, Top.pc)
         /\ \E p \in 0 .. cursor :
              Waiting(S, Top, p) /\ Outcome(S, step.fn, ret, p, cursor)
         /\ Built(S, Size) /\ Size \in Nat /\ cursor \in 0 .. Size - 1
         /\ UNCHANGED <<tokens, exposed>>
<1>1. /\ Types(S) /\ status = "running" /\ stack # <<>> /\ Called(S, stack)
      /\ Answered(S, stack, ret, cursor) /\ UNCHANGED <<tokens, exposed>>
  BY DEF Holds, Resume
<1>2. Size \in Nat
  BY <1>1, TokensEnd DEF Types
<1>3. IsTop(S, Top) /\ step = stepAt(Top.fn, Top.pc) /\ Top = stack[1]
  BY <1>1, TopFacts
<1>4. \E p \in 0 .. cursor :
        Waiting(S, Top, p) /\ Outcome(S, step.fn, ret, p, cursor)
  BY <1>1, <1>3 DEF Answered, Callee
<1> QED
  BY <1>1, <1>2, <1>3, <1>4 DEF Types

\* A token that is not Eof is not the last one.
LEMMA NotAtEnd ==
  ASSUME tokens \in Inputs, cursor \in 0 .. Size - 1, NEW kinds,
         "Eof" \notin kinds, token(cursor) \in kinds
  PROVE  cursor + 1 \in 0 .. Size - 1
<1>1. Size \in Nat /\ cursor # Size - 1
  BY TokensEnd
<1> QED
  BY <1>1

LEMMA KeepsOn ==
  ASSUME NEW S, IsTop(S, Top), Fits(Top.fn, Top.pc, Top.kids),
         step = stepAt(Top.fn, Top.pc)
  PROVE  /\ step.op \in {"take", "peek", "when", "climb", "alt"} =>
              Fits(Top.fn, Top.pc + 1, Top.kids)
         /\ step.op = "jump" \/ step.fail = "goto" =>
              Fits(Top.fn, step.other, Top.kids)
<1> DEFINE T == S \cup {EmptyNode}
<1>1. Top.kids \in Seq(T) /\ EmptyNode \in T
  BY SeqGrows DEF IsTop
<1> HIDE DEF T
<1>2. KeepsFacts(Top.fn, Top.pc, Top.kids, EmptyNode)
  BY <1>1, Keeps DEF IsTop
<1> QED
  BY <1>2 DEF KeepsFacts

\* A frame that goes on with other nodes, or has skipped a token.
Continued(f, pc, kids) == [f EXCEPT !.pc = pc, !.kids = kids]
Past(f, pc, at) == [f EXCEPT !.pc = pc, !.at = at]

LEMMA ContinuedIsFrame ==
  ASSUME NEW S, NEW T, S \subseteq T, NEW size, NEW f \in Frames(S, size),
         NEW pc \in Steps(f.fn), NEW kids \in Seq(T)
  PROVE  \A g : g = Continued(f, pc, kids) =>
           /\ g \in Frames(T, size) /\ g.fn = f.fn /\ g.pc = pc
           /\ g.mark = f.mark /\ g.at = f.at /\ g.kids = kids
<1> DEFINE g == Continued(f, pc, kids)
<1>1. /\ f \in [fn : Fn, pc : Nat, mark : 0 .. size - 1, at : Int, kids : Seq(T)]
      /\ f.at \in f.mark - 1 .. size - 2 /\ pc \in Nat
  BY SeqGrows DEF Frames, Steps
<1>2. /\ g \in [fn : Fn, pc : Nat, mark : 0 .. size - 1, at : Int, kids : Seq(T)]
      /\ g.fn = f.fn /\ g.pc = pc /\ g.mark = f.mark /\ g.at = f.at /\ g.kids = kids
  BY <1>1 DEF Continued
<1> HIDE DEF g
<1>3. g \in Frames(T, size)
  BY <1>1, <1>2 DEF Frames
<1> QED
  BY <1>2, <1>3 DEF g

LEMMA PastIsFrame ==
  ASSUME NEW S, NEW size, NEW f \in Frames(S, size), NEW pc \in Steps(f.fn),
         NEW at \in f.mark - 1 .. size - 2, at \in Int
  PROVE  LET g == Past(f, pc, at)
         IN  /\ g \in Frames(S, size) /\ g.fn = f.fn /\ g.pc = pc
             /\ g.mark = f.mark /\ g.at = at /\ g.kids = f.kids
<1> DEFINE g == Past(f, pc, at)
<1>1. /\ f \in [fn : Fn, pc : Nat, mark : 0 .. size - 1, at : Int, kids : Seq(S)]
      /\ pc \in Nat
  BY DEF Frames, Steps
<1>2. /\ g \in [fn : Fn, pc : Nat, mark : 0 .. size - 1, at : Int, kids : Seq(S)]
      /\ g.fn = f.fn /\ g.pc = pc /\ g.mark = f.mark /\ g.at = at /\ g.kids = f.kids
  BY <1>1 DEF Past
<1> HIDE DEF g
<1>3. g \in Frames(S, size)
  BY <1>2 DEF Frames
<1> QED
  BY <1>2, <1>3 DEF g

LEMMA TakeTokenStep ==
  ASSUME NEW S, Holds(S), TakeToken
  PROVE  Holds(S)'
<1> DEFINE g == [Top EXCEPT !.pc = Top.pc + 1]
<1>1. At("take")
  BY DEF TakeToken
<1>2. /\ Types(S) /\ status = "running" /\ stack # <<>> /\ Called(S, stack)
      /\ IsTop(S, Top) /\ step = stepAt(Top.fn, Top.pc) /\ step.op = "take"
      /\ Placed(Top, cursor) /\ Fits(Top.fn, Top.pc, Top.kids)
      /\ tokens \in Inputs /\ cursor \in 0 .. Size - 1 /\ Built(S, Size)
      /\ UNCHANGED <<tokens, exposed>>
  BY <1>1, AtFacts DEF Types
<1>3. /\ "Eof" \notin step.kinds
      /\ Consumes(Top.fn, Top.pc)
      /\ HasSkipped(Top.fn, Top.pc + 1) => HasSkipped(Top.fn, Top.pc)
  BY <1>2 DEF IsTop, StepFacts
<1>4. cursor' = cursor + 1 /\ cursor + 1 \in 0 .. Size - 1
  BY <1>2, <1>3, NotAtEnd DEF TakeToken
<1>5. Fits(Top.fn, Top.pc + 1, Top.kids)
  BY <1>2, KeepsOn
<1>6. g \in Frames(S, Size) /\ g.fn = Top.fn /\ g.mark = Top.mark
  BY <1>2, <1>3 DEF IsTop, Frames, Consumes, Steps
<1>7. Active(g, cursor')
  BY <1>2, <1>3, <1>4, <1>5 DEF Active, Placed, Consumes, IsTop, Frames
<1>8. SetTop(g) /\ ret' = Nothing /\ UNCHANGED status
  BY DEF TakeToken, Proceed, GoTo, At
<1> HIDE DEF g
<1> QED
  BY <1>2, <1>4, <1>6, <1>7, <1>8, Stays

LEMMA SkipTokenStep ==
  ASSUME NEW S, Holds(S), SkipToken
  PROVE  Holds(S)'
<1> DEFINE g == Past(Top, Top.pc + 1, cursor)
<1>1. At("when")
  BY DEF SkipToken
<1>2. /\ Types(S) /\ status = "running" /\ stack # <<>> /\ Called(S, stack)
      /\ IsTop(S, Top) /\ step = stepAt(Top.fn, Top.pc) /\ step.op = "when"
      /\ Placed(Top, cursor) /\ Fits(Top.fn, Top.pc, Top.kids)
      /\ tokens \in Inputs /\ cursor \in 0 .. Size - 1 /\ Built(S, Size)
      /\ UNCHANGED <<tokens, exposed>> /\ Size \in Nat
  BY <1>1, AtFacts DEF Types
<1>3. "Eof" \notin step.kinds /\ Consumes(Top.fn, Top.pc)
  BY <1>2 DEF IsTop, StepFacts
<1>4. cursor' = cursor + 1 /\ cursor + 1 \in 0 .. Size - 1
  BY <1>2, <1>3, NotAtEnd DEF SkipToken
<1>5. Fits(Top.fn, Top.pc + 1, Top.kids)
  BY <1>2, KeepsOn
<1>6. Top.mark <= cursor /\ cursor \in Top.mark - 1 .. Size - 2 /\ cursor \in Int
  BY <1>2, <1>4 DEF Placed, IsTop
<1>7. /\ g \in Frames(S, Size) /\ g.fn = Top.fn /\ g.pc = Top.pc + 1
      /\ g.mark = Top.mark /\ g.at = cursor /\ g.kids = Top.kids
  <2>1. Top.pc + 1 \in Steps(Top.fn) /\ Top \in Frames(S, Size)
    BY <1>2, <1>3 DEF Consumes, IsTop
  <2> QED
    BY <1>2, <1>6, <2>1, PastIsFrame
<1> HIDE DEF g
<1>8. Active(g, cursor')
  BY <1>2, <1>3, <1>4, <1>5, <1>6, <1>7 DEF Active, Placed, Consumes, IsTop
<1>9. SetTop(g) /\ ret' = Nothing /\ UNCHANGED status
  BY DEF SkipToken, At, g, Past
<1> QED
  BY <1>2, <1>4, <1>7, <1>8, <1>9, Stays

LEMMA RefuseTokenStep ==
  ASSUME NEW S, Holds(S), RefuseToken
  PROVE  Holds(S)'
<1>1. At("take") /\ Fail(cursor + 1)
  BY DEF RefuseToken
<1>2. step.fail # "goto"
  BY <1>1, AtFacts DEF IsTop, StepFacts
<1> QED
  BY <1>1, <1>2, AtFacts, Failing

LEMMA PeekStep ==
  ASSUME NEW S, Holds(S), PeekToken \/ PeekOther
  PROVE  Holds(S)'
<1>1. At("peek")
  BY DEF PeekToken, PeekOther
<1>2. step.fail # "goto" /\ GoesOn(Top.fn, Top.pc, Top.pc + 1)
  BY <1>1, AtFacts DEF IsTop, StepFacts
<1>3. CASE PeekToken
  <2>1. Fits(Top.fn, Top.pc + 1, Top.kids)
    BY <1>1, AtFacts, KeepsOn
  <2> QED
    BY <1>1, <1>2, <1>3, <2>1, AtFacts, GoesTo DEF PeekToken, Proceed, At
<1>4. CASE PeekOther
  BY <1>1, <1>2, <1>4, AtFacts, Failing DEF PeekOther
<1> QED
  BY <1>3, <1>4

LEMMA SkipNothingStep ==
  ASSUME NEW S, Holds(S), SkipNothing
  PROVE  Holds(S)'
<1>1. At("when") /\ Fail(cursor)
  BY DEF SkipNothing
<1>2. GoesOn(Top.fn, Top.pc, step.other)
  BY <1>1, AtFacts DEF IsTop, StepFacts
<1>3. step.fail = "goto" => Fits(Top.fn, step.other, Top.kids)
  BY <1>1, AtFacts, KeepsOn
<1> QED
  BY <1>1, <1>2, <1>3, AtFacts, Failing

LEMMA CallStep ==
  ASSUME NEW S, Holds(S), Call
  PROVE  Holds(S)'
<1> DEFINE f == Frame(step.fn, cursor, <<>>)
<1>1. PICK op \in {"call", "alt"} : At(op)
  BY DEF Call
<1>2. /\ Types(S) /\ status = "running" /\ stack # <<>> /\ Called(S, stack)
      /\ IsTop(S, Top) /\ step = stepAt(Top.fn, Top.pc) /\ step.op = op
      /\ Placed(Top, cursor) /\ Fits(Top.fn, Top.pc, Top.kids)
      /\ cursor \in 0 .. Size - 1 /\ Size \in Nat
      /\ UNCHANGED <<tokens, exposed>>
  BY <1>1, AtFacts
<1>3. step.fn \in Fn /\ step.fn # "BinOpRhsExpr"
  BY <1>1, <1>2 DEF IsTop, StepFacts
<1>4. /\ 1 \in Steps(step.fn) /\ ~Moved(step.fn, 1) /\ ~HasSkipped(step.fn, 1)
      /\ Fits(step.fn, 1, <<>>)
  BY <1>3, Begins
<1>5. f \in Frames(S, Size)
  BY <1>2, <1>3, <1>4 DEF Frame, Frames
<1>6. Active(f, cursor)
  BY <1>2, <1>4 DEF Frame, Active, Placed
<1>7. CalledBy(S, f, Top)
  BY <1>1, <1>2 DEF CalledBy, Waiting, Callee, Calls, Hands, Frame
<1>8. stack' = <<f, Top>> \o Tail(stack)
  <2>1. stack = <<Top>> \o Tail(stack) /\ Tail(stack) \in Seq(Frames(S, Size))
    BY <1>2, Uncons DEF Types, Top
  <2>2. <<f>> \in Seq(Frames(S, Size)) /\ <<Top>> \in Seq(Frames(S, Size))
    BY <1>2, <1>5 DEF IsTop
  <2>3. <<f, Top>> = <<f>> \o <<Top>>
    OBVIOUS
  <2>4. stack' = <<f>> \o stack
    BY DEF Call
  <2> HIDE DEF f
  <2> QED
    BY <2>1, <2>2, <2>3, <2>4, ConcatAssociative
<1>9. UNCHANGED <<status, cursor>> /\ ret' = Nothing
  BY <1>1 DEF Call, At
<1>10. Top \in Frames(S, Size)
  BY <1>2 DEF IsTop
<1> HIDE DEF f
<1> QED
  BY <1>2, <1>5, <1>6, <1>7, <1>8, <1>9, <1>10, Pushes

\* What is handed over can be put back.
LEMMA WithoutLast ==
  ASSUME NEW S, NEW kids \in Seq(S), Len(kids) > 0
  PROVE  /\ kids[Len(kids)] \in S
         /\ SubSeq(kids, 1, Len(kids) - 1) \in Seq(S)
         /\ Append(SubSeq(kids, 1, Len(kids) - 1), kids[Len(kids)]) = kids
         /\ Len(SubSeq(kids, 1, Len(kids) - 1)) = Len(kids) - 1
         /\ \A k \in 1 .. Len(kids) - 1 : SubSeq(kids, 1, Len(kids) - 1)[k] = kids[k]
<1> DEFINE n == Len(kids)
           front == SubSeq(kids, 1, n - 1)
           whole == Append(front, kids[n])
<1>1. n \in Nat /\ n > 0 /\ \A k \in 1 .. n : kids[k] \in S
  BY LenProperties, ElementOfSeq
<1>2. front \in Seq(S) /\ Len(front) = n - 1 /\ \A k \in 1 .. n - 1 : front[k] = kids[k]
  <2> HIDE DEF n
  <2>1. 1 \in Int /\ n - 1 \in Int /\ \A k \in 1 .. n - 1 : kids[k] \in S
    BY <1>1
  <2>2. /\ front \in Seq(S)
        /\ Len(front) = IF 1 <= n - 1 THEN n - 1 - 1 + 1 ELSE 0
        /\ \A k \in 1 .. n - 1 - 1 + 1 : front[k] = kids[1 + k - 1]
    BY <2>1, SubSeqProperties
  <2>3. (IF 1 <= n - 1 THEN n - 1 - 1 + 1 ELSE 0) = n - 1 /\ n - 1 - 1 + 1 = n - 1
    BY <1>1
  <2>4. \A k \in 1 .. n - 1 : 1 + k - 1 = k
    BY <1>1
  <2> QED
    BY <2>2, <2>3, <2>4
<1>3. kids[n] \in S
  BY <1>1
<1> HIDE DEF front
<1>4. /\ whole \in Seq(S) /\ Len(whole) = Len(front) + 1
      /\ \A k \in 1 .. Len(front) : whole[k] = front[k]
      /\ whole[Len(front) + 1] = kids[n]
  BY <1>2, <1>3, AppendProperties
<1> HIDE DEF whole, n
<1>5. /\ Len(whole) = n
      /\ \A k \in 1 .. n : whole[k] = kids[k]
  BY <1>1, <1>2, <1>4
<1>6. whole = kids
  BY <1>4, <1>5, SeqEqual DEF n
<1> QED
  BY <1>2, <1>3, <1>6 DEF whole, front, n

LEMMA HandOverStep ==
  ASSUME NEW S, Holds(S), CallWith \/ ClimbUp
  PROVE  Holds(S)'
<1> DEFINE last == Top.kids[Len(Top.kids)]
           front == SubSeq(Top.kids, 1, Len(Top.kids) - 1)
           f == Frame(step.fn, cursor, <<last>>)
           g == [Top EXCEPT !.kids = front]
<1>1. PICK op \in Hands : At(op)
  BY DEF CallWith, ClimbUp, Hands
<1>2. /\ Types(S) /\ status = "running" /\ stack # <<>> /\ Called(S, stack)
      /\ IsTop(S, Top) /\ step = stepAt(Top.fn, Top.pc) /\ step.op \in Hands
      /\ Placed(Top, cursor) /\ Fits(Top.fn, Top.pc, Top.kids)
      /\ cursor \in 0 .. Size - 1 /\ Size \in Nat
      /\ UNCHANGED <<tokens, exposed>>
  BY <1>1, AtFacts
<1>3. step.fn = "BinOpRhsExpr" /\ step.fn \in Fn
  BY <1>2 DEF IsTop, StepFacts, Fn, script
<1>4. 1 \in Steps(step.fn) /\ ~Moved(step.fn, 1) /\ ~HasSkipped(step.fn, 1)
  BY <1>3, Begins
<1>5. Len(Top.kids) > 0 /\ Fits(step.fn, 1, <<last>>)
  BY <1>2, <1>3, HandsOver DEF IsTop
<1>6. last \in S /\ front \in Seq(S) /\ Append(front, last) = Top.kids
  BY <1>2, <1>5, WithoutLast DEF IsTop
<1>7. stack' = <<f, g>> \o Tail(stack) /\ UNCHANGED <<status, cursor>> /\ ret' = Nothing
  BY <1>1 DEF CallWith, ClimbUp, HandOver, At
<1> HIDE DEF last, front
<1>8. f \in Frames(S, Size)
  BY <1>2, <1>3, <1>4, <1>6 DEF Frame, Frames
<1>9. Active(f, cursor)
  BY <1>2, <1>4, <1>5 DEF Frame, Active, Placed
<1>10. /\ g \in Frames(S, Size) /\ g.fn = Top.fn /\ g.mark = Top.mark
       /\ g.pc = Top.pc /\ g.at = Top.at /\ g.kids = front
  BY <1>2, <1>6 DEF IsTop, Frames
<1> HIDE DEF g
<1>11. Waiting(S, g, cursor)
  BY <1>2, <1>6, <1>10 DEF Waiting, Placed, Calls
<1>12. CalledBy(S, f, g)
  BY <1>2, <1>10, <1>11 DEF CalledBy, Callee, Frame
<1> HIDE DEF f
<1> QED
  BY <1>2, <1>7, <1>8, <1>9, <1>10, <1>12, Pushes

LEMMA StayLevelStep ==
  ASSUME NEW S, Holds(S), StayLevel
  PROVE  Holds(S)'
<1>1. At("climb") /\ GoTo(Top.pc + 1) /\ UNCHANGED <<cursor, ret, status>> /\ ret' = Nothing
  BY DEF StayLevel, Proceed, At
<1>2. GoesOn(Top.fn, Top.pc, Top.pc + 1)
  BY <1>1, AtFacts DEF IsTop, StepFacts, Hands
<1>3. Fits(Top.fn, Top.pc + 1, Top.kids)
  BY <1>1, AtFacts, KeepsOn
<1> QED
  BY <1>1, <1>2, <1>3, AtFacts, GoesTo

LEMMA JumpToStep ==
  ASSUME NEW S, Holds(S), JumpTo
  PROVE  Holds(S)'
<1>1. At("jump") /\ GoTo(step.other) /\ UNCHANGED <<cursor, ret, status>> /\ ret' = Nothing
  BY DEF JumpTo, At
<1>2. GoesOn(Top.fn, Top.pc, step.other)
  BY <1>1, AtFacts DEF IsTop, StepFacts
<1>3. Fits(Top.fn, step.other, Top.kids)
  BY <1>1, AtFacts, KeepsOn
<1> QED
  BY <1>1, <1>2, <1>3, AtFacts, GoesTo

LEMMA ReturnEmptyNodeStep ==
  ASSUME NEW S, Holds(S), ReturnEmptyNode
  PROVE  Holds(S)'
<1>1. At("empty") /\ Leave(EmptyNode) /\ UNCHANGED <<cursor, status>>
  BY DEF ReturnEmptyNode
<1>2. cursor = Top.mark
  BY <1>1, AtFacts DEF Placed, AtStart
<1>3. Outcome(S, Top.fn, EmptyNode, Top.mark, cursor')
  BY <1>1, <1>2 DEF Outcome
<1>4. cursor' \in 0 .. Size - 1 /\ Top.mark <= cursor' /\ Built(S, Size)
  BY <1>1, <1>2, AtFacts
<1> QED
  BY <1>1, <1>3, <1>4, AtFacts, Leaves

\* The new node joins the set of what has been built.
LEMMA CombineStep ==
  ASSUME NEW S, Holds(S), CombineOperands,
         NEW T, T = S \cup {Node("BinExpr", Top.at, Top.kids)}
  PROVE  Holds(T)'
<1> DEFINE n == Node("BinExpr", Top.at, Top.kids)
           kept == <<n>>
           g == Continued(Top, Top.pc + 1, kept)
<1>1. At("combine") /\ SetTop(g) /\ UNCHANGED <<cursor, ret, status>> /\ ret' = Nothing
  BY DEF CombineOperands, At, Continued
<1> HIDE DEF g
<1>2. /\ Types(S) /\ status = "running" /\ stack # <<>> /\ Called(S, stack)
      /\ IsTop(S, Top) /\ step = stepAt(Top.fn, Top.pc) /\ step.op = "combine"
      /\ Placed(Top, cursor) /\ Fits(Top.fn, Top.pc, Top.kids)
      /\ cursor \in 0 .. Size - 1 /\ Size \in Nat /\ Built(S, Size)
      /\ UNCHANGED <<tokens, exposed>>
  BY <1>1, AtFacts
<1>3. Top.fn = "BinOpRhsExpr" /\ Top.pc = 4 /\ GoesOn(Top.fn, Top.pc, Top.pc + 1)
  BY <1>2 DEF IsTop, StepFacts
<1>4. HasItsShape(n) /\ Fits(Top.fn, Top.pc + 1, <<n>>)
  BY <1>2, <1>3, Combines DEF IsTop
<1>5. n \in [kind : Kind \ {"Empty", "Nothing"}, at : 0 .. Size - 1,
             kids : Seq(S), parens : Nat]
  <2>1. Top.mark <= Top.at
    BY <1>2, <1>3 DEF Placed, HasSkipped
  <2>2. Top.at \in 0 .. Size - 1
    BY <1>2, <2>1 DEF IsTop
  <2>3. "BinExpr" \in Kind
    BY DEF Kind
  <2> QED
    BY <1>2, <2>2, <2>3 DEF Node, IsTop
<1>6. T = S \cup {n}
  OBVIOUS
<1> HIDE DEF n
<1>7. Built(T, Size) /\ S \subseteq T /\ kept \in Seq(T)
  BY <1>2, <1>4, <1>5, <1>6, BuiltGrows
<1> HIDE DEF kept
<1>8. /\ g \in Frames(T, Size) /\ g.fn = Top.fn /\ g.pc = Top.pc + 1
      /\ g.mark = Top.mark /\ g.at = Top.at /\ g.kids = kept
  <2> DEFINE pc == Top.pc + 1
  <2>1. pc \in Steps(Top.fn) /\ Top \in Frames(S, Size)
    BY <1>2, <1>3 DEF GoesOn, IsTop
  <2>2. g = Continued(Top, pc, kept)
    BY DEF g
  <2> HIDE DEF pc
  <2>3. /\ g \in Frames(T, Size) /\ g.fn = Top.fn /\ g.pc = pc
        /\ g.mark = Top.mark /\ g.at = Top.at /\ g.kids = kept
    BY <1>7, <2>1, <2>2, ContinuedIsFrame
  <2> QED
    BY <2>3 DEF pc
<1>9. Active(g, cursor')
  BY <1>1, <1>2, <1>3, <1>4, <1>8 DEF Active, Placed, GoesOn, IsTop, kept
<1>10. cursor' \in 0 .. Size - 1 /\ UNCHANGED <<tokens, exposed, status>>
  BY <1>1, <1>2
<1> QED
  BY <1>1, <1>2, <1>7, <1>8, <1>9, <1>10, Stays

\* A node that a function may return, all of its children known.
MayReturn(S, fn, n) ==
  /\ n \in [kind : Kind \ {"Empty", "Nothing"}, at : 0 .. Size - 1,
            kids : Seq(S), parens : Nat]
  /\ HasItsShape(n)
  /\ n.kind \in Yields(fn)

LEMMA Results ==
  ASSUME NEW S, Holds(S), At("return")
  PROVE  /\ MayReturn(S, Top.fn, result)
         /\ Top.mark <= cursor
         /\ Top.mark < cursor \/ (Top.fn = "BinOpRhsExpr" /\ Top.mark = cursor)
<1> DEFINE count == Len(Top.kids)
           last == Top.kids[count]
           Shaped(n) == MayReturn(S, Top.fn, n)
<1>1. /\ IsTop(S, Top) /\ stepAt(Top.fn, Top.pc).op = "return"
      /\ Placed(Top, cursor) /\ Fits(Top.fn, Top.pc, Top.kids)
      /\ cursor \in 0 .. Size - 1 /\ Size \in Nat /\ Built(S, Size)
  BY AtFacts
<1>2. IF \/ Top.fn \in ReturnsLast
         \/ Top.fn \in {"OrExpr", "AndExpr"} /\ count = 1
        THEN count > 0 /\ last.kind \in Yields(Top.fn)
        ELSE /\ Top.fn \in Yields(Top.fn) \cap Kind
             /\ Top.fn \notin {"Empty", "Nothing"}
             /\ Top.fn = "PrefixExpr" => count > 0 /\ last.kind \in Yields(Top.fn)
             /\ HasItsShape(Node(Top.fn, Top.mark, Top.kids))
  BY <1>1, Returns DEF IsTop
<1>3. count > 0 => last \in S
  BY <1>1, WithoutLast DEF IsTop
<1>4. count > 0 /\ last.kind \in Yields(Top.fn) => Shaped(last)
  BY <1>1, <1>3 DEF Built, MayReturn
<1>5. Shaped(last) => Shaped([last EXCEPT !.parens = @ + 1])
  BY DEF HasItsShape, MayReturn
<1>6. /\ Top.fn \in Yields(Top.fn) \cap Kind
      /\ Top.fn \notin {"Empty", "Nothing"}
      /\ HasItsShape(Node(Top.fn, Top.mark, Top.kids))
      => Shaped(Node(Top.fn, Top.mark, Top.kids))
  BY <1>1 DEF IsTop, Node, MayReturn
<1>7. Shaped(result)
  <2>1. CASE Top.fn = "GroupedExpr"
    <3>1. Shaped([last EXCEPT !.parens = @ + 1])
      <4> HIDE DEF Shaped, last, count
      <4> QED
        BY <1>2, <1>4, <1>5, <2>1 DEF ReturnsLast
    <3>2. result = [last EXCEPT !.parens = @ + 1]
      BY <2>1 DEF result, PassesOn
    <3> QED
      BY <3>1, <3>2
  <2>2. CASE /\ Top.fn # "GroupedExpr"
             /\ \/ Top.fn \in PassesOn
                \/ Top.fn \in {"OrExpr", "AndExpr"} /\ count = 1
                \/ Top.fn = "PrefixExpr" /\ Top.at < Top.mark
    <3>1. result = last
      BY <2>2 DEF result
    <3>2. Shaped(last)
      <4> HIDE DEF Shaped, last, count
      <4>1. Top.fn = "PrefixExpr" => Top.fn \notin ReturnsLast
        BY DEF ReturnsLast, PassesOn
      <4> QED
        BY <1>2, <1>4, <2>2, <4>1 DEF ReturnsLast
    <3> HIDE DEF last
    <3> QED
      BY <3>1, <3>2
  <2>3. CASE ~ \/ Top.fn = "GroupedExpr"
               \/ Top.fn \in PassesOn
               \/ Top.fn \in {"OrExpr", "AndExpr"} /\ count = 1
               \/ Top.fn = "PrefixExpr" /\ Top.at < Top.mark
    <3>1. result = Node(Top.fn, Top.mark, Top.kids)
      BY <2>3 DEF result
    <3> HIDE DEF Shaped, last, count
    <3> QED
      BY <1>2, <1>6, <2>3, <3>1 DEF ReturnsLast
  <2> QED
    BY <2>1, <2>2, <2>3
<1>8. Moved(Top.fn, Top.pc) \/ Top.fn = "BinOpRhsExpr"
  BY <1>1 DEF IsTop, StepFacts
<1>9. /\ Top.mark <= cursor
      /\ Top.mark < cursor \/ (Top.fn = "BinOpRhsExpr" /\ Top.mark = cursor)
  BY <1>1, <1>8 DEF Placed, IsTop
<1> QED
  BY <1>7, <1>9 DEF Shaped

LEMMA ReturnNodeStep ==
  ASSUME NEW S, Holds(S), ReturnNode, NEW T, T = S \cup {result}
  PROVE  Holds(T)'
<1>1. At("return") /\ Leave(result) /\ UNCHANGED <<cursor, status>>
  BY DEF ReturnNode
<1>2. /\ Types(S) /\ status = "running" /\ stack # <<>> /\ Called(S, stack)
      /\ IsTop(S, Top)
      /\ cursor \in 0 .. Size - 1 /\ Size \in Nat /\ Built(S, Size)
      /\ UNCHANGED <<tokens, exposed>>
  BY <1>1, AtFacts
<1>3. /\ MayReturn(S, Top.fn, result)
      /\ Top.mark <= cursor
      /\ Top.mark < cursor \/ (Top.fn = "BinOpRhsExpr" /\ Top.mark = cursor)
  BY <1>1, Results
<1>5. Built(T, Size) /\ S \subseteq T /\ result \in T
  BY <1>2, <1>3, BuiltGrows DEF MayReturn
<1>6. result.kind \in Yields(Top.fn) /\ result # EmptyNode
  BY <1>3 DEF MayReturn, EmptyNode, Node
<1>7. Outcome(T, Top.fn, result, Top.mark, cursor')
  BY <1>1, <1>3, <1>5, <1>6 DEF Outcome
<1>8. cursor' \in 0 .. Size - 1 /\ Top.mark <= cursor'
  BY <1>1, <1>2, <1>3
<1> QED
  BY <1>1, <1>2, <1>5, <1>7, <1>8, Leaves

LEMMA ResumeWithNodeStep ==
  ASSUME NEW S, Holds(S), ResumeWithNode
  PROVE  Holds(S)'
<1> DEFINE kept == Append(Top.kids, ret)
           g == Continued(Top, Top.pc + 1, kept)
<1>1. /\ Types(S) /\ status = "running" /\ stack # <<>> /\ Called(S, stack)
      /\ IsTop(S, Top) /\ step = stepAt(Top.fn, Top.pc)
      /\ Built(S, Size) /\ Size \in Nat /\ cursor \in 0 .. Size - 1
      /\ UNCHANGED <<tokens, exposed>>
  BY ResumeFacts DEF ResumeWithNode
<1>2. PICK p \in 0 .. cursor : Waiting(S, Top, p) /\ Outcome(S, step.fn, ret, p, cursor)
  BY ResumeFacts DEF ResumeWithNode
<1>3. /\ ret \in S /\ ret.kind \in Yields(step.fn)
      /\ p < cursor \/ (step.fn = "BinOpRhsExpr" /\ p = cursor)
  BY <1>2 DEF Outcome, ResumeWithNode
<1>4. kept \in Seq(S)
  BY <1>1, <1>3, AppendProperties DEF IsTop
<1>5. /\ Top.pc + 1 \in Steps(Top.fn) /\ Top.mark < cursor
      /\ ~AtStart(Top.fn, Top.pc + 1)
      /\ HasSkipped(Top.fn, Top.pc + 1) => Top.mark <= Top.at
      /\ Fits(Top.fn, Top.pc + 1, kept)
  <2>1. step.op \in Calls /\ step.op # "alt" /\ Placed(Top, p)
    BY <1>1, <1>2 DEF Waiting, ResumeWithNode
  <2>2. CASE step.op = "call"
    <3>1. /\ Consumes(Top.fn, Top.pc) /\ step.fn # "BinOpRhsExpr"
          /\ HasSkipped(Top.fn, Top.pc + 1) => HasSkipped(Top.fn, Top.pc)
      BY <1>1, <2>2 DEF IsTop, StepFacts
    <3>2. Fits(Top.fn, Top.pc, Top.kids)
      BY <1>1, <1>2, <2>2 DEF Waiting, Hands
    <3>3. Fits(Top.fn, Top.pc + 1, kept)
      <4>1. KeepsFacts(Top.fn, Top.pc, Top.kids, ret)
        BY <1>1, <1>3, <3>2, Keeps DEF IsTop
      <4> QED
        BY <1>1, <1>3, <2>2, <4>1 DEF KeepsFacts
    <3>4. Top.mark < cursor
      BY <1>1, <1>3, <2>1, <3>1 DEF Placed, IsTop
    <3> QED
      BY <2>1, <3>1, <3>3, <3>4 DEF Placed, Consumes
  <2>3. CASE step.op \in Hands
    <3>1. /\ step.fn = "BinOpRhsExpr"
          /\ Moved(Top.fn, Top.pc) /\ GoesOn(Top.fn, Top.pc, Top.pc + 1)
      BY <1>1, <2>3 DEF IsTop, StepFacts
    <3>2. PICK n \in S : Fits(Top.fn, Top.pc, Append(Top.kids, n))
      BY <1>1, <1>2, <2>3 DEF Waiting
    <3>3. ret.kind \in Expressions
      BY <1>3, <3>1 DEF Yields
    <3>4. Fits(Top.fn, Top.pc + 1, kept)
      BY <1>1, <1>3, <2>3, <3>2, <3>3, TakesBack DEF IsTop
    <3>5. Top.mark < cursor
      BY <1>1, <1>3, <2>1, <3>1 DEF Placed, IsTop
    <3> QED
      BY <2>1, <3>1, <3>4, <3>5 DEF Placed, GoesOn, Moved
  <2> QED
    BY <2>1, <2>2, <2>3 DEF Calls
<1> HIDE DEF kept
<1>6. /\ g \in Frames(S, Size) /\ g.fn = Top.fn /\ g.pc = Top.pc + 1
      /\ g.mark = Top.mark /\ g.at = Top.at /\ g.kids = kept
  <2>1. Top \in Frames(S, Size)
    BY <1>1 DEF IsTop
  <2> QED
    BY <1>1, <1>4, <1>5, <2>1, ContinuedIsFrame
<1>7. SetTop(g) /\ ret' = Nothing /\ UNCHANGED <<cursor, status>>
  BY DEF ResumeWithNode, kept, Continued
<1> HIDE DEF g
<1>8. Top.at < cursor
  BY <1>1, <1>2 DEF Waiting, Placed, IsTop
<1>9. Active(g, cursor')
  BY <1>1, <1>5, <1>6, <1>7, <1>8 DEF Active, Placed, IsTop
<1> QED
  BY <1>1, <1>6, <1>7, <1>9, Stays

LEMMA ResumeAlternativeStep ==
  ASSUME NEW S, Holds(S), ResumeAlternative
  PROVE  Holds(S)'
<1>1. /\ Types(S) /\ status = "running" /\ stack # <<>> /\ Called(S, stack)
      /\ IsTop(S, Top) /\ step = stepAt(Top.fn, Top.pc) /\ step.op = "alt"
      /\ Built(S, Size) /\ Size \in Nat /\ cursor \in 0 .. Size - 1
      /\ UNCHANGED <<tokens, exposed, cursor, status>> /\ Leave(ret)
  BY ResumeFacts DEF ResumeAlternative
<1>2. PICK p \in 0 .. cursor : Waiting(S, Top, p) /\ Outcome(S, step.fn, ret, p, cursor)
  BY ResumeFacts DEF ResumeAlternative
<1>3. p = Top.mark
  BY <1>1, <1>2 DEF Waiting, Placed, AtStart
<1>4. Yields(step.fn) \subseteq Yields(Top.fn) /\ step.fn # "BinOpRhsExpr"
  BY <1>1 DEF IsTop, StepFacts
<1>5. ret \in S /\ ret.kind \in Yields(Top.fn) /\ Top.mark < cursor
  BY <1>2, <1>3, <1>4 DEF Outcome, ResumeAlternative
<1>6. Outcome(S, Top.fn, ret, Top.mark, cursor')
  BY <1>1, <1>5 DEF Outcome, ResumeAlternative
<1>7. Top.mark <= cursor' /\ cursor' \in 0 .. Size - 1
  BY <1>1, <1>5 DEF IsTop
<1> QED
  BY <1>1, <1>5, <1>6, <1>7, Leaves

\* The one that was called has put the cursor back.
LEMMA ActiveAgain ==
  ASSUME NEW S, Holds(S), Resume, ret = EmptyNode, step.op \in {"alt", "call"}
  PROVE  Active(Top, cursor)
<1>1. PICK p \in 0 .. cursor : Waiting(S, Top, p) /\ Outcome(S, step.fn, ret, p, cursor)
  BY ResumeFacts
<1>2. p = cursor
  BY <1>1 DEF Outcome
<1>3. step = stepAt(Top.fn, Top.pc)
  BY ResumeFacts
<1> QED
  BY <1>1, <1>2, <1>3 DEF Waiting, Active, Hands

LEMMA NextAlternativeStep ==
  ASSUME NEW S, Holds(S), NextAlternative
  PROVE  Holds(S)'
<1>1. /\ Resume /\ step.op = "alt" /\ ret = EmptyNode /\ GoTo(Top.pc + 1)
      /\ ret' = Nothing /\ UNCHANGED <<cursor, status>>
  BY DEF NextAlternative, Proceed
<1>2. Active(Top, cursor)
  BY <1>1, ActiveAgain
<1>3. GoesOn(Top.fn, Top.pc, Top.pc + 1)
  BY <1>1, ResumeFacts DEF IsTop, StepFacts
<1>4. Fits(Top.fn, Top.pc + 1, Top.kids)
  BY <1>1, <1>2, ResumeFacts, KeepsOn DEF Active
<1> QED
  BY <1>1, <1>2, <1>3, <1>4, ResumeFacts, GoesTo

LEMMA ResumeWithEmptyStep ==
  ASSUME NEW S, Holds(S), ResumeWithEmpty
  PROVE  Holds(S)'
<1>1. Resume /\ step.op = "call" /\ ret = EmptyNode /\ Fail(cursor)
  BY DEF ResumeWithEmpty
<1>2. Active(Top, cursor)
  BY <1>1, ActiveAgain
<1>3. step.fail = "goto" =>
        GoesOn(Top.fn, Top.pc, step.other) /\ Fits(Top.fn, step.other, Top.kids)
  <2>1. step.fail = "goto" => GoesOn(Top.fn, Top.pc, step.other)
    BY <1>1, ResumeFacts DEF IsTop, StepFacts
  <2>2. step.fail = "goto" => Fits(Top.fn, step.other, Top.kids)
    BY <1>1, <1>2, ResumeFacts, KeepsOn DEF Active
  <2> QED
    BY <2>1, <2>2
<1> QED
  BY <1>1, <1>2, <1>3, ResumeFacts, Failing

LEMMA FinishStep ==
  ASSUME NEW S, Holds(S), Finish
  PROVE  Holds(S)'
<1>1. Outcome(S, Start, ret, 0, cursor)
  BY DEF Holds, Finish, Ready, Answered
<1>2. Types(S)'
  BY DEF Holds, Finish, Types, Size
<1> QED
  BY <1>1, <1>2 DEF Holds, Finish

-----------------------------------------------------------------------------
(* The theorems. *)

LEMMA InitHolds ==
  ASSUME Init
  PROVE  Holds({})
<1> DEFINE f == Frame(Start, 0, <<>>)
<1>1. Start \in Fn /\ Start # "BinOpRhsExpr"
  BY StartAssumption
<1>2. /\ 1 \in Steps(Start) /\ ~Moved(Start, 1) /\ ~HasSkipped(Start, 1)
      /\ Fits(Start, 1, <<>>)
  BY <1>1, Begins
<1>3. Size \in Nat /\ Size > 0 /\ tokens \in Inputs
  BY TokensEnd DEF Init
<1>4. /\ f.fn = Start /\ f.pc = 1 /\ f.mark = 0 /\ f.at = -1 /\ f.kids = <<>>
      /\ f \in [fn : Fn, pc : Nat, mark : 0 .. Size - 1, at : Int, kids : Seq({})]
  BY <1>1, <1>3 DEF Frame
<1> HIDE DEF f
<1>5. f \in Frames({}, Size)
  BY <1>2, <1>3, <1>4 DEF Frames
<1>6. stack = <<f>> /\ cursor = 0 /\ ret = Nothing /\ status = "running"
  BY DEF Init, f
<1>7. stack \in Seq(Frames({}, Size)) /\ Len(stack) = 1 /\ stack[1] = f /\ stack # <<>>
  BY <1>5, <1>6
<1>8. Types({})
  <2>1. Built({}, Size)
    BY DEF Built
  <2>2. cursor \in 0 .. Size - 1
    BY <1>3, <1>6
  <2> QED
    BY <1>3, <1>6, <1>7, <2>1, <2>2 DEF Types, Init
<1>9. Called({}, stack)
  BY <1>4, <1>7 DEF Called, CalledFirst
<1>10. Ready(stack, cursor)
  BY <1>2, <1>4, <1>6, <1>7 DEF Ready, Active, Placed
<1> QED
  BY <1>6, <1>8, <1>9, <1>10 DEF Holds

LEMMA InitIInv == Init => IInv
BY InitHolds DEF IInv

LEMMA StutterStep ==
  ASSUME NEW S, Holds(S), UNCHANGED vars
  PROVE  Holds(S)'
BY DEF vars, Holds, Types, Size, Called, Ready, Answered

LEMMA StepIInv == IInv /\ [Next]_vars => IInv'
<1> SUFFICES ASSUME IInv, [Next]_vars
             PROVE  \E T : Holds(T)'
  BY DEF IInv
<1>1. PICK S : Holds(S)
  BY DEF IInv
<1>2. CASE UNCHANGED vars
  BY <1>1, <1>2, StutterStep
<1>3. CASE TakeToken \/ RefuseToken \/ PeekToken \/ PeekOther
  BY <1>1, <1>3, TakeTokenStep, RefuseTokenStep, PeekStep
<1>4. CASE SkipToken \/ SkipNothing \/ Call \/ CallWith \/ ClimbUp
  BY <1>1, <1>4, SkipTokenStep, SkipNothingStep, CallStep, HandOverStep
<1>5. CASE StayLevel \/ JumpTo
  BY <1>1, <1>5, StayLevelStep, JumpToStep
<1>6. CASE CombineOperands
  <2>1. PICK T : T = S \cup {Node("BinExpr", Top.at, Top.kids)}
    OBVIOUS
  <2> QED
    BY <1>1, <1>6, <2>1, CombineStep
<1>9. CASE ReturnNode
  <2>1. PICK T : T = S \cup {result}
    OBVIOUS
  <2> QED
    BY <1>1, <1>9, <2>1, ReturnNodeStep
<1>10. CASE ReturnEmptyNode
  BY <1>1, <1>10, ReturnEmptyNodeStep
<1>7. CASE ResumeWithNode \/ ResumeAlternative \/ NextAlternative \/ ResumeWithEmpty
  BY <1>1, <1>7, ResumeWithNodeStep, ResumeAlternativeStep, NextAlternativeStep,
     ResumeWithEmptyStep
<1>8. CASE Finish
  BY <1>1, <1>8, FinishStep
<1> QED
  BY <1>2, <1>3, <1>4, <1>5, <1>6, <1>7, <1>8, <1>9, <1>10 DEF Next

\* The invariant holds in every state of every run.
THEOREM ParserInvariant == Spec => []IInv
BY InitIInv, StepIInv, PTL DEF Spec

\* The cursor is always on a token and every frame and node is well formed, so
\* the assertion of getToken() (parser.hpp:16) holds, whatever the tokens are.
THEOREM ParserTypeCorrect == Spec => []TypeOK
<1>1. IInv => TypeOK
  <2> SUFFICES ASSUME NEW S, Holds(S)
               PROVE  TypeOK
    BY DEF IInv
  <2>1. Types(S) /\ Size \in Nat /\ Size > 0
    BY TokensEnd DEF Holds, Types
  <2>2. \A n \in S : IsNode(n)
    BY <2>1 DEF Types, Built, IsNode
  <2>3. IsNode(EmptyNode) /\ IsNode(Nothing)
    BY <2>1 DEF IsNode, EmptyNode, Nothing, Node, Kind
  <2>4. \A f \in Frames(S, Size) : IsFrame(f)
    <3> SUFFICES ASSUME NEW f \in Frames(S, Size)
                 PROVE  IsFrame(f)
      OBVIOUS
    <3>1. \A k \in DOMAIN f.kids : f.kids[k] \in S
      BY LenProperties, ElementOfSeq DEF Frames
    <3> QED
      BY <2>2, <3>1 DEF Frames, IsFrame, Steps
  <2>5. \A k \in DOMAIN stack : stack[k] \in Frames(S, Size)
    BY <2>1, LenProperties, ElementOfSeq DEF Types
  <2>6. tokens \in Seq(TokenId)
    BY <2>1, InputsAssumption DEF Types
  <2> QED
    BY <2>1, <2>2, <2>3, <2>4, <2>5, <2>6 DEF TypeOK, Types
<1> QED
  BY <1>1, ParserInvariant, PTL

\* Every node in hand has the children the later phases take for granted.
THEOREM TreesAreAsAssumed == Spec => []TreesAsLaterPhasesAssume
<1>1. IInv => TreesAsLaterPhasesAssume
  <2> SUFFICES ASSUME NEW S, Holds(S)
               PROVE  TreesAsLaterPhasesAssume
    BY DEF IInv
  <2>1. Types(S) /\ \A n \in S : HasItsShape(n)
    BY DEF Holds, Types, Built
  <2>2. \A k \in DOMAIN stack : stack[k] \in Frames(S, Size)
    BY <2>1, LenProperties, ElementOfSeq DEF Types
  <2>3. \A f \in Frames(S, Size) : \A k \in DOMAIN f.kids : f.kids[k] \in S
    BY LenProperties, ElementOfSeq DEF Frames
  <2> QED
    BY <2>1, <2>2, <2>3 DEF TreesAsLaterPhasesAssume, Types
<1> QED
  BY <1>1, ParserInvariant, PTL

\* The tree that is returned is of a kind the caller of the parser expects, and
\* is made throughout, however deep, of nodes with the children that the later
\* phases take for granted: they all lie in a set in which every child of a node
\* lies too.
WholeTree ==
  status = "returned" /\ ret # EmptyNode =>
    \E S : /\ ret \in S /\ ret.kind \in Yields(Start)
           /\ \A n \in S : n.kids \in Seq(S) /\ HasItsShape(n)

THEOREM TreesAreWhole == Spec => []WholeTree
<1>1. IInv => WholeTree
  <2> SUFFICES ASSUME NEW S, Holds(S), status = "returned", ret # EmptyNode
               PROVE  /\ ret \in S /\ ret.kind \in Yields(Start)
                      /\ \A n \in S : n.kids \in Seq(S) /\ HasItsShape(n)
    BY DEF IInv, WholeTree
  <2>1. Outcome(S, Start, ret, 0, cursor) /\ Built(S, Size)
    BY DEF Holds, Types
  <2> QED
    BY <2>1 DEF Outcome, Built
<1> QED
  BY <1>1, ParserInvariant, PTL

-----------------------------------------------------------------------------
(* What a step may never do. *)

LEMMA Replaced ==
  ASSUME NEW F, stack \in Seq(F), stack # <<>>, NEW g, SetTop(g)
  PROVE  Len(stack') = Len(stack)
<1> DEFINE m == Len(stack)
           t == Tail(stack)
           G == F \cup {g}
<1>1. t \in Seq(F) /\ Len(t) = m - 1 /\ m \in Nat
  BY HeadTailProperties, LenProperties
<1>2. t \in Seq(G) /\ g \in G
  BY <1>1, SeqGrows
<1> HIDE DEF G
<1>3. Len(<<g>> \o t) = Len(t) + 1
  BY <1>2, Cons
<1> HIDE DEF m, t
<1>4. Len(<<g>> \o t) = m
  BY <1>1, <1>3
<1> QED
  BY <1>4 DEF SetTop, m, t

\* Only a function that gives up shortens the stack when it fails.
LEMMA FailingLeaves ==
  ASSUME NEW F, stack \in Seq(F), stack # <<>>, NEW cur, Fail(cur),
         Len(stack') < Len(stack)
  PROVE  ret' = EmptyNode /\ cursor' = Top.mark
<1> DEFINE m == Len(stack)
           n == Len(stack')
<1>1. m \in Nat /\ n < m
  BY LenProperties
<1>2. n # m
  <2> HIDE DEF m, n
  <2> QED
    BY <1>1
<1>3. ~GoTo(step.other)
  BY <1>2, Replaced DEF GoTo
<1>4. ~Fatal(reported(cur))
  BY <1>2 DEF Fatal
<1> QED
  BY <1>3, <1>4 DEF Fail, Leave

Shrinks ==
  IF ret' = EmptyNode THEN cursor' = Top.mark
  ELSE \/ cursor' > Top.mark
       \/ Top.fn = "BinOpRhsExpr" /\ cursor' = Top.mark

LEMMA ShrinkingStep ==
  ASSUME NEW S, Holds(S), Next, Len(stack') < Len(stack)
  PROVE  Shrinks
<1> DEFINE m == Len(stack)
           n == Len(stack')
<1>1. stack \in Seq(Frames(S, Size)) /\ m \in Nat /\ n < m
  BY LenProperties DEF Holds, Types
<1>2. n # m
  <2> HIDE DEF m, n
  <2> QED
    BY <1>1
<1>3. ~(\E g : stack # <<>> /\ SetTop(g))
  BY <1>1, <1>2, Replaced
<1>4. CASE TakeToken \/ PeekToken \/ SkipToken \/ StayLevel \/ CombineOperands \/ JumpTo
  BY <1>3, <1>4 DEF TakeToken, PeekToken, SkipToken, StayLevel, CombineOperands,
                    JumpTo, At, Proceed, GoTo
<1>5. CASE ResumeWithNode \/ NextAlternative
  BY <1>3, <1>5 DEF ResumeWithNode, NextAlternative, Resume, Proceed, GoTo
<1>6. CASE RefuseToken \/ PeekOther \/ SkipNothing \/ ResumeWithEmpty
  <2>1. stack # <<>> /\ \E cur : Fail(cur)
    BY <1>6 DEF RefuseToken, PeekOther, SkipNothing, ResumeWithEmpty, At, Resume
  <2> QED
    BY <1>1, <2>1, FailingLeaves DEF Shrinks
<1>7. CASE Call
  <2> DEFINE f == Frame(step.fn, cursor, <<>>)
             G == Frames(S, Size) \cup {f}
  <2>1. stack' = <<f>> \o stack
    BY <1>7 DEF Call
  <2>2. f \in G /\ stack \in Seq(G)
    BY <1>1, SeqGrows
  <2> HIDE DEF f, G
  <2>3. n = m + 1
    BY <2>1, <2>2, Cons
  <2> HIDE DEF m, n
  <2> QED
    BY <1>1, <2>3
<1>8. CASE CallWith \/ ClimbUp
  <2> DEFINE f == Frame(step.fn, cursor, <<Top.kids[Len(Top.kids)]>>)
             g == [Top EXCEPT !.kids = SubSeq(@, 1, Len(@) - 1)]
             t == Tail(stack)
             G == Frames(S, Size) \cup {f, g}
  <2>1. stack' = <<f, g>> \o t /\ stack # <<>>
    BY <1>8 DEF CallWith, ClimbUp, HandOver, At
  <2>2. t \in Seq(Frames(S, Size)) /\ Len(t) = m - 1
    BY <1>1, <2>1, HeadTailProperties
  <2>3. f \in G /\ g \in G /\ t \in Seq(G)
    BY <2>2, SeqGrows
  <2> HIDE DEF f, g, G, t
  <2>4. <<f, g>> \in Seq(G) /\ Len(<<f, g>>) = 2
    BY <2>3
  <2>5. n = 2 + Len(t)
    BY <2>1, <2>3, <2>4, ConcatProperties
  <2> DEFINE l == Len(t)
  <2>6. l = m - 1 /\ n = 2 + l
    BY <2>2, <2>5
  <2> HIDE DEF m, n, l
  <2> QED
    BY <1>1, <2>6
<1>9. CASE ReturnNode
  <2>1. At("return") /\ ret' = result /\ cursor' = cursor
    BY <1>9 DEF ReturnNode, Leave
  <2>2. /\ MayReturn(S, Top.fn, result)
        /\ Top.mark < cursor \/ (Top.fn = "BinOpRhsExpr" /\ Top.mark = cursor)
        /\ Top.mark <= cursor
    BY <2>1, Results
  <2>3. result # EmptyNode
    BY <2>2 DEF MayReturn, EmptyNode, Node
  <2>4. Top.mark \in Int /\ cursor \in Int
    BY <2>1, AtFacts DEF IsTop
  <2> QED
    BY <2>1, <2>2, <2>3, <2>4 DEF Shrinks
<1>10. CASE ReturnEmptyNode
  <2>1. At("empty") /\ ret' = EmptyNode /\ cursor' = cursor
    BY <1>10 DEF ReturnEmptyNode, Leave
  <2>2. cursor = Top.mark
    BY <2>1, AtFacts DEF Placed, AtStart
  <2> QED
    BY <2>1, <2>2 DEF Shrinks
<1>11. CASE ResumeAlternative
  <2>1. /\ Resume /\ step.op = "alt" /\ ret # EmptyNode
        /\ ret' = ret /\ cursor' = cursor
    BY <1>11 DEF ResumeAlternative, Leave
  <2>2. PICK p \in 0 .. cursor : Waiting(S, Top, p) /\ Outcome(S, step.fn, ret, p, cursor)
    BY <2>1, ResumeFacts
  <2>3. IsTop(S, Top) /\ step = stepAt(Top.fn, Top.pc) /\ cursor \in Int
    BY <2>1, ResumeFacts
  <2>4. p = Top.mark
    BY <2>1, <2>2, <2>3 DEF Waiting, Placed, AtStart
  <2>5. step.fn # "BinOpRhsExpr"
    BY <2>1, <2>3 DEF IsTop, StepFacts
  <2>6. Top.mark < cursor
    BY <2>1, <2>2, <2>4, <2>5 DEF Outcome
  <2> QED
    BY <2>1, <2>3, <2>6 DEF Shrinks, IsTop
<1>12. CASE Finish
  BY <1>2, <1>12 DEF Finish
<1> QED
  BY <1>4, <1>5, <1>6, <1>7, <1>8, <1>9, <1>10, <1>11, <1>12 DEF Next

\* A function that fails has put the cursor back, one that succeeds has moved it,
\* whichever functions it called on the way.
THEOREM FailureResetsTheCursor == Spec => EmptyOrProgress
<1>1. IInv /\ [Next]_vars => [Len(stack') < Len(stack) => Shrinks]_vars
  BY ShrinkingStep DEF IInv
<1> QED
  BY <1>1, ParserInvariant, PTL DEF Spec, EmptyOrProgress, Shrinks

\* An error reported between the start of the function and the cursor.
LEMMA ReportedInReach ==
  ASSUME NEW m \in Int, m >= 0, Size \in Nat, cursor \in 0 .. Size - 1,
         NEW mark \in 0 .. Size - 1, m \in mark - 1 .. cursor, Fatal(m)
  PROVE  status' # "assert_failed" /\ cursor' \in mark - 1 .. cursor
BY DEF Fatal

PointsNoFurther ==
  IF Top.fn = "ReturnSt" /\ Top.pc = 3
    THEN IF token(cursor) = "Eof" THEN status' = "assert_failed"
         ELSE status' # "assert_failed" /\ cursor' = cursor + 1
    ELSE status' # "assert_failed" /\ cursor' \in Top.mark - 1 .. cursor

LEMMA PointingStep ==
  ASSUME NEW S, Holds(S), Next, status' \notin {status, "returned"}
  PROVE  PointsNoFurther
<1>1. RefuseToken \/ PeekOther \/ SkipNothing \/ ResumeWithEmpty
  BY DEF Next, TakeToken, PeekToken, SkipToken, Call, CallWith, ClimbUp,
         HandOver, StayLevel, CombineOperands, JumpTo, ReturnNode,
         ReturnEmptyNode, ResumeWithNode, ResumeAlternative, NextAlternative,
         Finish
<1>2. CASE RefuseToken
  <2>1. At("take") /\ Fatal(reported(cursor + 1))
    BY <1>2 DEF RefuseToken, Fail
  <2>2. /\ IsTop(S, Top) /\ step = stepAt(Top.fn, Top.pc) /\ step.op = "take"
        /\ Placed(Top, cursor) /\ Size \in Nat /\ cursor \in 0 .. Size - 1
        /\ tokens \in Inputs
    BY <2>1, AtFacts DEF Types
  <2>3. /\ step.fail \in {"reset", "mark", "prev", "here"}
        /\ step.fail = "here" <=> Top.fn = "ReturnSt" /\ Top.pc = 3
    BY <2>2 DEF IsTop, StepFacts
  <2>4. step.fail # "reset"
    BY <1>2 DEF RefuseToken, Fail, Fatal
  <2>5. CASE step.fail = "here"
    <3>1. reported(cursor + 1) = cursor + 1
      BY <2>5 DEF reported
    <3>2. token(cursor) = "Eof" <=> cursor = Size - 1
      BY <2>2, TokensEnd
    <3>3. IF cursor = Size - 1 THEN status' = "assert_failed"
          ELSE status' # "assert_failed" /\ cursor' = cursor + 1
      BY <2>1, <2>2, <3>1 DEF Fatal
    <3> QED
      BY <2>3, <2>5, <3>2, <3>3 DEF PointsNoFurther
  <2>6. CASE step.fail \in {"mark", "prev"}
    <3>1. reported(cursor + 1) \in {Top.mark, cursor}
      BY <2>2, <2>6 DEF reported
    <3>2. Top.mark <= cursor /\ Top.mark \in 0 .. Size - 1
      BY <2>2 DEF Placed, IsTop
    <3>3. status' # "assert_failed" /\ cursor' \in Top.mark - 1 .. cursor
      BY <2>1, <2>2, <3>1, <3>2, ReportedInReach
    <3> QED
      BY <2>3, <2>6, <3>3 DEF PointsNoFurther
  <2> QED
    BY <2>3, <2>4, <2>5, <2>6
<1>3. CASE PeekOther
  <2>1. At("peek") /\ Fail(cursor)
    BY <1>3 DEF PeekOther
  <2>2. /\ IsTop(S, Top) /\ step = stepAt(Top.fn, Top.pc) /\ step.op = "peek"
        /\ Placed(Top, cursor) /\ Size \in Nat /\ cursor \in 0 .. Size - 1
    BY <2>1, AtFacts
  <2>3. step.fail = "here" /\ ~(Top.fn = "ReturnSt" /\ Top.pc = 3)
    BY <2>2 DEF IsTop, StepFacts
  <2>4. Fatal(cursor)
    BY <2>1, <2>3 DEF Fail, reported
  <2>5. Top.mark <= cursor /\ Top.mark \in 0 .. Size - 1
    BY <2>2 DEF Placed, IsTop
  <2>6. status' # "assert_failed" /\ cursor' \in Top.mark - 1 .. cursor
    BY <2>2, <2>4, <2>5, ReportedInReach
  <2> QED
    BY <2>3, <2>6 DEF PointsNoFurther
<1>4. CASE SkipNothing
  <2>1. At("when") /\ Fail(cursor)
    BY <1>4 DEF SkipNothing
  <2>2. step.fail = "goto"
    BY <2>1, AtFacts DEF IsTop, StepFacts
  <2>3. status' = status
    BY <2>1, <2>2 DEF Fail
  <2> QED
    BY <2>3
<1>5. CASE ResumeWithEmpty
  <2>1. Resume /\ step.op = "call" /\ ret = EmptyNode /\ Fail(cursor)
    BY <1>5 DEF ResumeWithEmpty
  <2>2. /\ IsTop(S, Top) /\ step = stepAt(Top.fn, Top.pc)
        /\ Size \in Nat /\ cursor \in 0 .. Size - 1
    BY <2>1, ResumeFacts
  <2>3. Placed(Top, cursor)
    BY <2>1, ActiveAgain DEF Active
  <2>4. /\ ~(Top.fn = "ReturnSt" /\ Top.pc = 3)
        /\ step.fail \in {"reset", "mark", "here", "comma", "goto"}
    BY <2>1, <2>2 DEF IsTop, StepFacts
  <2>5. step.fail \in {"mark", "here", "comma"} /\ Fatal(reported(cursor))
    BY <2>1, <2>4 DEF Fail
  <2>6. step.fail = "comma" => Top.mark <= Top.at
    BY <2>2, <2>3 DEF Placed, HasSkipped
  <2>7. /\ reported(cursor) \in Top.mark .. cursor
        /\ Top.mark \in 0 .. Size - 1
    BY <2>2, <2>3, <2>5, <2>6 DEF reported, Placed, IsTop
  <2>8. status' # "assert_failed" /\ cursor' \in Top.mark - 1 .. cursor
    BY <2>2, <2>5, <2>7, ReportedInReach
  <2> QED
    BY <2>4, <2>8 DEF PointsNoFurther
<1> QED
  BY <1>1, <1>2, <1>3, <1>4, <1>5

\* The position of a syntax error is that of the refused token or of one before
\* it, with the one exception of parseReturnSt().
THEOREM ErrorsStayInReach == Spec => ErrorsPointNoFurther
<1>1. IInv /\ [Next]_vars =>
        [status' \notin {status, "returned"} => PointsNoFurther]_vars
  BY PointingStep DEF IInv
<1> QED
  BY <1>1, ParserInvariant, PTL DEF Spec, ErrorsPointNoFurther, PointsNoFurther

-----------------------------------------------------------------------------
(* How operators are grouped. *)

LEMMA LeastNatural ==
  ASSUME NEW S \in SUBSET Nat, S # {}
  PROVE  \E m \in S : \A k \in S : m <= k
<1> DEFINE R == OpToRel(<, Nat)
<1>1. \A j, k \in Nat : j < k => <<j, k>> \in R
  BY DEF OpToRel
<1>2. PICK m \in S : \A k \in S : ~(<<k, m>> \in R)
  <2>1. IsWellFoundedOn(R, Nat)
    BY NatLessThanWellFounded
  <2> HIDE DEF R
  <2> QED
    BY <2>1, WFMin
<1> HIDE DEF R
<1>3. ASSUME NEW k \in S PROVE m <= k
  <2>1. m \in Nat /\ k \in Nat /\ ~(k < m)
    BY <1>1, <1>2
  <2> QED
    BY <2>1
<1> QED
  BY <1>3

Iterates(f, a, next) == f[0] = a /\ \A k \in Nat : f[k + 1] = next[f[k]]

\* The first k values of a sequence in which each follows from the one before.
Iterated(k, g, S, a, next) ==
  /\ g \in [0 .. k -> S] /\ g[0] = a
  /\ \A j \in 0 .. k - 1 : g[j + 1] = next[g[j]]

\* They agree with the first values of a longer one.
LEMMA IteratedAgree ==
  ASSUME NEW S, NEW a, NEW next, NEW k \in Nat, NEW g, Iterated(k, g, S, a, next),
         NEW l \in Nat, NEW h, Iterated(l, h, S, a, next), NEW j \in 0 .. k, j \in 0 .. l
  PROVE  g[j] = h[j]
<1> DEFINE Bad == {i \in Nat : i <= k /\ i <= l /\ g[i] # h[i]}
<1>1. SUFFICES ASSUME Bad # {} PROVE FALSE
  OBVIOUS
<1>2. PICK i \in Bad : \A x \in Bad : i <= x
  <2>1. Bad \in SUBSET Nat
    OBVIOUS
  <2> HIDE DEF Bad
  <2> QED
    BY <1>1, <2>1, LeastNatural
<1>3. i # 0
  BY <1>2 DEF Iterated
<1>4. i - 1 \in Nat /\ i - 1 \notin Bad
  BY <1>2, <1>3
<1>5. g[i - 1] = h[i - 1]
  BY <1>2, <1>4
<1>6. i - 1 \in 0 .. k - 1 /\ i - 1 \in 0 .. l - 1 /\ i - 1 + 1 = i
  BY <1>2, <1>3
<1>7. g[i] = next[g[i - 1]] /\ h[i] = next[h[i - 1]]
  BY <1>6 DEF Iterated
<1> QED
  BY <1>2, <1>5, <1>7

LEMMA IteratedExist ==
  ASSUME NEW S, NEW a \in S, NEW next \in [S -> S], NEW k \in Nat
  PROVE  \E g : Iterated(k, g, S, a, next)
<1> DEFINE Reach(i) == \E g : Iterated(i, g, S, a, next)
           Bad == {i \in Nat : ~Reach(i)}
<1>1. SUFFICES ASSUME Bad # {} PROVE FALSE
  OBVIOUS
<1>2. PICK i \in Bad : \A x \in Bad : i <= x
  <2>1. Bad \in SUBSET Nat
    OBVIOUS
  <2> HIDE DEF Bad
  <2> QED
    BY <1>1, <2>1, LeastNatural
<1>3. Reach(0)
  <2> DEFINE g == [j \in 0 .. 0 |-> a]
  <2>1. Iterated(0, g, S, a, next)
    BY DEF Iterated
  <2> QED
    BY <2>1
<1>4. i # 0
  <2> HIDE DEF Reach
  <2> QED
    BY <1>2, <1>3
<1> DEFINE p == i - 1
<1>5. p \in Nat /\ p + 1 = i /\ p \notin Bad
  BY <1>2, <1>4
<1>6. PICK g : Iterated(p, g, S, a, next)
  BY <1>5
<1> DEFINE h == [j \in 0 .. i |-> IF j = i THEN next[g[p]] ELSE g[j]]
<1> HIDE DEF p
<1>7. p \in 0 .. p /\ i \in Nat /\ \A j \in 0 .. i : j # i => j \in 0 .. p
  BY <1>2, <1>5
<1>8. g[p] \in S /\ next[g[p]] \in S
  BY <1>5, <1>6, <1>7 DEF Iterated
<1>9. h \in [0 .. i -> S] /\ h[0] = a
  BY <1>4, <1>5, <1>6, <1>7, <1>8 DEF Iterated
<1>10. ASSUME NEW j \in 0 .. i - 1 PROVE h[j + 1] = next[h[j]]
  <2>1. h[j] = g[j] /\ j \in 0 .. p /\ j + 1 \in 0 .. i
    BY <1>5, <1>7
  <2>2. CASE j = p
    BY <1>5, <2>1, <2>2
  <2>3. CASE j # p
    <3>1. j \in 0 .. p - 1 /\ j + 1 # i
      BY <1>5, <2>1, <2>3
    <3> QED
      BY <1>6, <2>1, <3>1 DEF Iterated
  <2> QED
    BY <2>2, <2>3
<1>11. Iterated(i, h, S, a, next)
  BY <1>9, <1>10 DEF Iterated
<1> QED
  BY <1>2, <1>11

LEMMA Iteration ==
  ASSUME NEW S, NEW a \in S, NEW next \in [S -> S]
  PROVE  \E f \in [Nat -> S] : Iterates(f, a, next)
<1> DEFINE part(k) == CHOOSE g : Iterated(k, g, S, a, next)
           f == [k \in Nat |-> part(k)[k]]
<1>1. \A k \in Nat : Iterated(k, part(k), S, a, next)
  BY IteratedExist
<1> HIDE DEF part
<1>2. part(0)[0] = a
  BY <1>1 DEF Iterated
<1>3. ASSUME NEW k \in Nat
      PROVE  part(k)[k] \in S /\ part(k + 1)[k + 1] = next[part(k)[k]]
  <2>1. k + 1 \in Nat /\ k \in 0 .. k /\ k \in 0 .. k + 1 /\ k \in 0 .. (k + 1) - 1
    OBVIOUS
  <2>2. Iterated(k, part(k), S, a, next) /\ Iterated(k + 1, part(k + 1), S, a, next)
    BY <1>1, <2>1
  <2>3. part(k + 1)[k] = part(k)[k]
    BY <2>1, <2>2, IteratedAgree
  <2> QED
    BY <2>1, <2>2, <2>3 DEF Iterated
<1>4. f \in [Nat -> S] /\ f[0] = a /\ \A k \in Nat : f[k + 1] = next[f[k]]
  <2>1. \A k \in Nat : f[k] = part(k)[k] /\ k + 1 \in Nat
    OBVIOUS
  <2>2. f \in [Nat -> S]
    BY <1>3
  <2> HIDE DEF f
  <2> QED
    BY <1>2, <1>3, <2>1, <2>2
<1> HIDE DEF f
<1> QED
  BY <1>4 DEF Iterates

\* S is a set of nodes in which the operands of a binary expression lie too.
HasOperands(S) ==
  \A m \in S : m.kind = "BinExpr" => m.kids[1] \in S /\ m.kids[2] \in S

LEMMA BuiltOperands ==
  ASSUME NEW S, NEW size, Built(S, size)
  PROVE  HasOperands(S)
<1> SUFFICES ASSUME NEW m \in S, m.kind = "BinExpr"
             PROVE  m.kids[1] \in S /\ m.kids[2] \in S
  BY DEF HasOperands
<1>1. m.kids \in Seq(S) /\ Len(m.kids) = 2
  BY DEF Built, HasItsShape
<1> QED
  BY <1>1

LEMMA LeftEdgeUnfolds ==
  ASSUME NEW S, HasOperands(S), NEW n \in S
  PROVE  /\ LeftEdge(n)[0] = n
         /\ \A k \in Nat : LeftEdge(n)[k + 1] = FirstPart(LeftEdge(n)[k])
<1> DEFINE next == [m \in S |-> FirstPart(m)]
<1>1. next \in [S -> S]
  BY DEF HasOperands, FirstPart, OpenBinary
<1>2. PICK f \in [Nat -> S] : Iterates(f, n, next)
  <2> HIDE DEF next
  <2> QED
    BY <1>1, Iteration
<1>3. f[0] = n /\ \A k \in Nat : f[k + 1] = FirstPart(f[k])
  BY <1>2 DEF Iterates
<1>4. f = [k \in Nat |-> IF k = 0 THEN n ELSE FirstPart(f[k - 1])]
  <2>1. ASSUME NEW k \in Nat PROVE f[k] = IF k = 0 THEN n ELSE FirstPart(f[k - 1])
    <3>1. CASE k = 0
      BY <1>3, <3>1
    <3>2. CASE k # 0
      <4>1. k - 1 \in Nat /\ k - 1 + 1 = k
        BY <3>2
      <4> QED
        BY <1>3, <3>2, <4>1
    <3> QED
      BY <3>1, <3>2
  <2> QED
    BY <1>2, <2>1
<1> DEFINE P(h) == h = [k \in Nat |-> IF k = 0 THEN n ELSE FirstPart(h[k - 1])]
           g == LeftEdge(n)
<1>5. g = CHOOSE h : P(h)
  BY Zenon DEF LeftEdge
<1>6. P(g)
  <2>1. P(f)
    BY <1>4
  <2> HIDE DEF P, g
  <2> QED
    BY <1>5, <2>1
<1> HIDE DEF g
<1>7. g[0] = n
  BY <1>6
<1>8. ASSUME NEW k \in Nat PROVE g[k + 1] = FirstPart(g[k])
  <2>1. k + 1 \in Nat /\ k + 1 # 0 /\ (k + 1) - 1 = k
    OBVIOUS
  <2> QED
    BY <1>6, <2>1
<1> QED
  BY <1>7, <1>8 DEF g

\* Behind the first operand the edge of a node is that of this operand.
LEMMA EdgeOfOperand ==
  ASSUME NEW S, HasOperands(S), NEW n \in S, OpenBinary(n), NEW k \in Nat
  PROVE  LeftEdge(n)[k + 1] = LeftEdge(n.kids[1])[k]
<1> DEFINE m == n.kids[1]
           e == LeftEdge(n)
           d == LeftEdge(m)
           Bad == {i \in Nat : e[i + 1] # d[i]}
<1>1. m \in S
  BY DEF HasOperands, OpenBinary
<1>2. e[0] = n /\ \A i \in Nat : e[i + 1] = FirstPart(e[i])
  BY LeftEdgeUnfolds
<1>3. d[0] = m /\ \A i \in Nat : d[i + 1] = FirstPart(d[i])
  BY <1>1, LeftEdgeUnfolds
<1>4. FirstPart(n) = m
  BY DEF FirstPart
<1> HIDE DEF m, e, d
<1>5. SUFFICES ASSUME Bad # {} PROVE FALSE
  BY DEF e, d, m
<1>6. PICK i \in Bad : \A x \in Bad : i <= x
  <2>1. Bad \in SUBSET Nat
    OBVIOUS
  <2> HIDE DEF Bad
  <2> QED
    BY <1>5, <2>1, LeastNatural
<1>7. i # 0
  <2>1. 0 \in Nat /\ e[0 + 1] = FirstPart(e[0])
    BY <1>2
  <2>2. 0 + 1 = 1
    OBVIOUS
  <2>3. e[1] = d[0]
    BY <1>2, <1>3, <1>4, <2>1, <2>2
  <2> QED
    BY <1>6, <2>2, <2>3
<1>8. i - 1 \in Nat /\ i - 1 \notin Bad /\ i \in Nat /\ i - 1 + 1 = i
  BY <1>6, <1>7
<1>9. e[i] = d[i - 1]
  BY <1>8
<1>10. e[i + 1] = FirstPart(e[i]) /\ d[i] = FirstPart(d[i - 1])
  BY <1>2, <1>3, <1>8
<1> QED
  BY <1>6, <1>9, <1>10

\* A part that is not divided is all that is printed first.
LEMMA EdgeOfClosed ==
  ASSUME NEW S, HasOperands(S), NEW n \in S, ~OpenBinary(n), NEW k \in Nat
  PROVE  LeftEdge(n)[k] = n
<1> DEFINE e == LeftEdge(n)
           Bad == {i \in Nat : e[i] # n}
<1>1. e[0] = n /\ \A i \in Nat : e[i + 1] = FirstPart(e[i])
  BY LeftEdgeUnfolds
<1>2. FirstPart(n) = n
  BY DEF FirstPart
<1> HIDE DEF e
<1>3. SUFFICES ASSUME Bad # {} PROVE FALSE
  BY DEF e
<1>4. PICK i \in Bad : \A x \in Bad : i <= x
  <2>1. Bad \in SUBSET Nat
    OBVIOUS
  <2> HIDE DEF Bad
  <2> QED
    BY <1>3, <2>1, LeastNatural
<1>5. i # 0 /\ i \in Nat
  BY <1>1, <1>4
<1>6. i - 1 \in Nat /\ i - 1 \notin Bad /\ i - 1 + 1 = i
  BY <1>4, <1>5
<1>7. e[i] = FirstPart(e[i - 1]) /\ e[i - 1] = n
  BY <1>1, <1>6
<1> QED
  BY <1>2, <1>4, <1>7

\* The operator printed first of a binary expression is its own, or the one
\* printed first of its first operand.
LEMMA OpensWithItsOwn ==
  ASSUME NEW S, HasOperands(S), NEW n \in S, NEW p \in Int, Size \in Nat,
         n.kind = "BinExpr", ~OpenBinary(n.kids[1]), prec(n) > p
  PROVE  OpensTighter(n, p)
<1>1. n.kids[1] \in S /\ 0 \in Nat
  BY DEF HasOperands
<1>2. LeftEdge(n)[0] = n
  BY LeftEdgeUnfolds
<1>3. ASSUME NEW k \in 0 .. Size, k # 0 PROVE ~OpenBinary(LeftEdge(n)[k]) \/ ~OpenBinary(n)
  <2>1. k - 1 \in Nat /\ k - 1 + 1 = k
    BY <1>3
  <2>2. LeftEdge(n.kids[1])[k - 1] = n.kids[1]
    BY <1>1, <2>1, EdgeOfClosed
  <2>3. OpenBinary(n) => LeftEdge(n)[k - 1 + 1] = LeftEdge(n.kids[1])[k - 1]
    BY <2>1, EdgeOfOperand
  <2> QED
    BY <2>1, <2>2, <2>3
<1>4. ASSUME NEW k \in 0 .. Size PROVE ~OpenBinary(n) => LeftEdge(n)[k] = n
  BY EdgeOfClosed
<1>5. ASSUME NEW k \in 0 .. Size, OpenBinary(LeftEdge(n)[k])
      PROVE  prec(LeftEdge(n)[k]) > p
  <2>1. CASE k = 0
    BY <1>2, <2>1
  <2>2. CASE k # 0
    BY <1>3, <1>4, <1>5, <2>2
  <2> QED
    BY <2>1, <2>2
<1> QED
  BY <1>5 DEF OpensTighter

LEMMA OpensWithFirst ==
  ASSUME NEW S, HasOperands(S), NEW n \in S, NEW p, Size \in Nat,
         OpenBinary(n), OpenBinary(n.kids[1]), OpensTighter(n.kids[1], p)
  PROVE  OpensTighter(n, p)
<1>1. LeftEdge(n)[0] = n
  BY LeftEdgeUnfolds
<1>2. ASSUME NEW k \in 0 .. Size, OpenBinary(LeftEdge(n)[k]),
             ~OpenBinary(LeftEdge(n)[k].kids[1])
      PROVE  prec(LeftEdge(n)[k]) > p
  <2>1. k # 0
    BY <1>1, <1>2
  <2>2. k - 1 \in Nat /\ k - 1 + 1 = k /\ k - 1 \in 0 .. Size
    BY <2>1
  <2>3. LeftEdge(n)[k - 1 + 1] = LeftEdge(n.kids[1])[k - 1]
    BY <2>2, EdgeOfOperand
  <2> QED
    BY <1>2, <2>2, <2>3 DEF OpensTighter
<1> QED
  BY <1>2 DEF OpensTighter

-----------------------------------------------------------------------------
(* The invariant about operators.                                            *)

IsOperator(k) == token(k) \in BinOps
level(k) == binOpPrec[token(k)]

LEMMA Levels ==
  ASSUME NEW k, IsOperator(k)
  PROVE  level(k) \in {10, 20}
BY DEF IsOperator, level, BinOps, binOpPrec

\* The operators of a node and its operands are as the grammar wants them.
Grouped(n) ==
  n.kind = "BinExpr" =>
    /\ IsOperator(n.at)
    /\ \A k \in 1 .. 2 : OpenBinary(n.kids[k]) => prec(n.kids[k]) >= prec(n)
    /\ OpenBinary(n.kids[2]) => OpensTighter(n.kids[2], prec(n))

\* A function has handed its right operand over for a tighter operator.
Climbs(f) == f.fn = "BinOpRhsExpr" /\ f.pc = 3

\* What a function has kept, whoever goes on.
Kept(f) ==
  /\ f.fn = "PrefixExpr" \/ (f.fn = "BinaryExpr" /\ f.pc = 2) =>
       \A k \in DOMAIN f.kids : ~OpenBinary(f.kids[k])
  /\ f.fn = "BinOpRhsExpr" /\ f.pc \in 2 .. 4 =>
       /\ IsOperator(f.at)
       /\ OpenBinary(f.kids[1]) => prec(f.kids[1]) >= level(f.at)

\* What f gathers for the right operand of g begins with a tighter operator.
Above(g, f) ==
  /\ level(g.at) = 10
  /\ IF OpenBinary(f.kids[1]) THEN OpensTighter(f.kids[1], 10)
     ELSE f.pc \in 2 .. 4 => level(f.at) > 10

Nested(s) ==
  \A k \in 1 .. Len(s) :
    /\ Kept(s[k])
    /\ k # Len(s) => (Climbs(s[k + 1]) => Above(s[k + 1], s[k]))

Under(t, f) ==
  /\ Kept(f)
  /\ t # <<>> => (Climbs(t[1]) => Above(t[1], f)) /\ Nested(t)

NextIsTighter(p, c) == IsOperator(c) /\ level(c) > p

\* The function at the top goes on at the token c.
Goes(f, c) ==
  f.fn = "BinOpRhsExpr" =>
    /\ f.pc \in {1, 5} /\ OpenBinary(f.kids[1]) => ~NextIsTighter(prec(f.kids[1]), c)
    /\ f.pc = 3 => ~OpenBinary(f.kids[2])
    /\ f.pc = 4 => IF OpenBinary(f.kids[2])
                     THEN /\ ~IsOperator(c) /\ level(f.at) = 10
                          /\ OpensTighter(f.kids[2], 10)
                     ELSE ~NextIsTighter(level(f.at), c)
    /\ f.pc = 6 => ~IsOperator(c)

\* It was called because a tighter operator follows.
Begun(f, c) == f.pc \in {1, 5} /\ ~OpenBinary(f.kids[1]) => NextIsTighter(10, c)

Going(f, t, c) ==
  /\ Goes(f, c)
  /\ t # <<>> => (Climbs(t[1]) => Begun(f, c))

\* It is returned the node n.
Gets(f, n, c) ==
  /\ Callee(f) \notin Loose => ~OpenBinary(n)
  /\ Climbs(f) => /\ level(f.at) = 10
                  /\ ~IsOperator(c)
                  /\ OpenBinary(n) => OpensTighter(n, 10)

Ordered(s, r, c) ==
  /\ Nested(s)
  /\ s # <<>> => IF r = Nothing THEN Going(s[1], Tail(s), c)
                 ELSE r # EmptyNode => Gets(s[1], r, c)

Grouping(S) ==
  /\ \A n \in S : Grouped(n)
  /\ status = "running" => Ordered(stack, ret, cursor)

-----------------------------------------------------------------------------

LEMMA NestedCons ==
  ASSUME NEW F, NEW f \in F, NEW t \in Seq(F)
  PROVE  Nested(<<f>> \o t) <=> Under(t, f)
<1> DEFINE s == <<f>> \o t
           m == Len(t)
           Good(u, k, n) == /\ Kept(u[k])
                            /\ k # n => (Climbs(u[k + 1]) => Above(u[k + 1], u[k]))
<1>1. /\ s[1] = f /\ m \in Nat /\ Len(s) = m + 1
      /\ \A k \in 1 .. m : s[k + 1] = t[k]
  BY Cons
<1>2. m = 0 <=> t = <<>>
  BY EmptySeq
<1>3. Nested(s) <=> \A k \in 1 .. m + 1 : Good(s, k, m + 1)
  BY <1>1 DEF Nested
<1>4. Nested(t) <=> \A k \in 1 .. m : Good(t, k, m)
  BY DEF Nested
<1>5. \A k \in 1 .. m : Good(s, k + 1, m + 1) <=> Good(t, k, m)
  <2> TAKE k \in 1 .. m
  <2>1. s[k + 1] = t[k] /\ (k # m => s[k + 1 + 1] = t[k + 1])
    BY <1>1
  <2>2. k + 1 = m + 1 <=> k = m
    BY <1>1
  <2> QED
    BY <2>1, <2>2
<1>6. Good(s, 1, m + 1) <=> Kept(f) /\ (m # 0 => (Climbs(t[1]) => Above(t[1], f)))
  <2>1. m # 0 => s[1 + 1] = t[1]
    BY <1>1
  <2>2. 1 = m + 1 <=> m = 0
    BY <1>1
  <2> QED
    BY <1>1, <2>1, <2>2
<1>7. (\A k \in 1 .. m + 1 : Good(s, k, m + 1))
        <=> Good(s, 1, m + 1) /\ \A k \in 1 .. m : Good(s, k + 1, m + 1)
  <2> HIDE DEF Good, s, m
  <2>1. \A k \in 1 .. m + 1 : k = 1 \/ (k - 1 \in 1 .. m /\ k = k - 1 + 1)
    BY <1>1
  <2>2. \A k \in 1 .. m : k + 1 \in 1 .. m + 1
    BY <1>1
  <2>3. 1 \in 1 .. m + 1
    BY <1>1
  <2> QED
    BY <2>1, <2>2, <2>3
<1>8. (\A k \in 1 .. m : Good(s, k + 1, m + 1)) <=> (\A k \in 1 .. m : Good(t, k, m))
  BY <1>5
<1>9. m = 0 => Nested(t)
  BY <1>1, <1>4
<1> HIDE DEF Good, s, m
<1>10. Nested(s) <=> Under(t, f)
  BY <1>2, <1>3, <1>4, <1>6, <1>7, <1>8, <1>9 DEF Under
<1> QED
  BY <1>10 DEF s

\* What is said depends on the tokens, which stay.
LEMMA OrderedNext ==
  ASSUME UNCHANGED tokens, Ordered(stack', ret', cursor')
  PROVE  Ordered(stack, ret, cursor)'
BY DEF Ordered, Nested, Going, Goes, Begun, Gets, Kept, Above, NextIsTighter, IsOperator,
       level, OpensTighter, prec, token, Size

LEMMA GroupedNext ==
  ASSUME UNCHANGED tokens, NEW n, Grouped(n)
  PROVE  Grouped(n)'
BY DEF Grouped, IsOperator, OpensTighter, prec, token, Size

LEMMA GroupingNext ==
  ASSUME UNCHANGED tokens, NEW T, \A n \in T : Grouped(n),
         status' = "running" => Ordered(stack', ret', cursor')
  PROVE  Grouping(T)'
<1>1. \A n \in T : Grouped(n)'
  BY GroupedNext
<1>2. status' = "running" => Ordered(stack, ret, cursor)'
  BY OrderedNext
<1> QED
  BY <1>1, <1>2 DEF Grouping

\* A function that was called for a tighter operator is parseBinOpRhsExpr().
LEMMA CalledForOperator ==
  ASSUME NEW S, NEW t, NEW f, Beneath(S, t, f), t # <<>>, Climbs(t[1])
  PROVE  f.fn = "BinOpRhsExpr"
<1>1. Callee(t[1]) = f.fn
  BY DEF Beneath, CalledBy
<1>2. stepAt("BinOpRhsExpr", 3).fn = "BinOpRhsExpr"
  BY DEF stepAt, script, parseBinOpRhsExpr, Climb, Step
<1> QED
  BY <1>1, <1>2 DEF Climbs, Callee

\* What is known of the function at the top, and of those that wait for it.
LEMMA TopGrouping ==
  ASSUME NEW S, Holds(S), Grouping(S), status = "running", stack # <<>>
  PROVE  /\ Under(Tail(stack), Top)
         /\ Tail(stack) \in Seq(Frames(S, Size))
         /\ Beneath(S, Tail(stack), Top)
         /\ ret = Nothing => Going(Top, Tail(stack), cursor)
         /\ ret \notin {Nothing, EmptyNode} => Gets(Top, ret, cursor)
         /\ \A n \in S : Grouped(n)
<1>1. Types(S) /\ Called(S, stack) /\ Ordered(stack, ret, cursor)
  BY DEF Holds, Grouping
<1>2. /\ Top = stack[1] /\ Tail(stack) \in Seq(Frames(S, Size))
      /\ Beneath(S, Tail(stack), Top) /\ Top \in Frames(S, Size)
  BY <1>1, TopFacts DEF IsTop
<1>3. stack = <<Top>> \o Tail(stack)
  BY <1>1, Uncons DEF Types, Top
<1>4. Nested(<<Top>> \o Tail(stack))
  BY <1>1, <1>3 DEF Ordered
<1>5. Under(Tail(stack), Top)
  BY <1>2, <1>4, NestedCons
<1> QED
  BY <1>1, <1>2, <1>5 DEF Ordered, Grouping

\* The function at the top goes on.
LEMMA GroupingStays ==
  ASSUME NEW S, Holds(S), Grouping(S), status = "running", stack # <<>>,
         NEW T, \A n \in T : Grouped(n),
         NEW g, g.fn = Top.fn, SetTop(g), Kept(g), ret' = Nothing,
         UNCHANGED <<tokens, status>>,
         g.fn = "BinOpRhsExpr" =>
           /\ Goes(g, cursor')
           /\ Tail(stack) # <<>> /\ Climbs(Tail(stack)[1]) =>
                Above(Tail(stack)[1], g) /\ Begun(g, cursor')
  PROVE  Grouping(T)'
<1> DEFINE t == Tail(stack)
           F == Frames(S, Size) \cup {g}
<1>1. Under(t, Top) /\ Beneath(S, t, Top) /\ t \in Seq(Frames(S, Size))
  BY TopGrouping
<1>2. t \in Seq(F) /\ g \in F
  BY <1>1, SeqGrows
<1> HIDE DEF F
<1>3. t # <<>> /\ Climbs(t[1]) => g.fn = "BinOpRhsExpr"
  BY <1>1, CalledForOperator
<1>4. Under(t, g)
  BY <1>1, <1>3 DEF Under
<1>5. stack' = <<g>> \o t
  BY DEF SetTop
<1>6. Nested(stack') /\ stack'[1] = g /\ Tail(stack') = t
  BY <1>2, <1>4, <1>5, NestedCons, Cons
<1>7. Going(g, t, cursor')
  BY <1>3 DEF Going, Goes
<1>8. Ordered(stack', ret', cursor')
  BY <1>6, <1>7 DEF Ordered
<1> QED
  BY <1>8, GroupingNext

\* It returns.
LEMMA GroupingLeaves ==
  ASSUME NEW S, Holds(S), Grouping(S), status = "running", stack # <<>>,
         NEW T, \A n \in T : Grouped(n), NEW n, Leave(n), n # Nothing,
         UNCHANGED <<tokens, status>>,
         n # EmptyNode /\ Tail(stack) # <<>> => Gets(Tail(stack)[1], n, cursor')
  PROVE  Grouping(T)'
<1>1. Under(Tail(stack), Top)
  BY TopGrouping
<1>2. stack' = Tail(stack) /\ ret' = n
  BY DEF Leave
<1>3. Nested(<<>>)
  BY DEF Nested
<1>4. Ordered(stack', ret', cursor')
  BY <1>1, <1>2, <1>3 DEF Ordered, Under
<1> QED
  BY <1>4, GroupingNext

\* It ends with an error.
LEMMA GroupingStops ==
  ASSUME NEW S, Grouping(S), status' # "running", UNCHANGED tokens
  PROVE  Grouping(S)'
BY GroupingNext DEF Grouping

\* The steps of the functions that look at operators.
LEMMA OperatorScript ==
  /\ Steps("BinOpRhsExpr") = 1 .. 6
  /\ stepAt("BinOpRhsExpr", 1) = When(BinOps, 6)
  /\ stepAt("BinOpRhsExpr", 2) = Sub("PrefixExpr", "here")
  /\ stepAt("BinOpRhsExpr", 3) = Climb("BinOpRhsExpr")
  /\ stepAt("BinOpRhsExpr", 4) = Combine
  /\ stepAt("BinOpRhsExpr", 5) = Jump(1)
  /\ stepAt("BinOpRhsExpr", 6) = Return
  /\ Steps("PrefixExpr") = 1 .. 4
  /\ stepAt("PrefixExpr", 1) = When(PrefixOps, 3)
  /\ stepAt("PrefixExpr", 2) = Jump(1)
  /\ stepAt("PrefixExpr", 3) = Sub("PrimaryExpr", "reset")
  /\ stepAt("PrefixExpr", 4) = Return
  /\ Steps("BinaryExpr") = 1 .. 4
  /\ stepAt("BinaryExpr", 1) = Opt("PrefixExpr", 4)
  /\ stepAt("BinaryExpr", 2) = With("BinOpRhsExpr")
  /\ stepAt("BinaryExpr", 3) = Return
  /\ stepAt("BinaryExpr", 4) = ReturnEmpty
BY DEF Steps, stepAt, script, parseBinOpRhsExpr, parsePrefixExpr, parseBinaryExpr

LEMMA OperatorSteps ==
  ASSUME NEW fn, NEW pc \in Steps(fn)
  PROVE  LET s == stepAt(fn, pc)
         IN  /\ fn = "BinOpRhsExpr" =>
                  \/ pc = 1 /\ s = When(BinOps, 6)
                  \/ pc = 2 /\ s.op = "call" /\ s.fn = "PrefixExpr" /\ s.fail = "here"
                  \/ pc = 3 /\ s.op = "climb" /\ s.fn = "BinOpRhsExpr"
                  \/ pc = 4 /\ s.op = "combine"
                  \/ pc = 5 /\ s.op = "jump" /\ s.other = 1
                  \/ pc = 6 /\ s.op = "return"
             /\ fn = "PrefixExpr" =>
                  \/ pc = 1 /\ s.op = "when"
                  \/ pc = 2 /\ s.op = "jump"
                  \/ pc = 3 /\ s.op = "call" /\ s.fn = "PrimaryExpr" /\ s.fail = "reset"
                  \/ pc = 4 /\ s.op = "return"
             /\ fn = "BinaryExpr" =>
                  \/ pc = 1 /\ s.op = "call" /\ s.fn = "PrefixExpr" /\ s.other = 4
                  \/ pc = 2 /\ s.op = "with"
                  \/ pc = 3 /\ s.op = "return"
                  \/ pc = 4 /\ s.op = "empty"
<1>1. CASE fn = "BinOpRhsExpr"
  <2>1. pc \in {1, 2, 3, 4, 5, 6}
    BY <1>1, OperatorScript
  <2> QED
    BY <1>1, <2>1, OperatorScript DEF Step, When, Sub, Climb, Combine, Jump, Return
<1>2. CASE fn = "PrefixExpr"
  <2>1. pc \in {1, 2, 3, 4}
    BY <1>2, OperatorScript
  <2> QED
    BY <1>2, <2>1, OperatorScript DEF Step, When, Sub, Climb, Combine, Jump, Return
<1>3. CASE fn = "BinaryExpr"
  <2>1. pc \in {1, 2, 3, 4}
    BY <1>3, OperatorScript
  <2> QED
    BY <1>3, <2>1, OperatorScript DEF Step, Opt, With, Return, ReturnEmpty
<1> QED
  BY <1>1, <1>2, <1>3

\* The step at the top, with the names of this part.
LEMMA TopSteps ==
  ASSUME NEW S, Holds(S), Grouping(S), status = "running", stack # <<>>
  PROVE  /\ IsTop(S, Top) /\ step = stepAt(Top.fn, Top.pc) /\ Top.pc \in Steps(Top.fn)
         /\ \A pc : LET g == [Top EXCEPT !.pc = pc]
                    IN  g.fn = Top.fn /\ g.kids = Top.kids /\ g.pc = pc /\ g.at = Top.at
         /\ \A n \in S : Grouped(n)
         /\ HasOperands(S) /\ Size \in Nat
<1>1. IsTop(S, Top) /\ step = stepAt(Top.fn, Top.pc) /\ Types(S)
  BY TopFacts DEF Holds
<1>2. Size \in Nat
  BY <1>1, TokensEnd DEF Types
<1>3. HasOperands(S)
  BY <1>1, BuiltOperands DEF Types
<1> QED
  BY <1>1, <1>2, <1>3 DEF Grouping, IsTop, Frames

\* A function that looks at no operators goes on with what it has kept.
LEMMA GroupingKeeps ==
  ASSUME NEW S, Holds(S), Grouping(S), status = "running", stack # <<>>,
         NEW g, SetTop(g), g.fn = Top.fn, g.kids = Top.kids,
         Top.fn # "BinOpRhsExpr", Top.fn = "BinaryExpr" => g.pc # 2,
         ret' = Nothing, UNCHANGED <<tokens, status>>
  PROVE  Grouping(S)'
<1>1. Under(Tail(stack), Top) /\ \A n \in S : Grouped(n)
  BY TopGrouping
<1>2. Kept(g)
  BY <1>1 DEF Under, Kept
<1> QED
  BY <1>1, <1>2, GroupingStays

LEMMA GroupingFails ==
  ASSUME NEW S, Holds(S), Grouping(S), status = "running", stack # <<>>,
         NEW cur, Fail(cur), UNCHANGED tokens,
         step.fail = "goto" /\ Top.fn = "BinOpRhsExpr" =>
           step.other = 6 /\ ~IsOperator(cursor),
         step.fail = "goto" /\ Top.fn = "BinaryExpr" => step.other # 2
  PROVE  Grouping(S)'
<1>1. CASE /\ step.fail = "reset" /\ Leave(EmptyNode) /\ UNCHANGED status
  <2>1. EmptyNode # Nothing /\ \A n \in S : Grouped(n)
    BY TopGrouping DEF EmptyNode, Nothing, Node
  <2> QED
    BY <1>1, <2>1, GroupingLeaves
<1>2. CASE /\ step.fail = "goto" /\ GoTo(step.other) /\ ret' = Nothing
           /\ UNCHANGED <<cursor, status>>
  <2> DEFINE g == [Top EXCEPT !.pc = step.other]
  <2>1. /\ g.fn = Top.fn /\ g.kids = Top.kids /\ g.pc = step.other /\ SetTop(g)
        /\ \A n \in S : Grouped(n)
    BY <1>2, TopSteps DEF GoTo
  <2> HIDE DEF g
  <2>2. CASE Top.fn # "BinOpRhsExpr"
    BY <1>2, <2>1, <2>2, GroupingKeeps
  <2>3. CASE Top.fn = "BinOpRhsExpr"
    <3>1. Kept(g) /\ Goes(g, cursor') /\ Begun(g, cursor')
      BY <1>2, <2>1, <2>3 DEF Kept, Goes, Begun
    <3>2. Tail(stack) # <<>> /\ Climbs(Tail(stack)[1]) => Above(Tail(stack)[1], g)
      <4>1. Under(Tail(stack), Top)
        BY TopGrouping
      <4> QED
        BY <1>2, <2>1, <2>3, <4>1 DEF Under, Above
    <3> QED
      BY <1>2, <2>1, <2>3, <3>1, <3>2, GroupingStays
  <2> QED
    BY <2>2, <2>3
<1>3. CASE step.fail \in {"mark", "prev", "here", "comma"} /\ Fatal(reported(cur))
  <2>1. status' # "running"
    BY <1>3 DEF Fatal
  <2> QED
    BY <2>1, GroupingStops
<1> QED
  BY <1>1, <1>2, <1>3 DEF Fail

LEMMA GroupingToken ==
  ASSUME NEW S, Holds(S), Grouping(S),
         TakeToken \/ RefuseToken \/ PeekToken \/ PeekOther \/ SkipNothing
  PROVE  Grouping(S)'
<1>1. PICK op \in {"take", "peek", "when"} : At(op)
  BY DEF TakeToken, RefuseToken, PeekToken, PeekOther, SkipNothing
<1>2. status = "running" /\ stack # <<>> /\ step.op = op /\ UNCHANGED tokens /\ ret = Nothing
  BY <1>1 DEF At
<1>3. step = stepAt(Top.fn, Top.pc) /\ Top.pc \in Steps(Top.fn) /\ IsTop(S, Top)
  BY <1>2, TopSteps
<1>4. op # "when" => Top.fn \notin {"BinOpRhsExpr", "BinaryExpr"}
  BY <1>2, <1>3, OperatorSteps DEF When, Step
<1>5. CASE TakeToken \/ PeekToken
  <2>1. op # "when" /\ Proceed /\ UNCHANGED <<status>> /\ ret' = Nothing
    BY <1>2, <1>5 DEF TakeToken, PeekToken, At
  <2> DEFINE g == [Top EXCEPT !.pc = Top.pc + 1]
  <2>2. g.fn = Top.fn /\ g.kids = Top.kids /\ SetTop(g)
    BY <1>2, <2>1, TopSteps DEF Proceed, GoTo
  <2> HIDE DEF g
  <2> QED
    BY <1>2, <1>4, <2>1, <2>2, GroupingKeeps
<1>6. CASE RefuseToken \/ PeekOther \/ SkipNothing
  <2>1. PICK cur : Fail(cur)
    BY <1>6 DEF RefuseToken, PeekOther, SkipNothing
  <2>2. step.fail = "goto" /\ Top.fn = "BinOpRhsExpr" => step.other = 6 /\ ~IsOperator(cursor)
    <3>1. ASSUME Top.fn = "BinOpRhsExpr" PROVE step = When(BinOps, 6)
      BY <1>2, <1>3, <3>1, OperatorSteps
    <3>2. ASSUME Top.fn = "BinOpRhsExpr" PROVE step.other = 6 /\ token(cursor) \notin BinOps
      BY <1>6, <3>1, <3>2 DEF RefuseToken, PeekOther, SkipNothing, When, Step
    <3> QED
      BY <3>2 DEF IsOperator
  <2>3. Top.fn # "BinaryExpr"
    BY <1>2, <1>3, OperatorSteps
  <2> QED
    BY <1>2, <2>1, <2>2, <2>3, GroupingFails
<1> QED
  BY <1>5, <1>6

\* The operands that a function has kept are nodes.
LEMMA Operands ==
  ASSUME NEW S, NEW kids \in Seq(S), NEW pc, Fits("BinOpRhsExpr", pc, kids)
  PROVE  /\ Len(kids) = IF pc \in {3, 4} THEN 2 ELSE 1
         /\ kids[1] \in S
         /\ pc \in {3, 4} => kids[2] \in S
<1>1. Len(kids) = IF pc \in {3, 4} THEN 2 ELSE 1
  BY DEF Fits
<1>2. \A k \in 1 .. Len(kids) : kids[k] \in S
  BY LenProperties, ElementOfSeq
<1> QED
  BY <1>1, <1>2

LEMMA OperandLevels ==
  ASSUME NEW S, \A n \in S : Grouped(n), NEW n \in S, n.kind = "BinExpr"
  PROVE  prec(n) = level(n.at) /\ prec(n) \in {10, 20}
BY Levels DEF Grouped, prec, level

LEMMA SkipTokenGrouping ==
  ASSUME NEW S, Holds(S), Grouping(S), SkipToken
  PROVE  Grouping(S)'
<1> DEFINE g == Past(Top, Top.pc + 1, cursor)
           t == Tail(stack)
<1>1. /\ At("when") /\ status = "running" /\ stack # <<>> /\ ret = Nothing
      /\ ret' = Nothing /\ UNCHANGED <<tokens, status>> /\ cursor' = cursor + 1
      /\ SetTop(g)
  BY DEF SkipToken, At, Past
<1>2. /\ IsTop(S, Top) /\ step = stepAt(Top.fn, Top.pc) /\ step.op = "when"
      /\ Fits(Top.fn, Top.pc, Top.kids)
  BY <1>1, AtFacts
<1>3. g.fn = Top.fn /\ g.kids = Top.kids /\ g.pc = Top.pc + 1 /\ g.at = cursor
  <2>1. Top.pc + 1 \in Steps(Top.fn) /\ cursor \in Top.mark - 1 .. Size - 2 /\ cursor \in Int
    <3>1. Top.mark <= cursor /\ Consumes(Top.fn, Top.pc) /\ "Eof" \notin step.kinds
          /\ tokens \in Inputs /\ cursor \in 0 .. Size - 1 /\ Size \in Nat
      BY <1>1, <1>2, AtFacts DEF Placed, IsTop, StepFacts, Types
    <3>2. cursor + 1 \in 0 .. Size - 1
      BY <3>1, NotAtEnd DEF SkipToken
    <3> QED
      BY <1>2, <3>1, <3>2 DEF Consumes, IsTop
  <2> QED
    BY <1>2, <2>1, PastIsFrame DEF IsTop
<1> HIDE DEF g
<1>4. Top.fn # "BinaryExpr"
  BY <1>2, OperatorSteps DEF IsTop
<1>5. CASE Top.fn # "BinOpRhsExpr"
  BY <1>1, <1>3, <1>4, <1>5, GroupingKeeps
<1>6. CASE Top.fn = "BinOpRhsExpr"
  <2>1. Top.pc = 1 /\ step = When(BinOps, 6)
    BY <1>2, <1>6, OperatorSteps DEF IsTop
  <2>2. IsOperator(cursor) /\ level(cursor) \in {10, 20}
    BY <2>1, Levels DEF SkipToken, When, Step, IsOperator
  <2>3. /\ Under(t, Top) /\ Going(Top, t, cursor)
        /\ \A n \in S : Grouped(n)
    BY <1>1, TopGrouping
  <2>4. Top.kids[1] \in S
    BY <1>2, <1>6, Operands DEF IsTop
  <2>5. OpenBinary(Top.kids[1]) => prec(Top.kids[1]) >= level(cursor)
    <3>1. ASSUME OpenBinary(Top.kids[1])
          PROVE  /\ ~NextIsTighter(prec(Top.kids[1]), cursor)
                 /\ prec(Top.kids[1]) \in {10, 20}
      BY <1>6, <2>1, <2>3, <2>4, <3>1, OperandLevels DEF Going, Goes, OpenBinary
    <3> QED
      BY <2>2, <3>1 DEF NextIsTighter
  <2>6. Kept(g) /\ Goes(g, cursor') /\ Begun(g, cursor')
    BY <1>3, <1>6, <2>1, <2>2, <2>5 DEF Kept, Goes, Begun
  <2>7. ASSUME t # <<>>, Climbs(t[1]) PROVE Above(t[1], g)
    BY <1>3, <1>6, <2>1, <2>3, <2>7 DEF Under, Above, Going, Begun, NextIsTighter
  <2> QED
    BY <1>1, <1>3, <1>6, <2>3, <2>6, <2>7, GroupingStays
<1> QED
  BY <1>5, <1>6

LEMMA JumpToGrouping ==
  ASSUME NEW S, Holds(S), Grouping(S), JumpTo
  PROVE  Grouping(S)'
<1> DEFINE g == [Top EXCEPT !.pc = step.other]
           t == Tail(stack)
<1>1. /\ At("jump") /\ status = "running" /\ stack # <<>> /\ ret = Nothing
      /\ ret' = Nothing /\ UNCHANGED <<tokens, status, cursor>> /\ SetTop(g)
      /\ step.op = "jump"
  BY DEF JumpTo, At, GoTo
<1>2. /\ step = stepAt(Top.fn, Top.pc) /\ Top.pc \in Steps(Top.fn)
      /\ g.fn = Top.fn /\ g.kids = Top.kids /\ g.pc = step.other
  BY <1>1, TopSteps
<1> HIDE DEF g
<1>3. Top.fn # "BinaryExpr"
  BY <1>1, <1>2, OperatorSteps
<1>4. CASE Top.fn # "BinOpRhsExpr"
  BY <1>1, <1>2, <1>3, <1>4, GroupingKeeps
<1>5. CASE Top.fn = "BinOpRhsExpr"
  <2>1. Top.pc = 5 /\ g.pc = 1
    BY <1>1, <1>2, <1>5, OperatorSteps DEF When, Step
  <2>2. /\ Under(t, Top) /\ Going(Top, t, cursor)
        /\ \A n \in S : Grouped(n)
    BY <1>1, TopGrouping
  <2>3. Kept(g)
    BY <1>2, <1>5, <2>1 DEF Kept
  <2>4. Goes(g, cursor')
    BY <1>1, <1>2, <1>5, <2>1, <2>2 DEF Going, Goes
  <2>5. ASSUME t # <<>>, Climbs(t[1]) PROVE Above(t[1], g) /\ Begun(g, cursor')
    BY <1>1, <1>2, <1>5, <2>1, <2>2, <2>5 DEF Under, Above, Going, Begun
  <2> QED
    BY <1>1, <1>2, <1>5, <2>2, <2>3, <2>4, <2>5, GroupingStays
<1> QED
  BY <1>4, <1>5

LEMMA StayLevelGrouping ==
  ASSUME NEW S, Holds(S), Grouping(S), StayLevel
  PROVE  Grouping(S)'
<1> DEFINE g == [Top EXCEPT !.pc = Top.pc + 1]
           t == Tail(stack)
<1>1. /\ At("climb") /\ status = "running" /\ stack # <<>> /\ ret = Nothing
      /\ ret' = Nothing /\ UNCHANGED <<tokens, status, cursor>> /\ SetTop(g)
      /\ step.op = "climb"
  BY DEF StayLevel, At, Proceed, GoTo
<1>2. /\ step = stepAt(Top.fn, Top.pc) /\ Top.pc \in Steps(Top.fn) /\ IsTop(S, Top)
      /\ g.fn = Top.fn /\ g.kids = Top.kids /\ g.pc = Top.pc + 1 /\ g.at = Top.at
  BY <1>1, TopSteps
<1> HIDE DEF g
<1>3. Top.fn = "BinOpRhsExpr" /\ Top.pc = 3
  BY <1>1, <1>2, OperatorSteps DEF IsTop, StepFacts, Hands
<1>4. /\ Under(t, Top) /\ Going(Top, t, cursor)
      /\ \A n \in S : Grouped(n)
  BY <1>1, TopGrouping
<1>5. Kept(g)
  BY <1>2, <1>3, <1>4 DEF Kept, Under
<1>6. ~OpenBinary(Top.kids[2]) /\ ~NextIsTighter(level(Top.at), cursor)
  BY <1>3, <1>4 DEF Going, Goes, StayLevel, NextBindsTighter, NextIsTighter, IsOperator, level
<1>7. Goes(g, cursor')
  BY <1>1, <1>2, <1>3, <1>6 DEF Goes
<1>8. ASSUME t # <<>>, Climbs(t[1]) PROVE Above(t[1], g) /\ Begun(g, cursor')
  BY <1>1, <1>2, <1>3, <1>4, <1>8 DEF Under, Above, Begun
<1> QED
  BY <1>1, <1>2, <1>4, <1>5, <1>7, <1>8, GroupingStays

LEMMA EmptyGrouping ==
  ASSUME NEW S, Holds(S), Grouping(S),
         ReturnEmptyNode \/ NextAlternative \/ ResumeWithEmpty
  PROVE  Grouping(S)'
<1>1. CASE ReturnEmptyNode
  <2>1. /\ status = "running" /\ stack # <<>> /\ Leave(EmptyNode)
        /\ UNCHANGED <<tokens, status>>
    BY <1>1 DEF ReturnEmptyNode, At
  <2>2. EmptyNode # Nothing /\ \A n \in S : Grouped(n)
    BY <2>1, TopGrouping DEF EmptyNode, Nothing, Node
  <2> QED
    BY <2>1, <2>2, GroupingLeaves
<1>2. CASE NextAlternative
  <2> DEFINE g == [Top EXCEPT !.pc = Top.pc + 1]
  <2>1. /\ Resume /\ status = "running" /\ stack # <<>> /\ ret' = Nothing
        /\ UNCHANGED <<tokens, status>> /\ SetTop(g) /\ step.op = "alt"
    BY <1>2 DEF NextAlternative, Resume, Proceed, GoTo
  <2>2. /\ step = stepAt(Top.fn, Top.pc) /\ Top.pc \in Steps(Top.fn) /\ IsTop(S, Top)
        /\ g.fn = Top.fn /\ g.kids = Top.kids
    BY <2>1, TopSteps
  <2> HIDE DEF g
  <2>3. Top.fn \notin {"BinOpRhsExpr", "BinaryExpr"}
    BY <2>1, <2>2, OperatorSteps DEF When, Step
  <2> QED
    BY <2>1, <2>2, <2>3, GroupingKeeps
<1>3. CASE ResumeWithEmpty
  <2>1. /\ Resume /\ status = "running" /\ stack # <<>> /\ Fail(cursor)
        /\ UNCHANGED tokens /\ step.op = "call"
    BY <1>3 DEF ResumeWithEmpty, Resume
  <2>2. step = stepAt(Top.fn, Top.pc) /\ Top.pc \in Steps(Top.fn)
    BY <2>1, TopSteps
  <2>3. /\ Top.fn = "BinOpRhsExpr" => step.fail = "here"
        /\ Top.fn = "BinaryExpr" => step.other = 4
    BY <2>1, <2>2, OperatorSteps DEF When, Step
  <2> QED
    BY <2>1, <2>3, GroupingFails
<1> QED
  BY <1>1, <1>2, <1>3

LEMMA TwoOnTop ==
  ASSUME NEW F, NEW f \in F, NEW g \in F, NEW t \in Seq(F)
  PROVE  <<f, g>> \o t = <<f>> \o (<<g>> \o t)
<1> DEFINE s == <<f>> \o <<g>>
           p == <<f, g>>
<1>1. <<f>> \in Seq(F) /\ <<g>> \in Seq(F) /\ p \in Seq(F)
  OBVIOUS
<1>2. /\ Len(<<f>>) = 1 /\ <<f>>[1] = f /\ Len(<<g>>) = 1 /\ <<g>>[1] = g
      /\ Len(p) = 2 /\ p[1] = f /\ p[2] = g
  OBVIOUS
<1>3. s \in Seq(F) /\ Len(s) = 2 /\ s[1] = f /\ s[2] = g
  BY <1>1, <1>2, ConcatProperties
<1>4. s = p
  <2> HIDE DEF s, p
  <2>1. \A k \in 1 .. Len(s) : s[k] = p[k]
    BY <1>2, <1>3
  <2> QED
    BY <1>1, <1>2, <1>3, <2>1, SeqEqual
<1>5. s \o t = <<f>> \o (<<g>> \o t)
  <2> DEFINE a == <<f>>
             b == <<g>>
  <2> HIDE DEF a, b
  <2>1. (a \o b) \o t = a \o (b \o t)
    BY <1>1, ConcatAssociative DEF a, b
  <2> QED
    BY <2>1 DEF a, b
<1> HIDE DEF s, p
<1>6. p \o t = <<f>> \o (<<g>> \o t)
  BY <1>4, <1>5
<1> QED
  BY <1>6 DEF p

\* The function at the top calls another one; it may have handed a node over.
LEMMA GroupingCalls ==
  ASSUME NEW S, Holds(S), Grouping(S), status = "running", stack # <<>>,
         NEW f, NEW g, stack' = <<f, g>> \o Tail(stack), Under(Tail(stack), g),
         Kept(f), Goes(f, cursor), Climbs(g) => Above(g, f) /\ Begun(f, cursor),
         ret' = Nothing, UNCHANGED <<tokens, status, cursor>>
  PROVE  Grouping(S)'
<1> DEFINE t == Tail(stack)
           u == <<g>> \o t
           F == Frames(S, Size) \cup {f, g}
<1>1. t \in Seq(F) /\ f \in F /\ g \in F
  <2>1. t \in Seq(Frames(S, Size))
    BY TopGrouping
  <2> HIDE DEF t
  <2>2. t \in Seq(F)
    BY <2>1, SeqGrows
  <2> QED
    BY <2>2
<1> HIDE DEF F
<1>2. Nested(u) /\ u \in Seq(F) /\ u[1] = g /\ u # <<>>
  BY <1>1, NestedCons, Cons
<1>3. stack' = <<f>> \o u
  BY <1>1, TwoOnTop
<1> HIDE DEF u
<1>4. Under(u, f)
  BY <1>2 DEF Under
<1>5. Nested(stack') /\ stack'[1] = f /\ Tail(stack') = u
  <2>1. Nested(<<f>> \o u)
    BY <1>1, <1>2, <1>4, NestedCons
  <2>2. (<<f>> \o u)[1] = f /\ Tail(<<f>> \o u) = u
    BY <1>1, <1>2, Cons
  <2> QED
    BY <1>3, <2>1, <2>2
<1>6. Going(f, u, cursor')
  BY <1>2 DEF Going
<1>7. Ordered(stack', ret', cursor')
  BY <1>5, <1>6 DEF Ordered
<1>8. \A n \in S : Grouped(n)
  BY TopGrouping
<1> QED
  BY <1>7, <1>8, GroupingNext

LEMMA CallGrouping ==
  ASSUME NEW S, Holds(S), Grouping(S), Call
  PROVE  Grouping(S)'
<1> DEFINE f == Frame(step.fn, cursor, <<>>)
<1>1. PICK op \in {"call", "alt"} : At(op)
  BY DEF Call
<1>2. /\ Types(S) /\ status = "running" /\ stack # <<>>
      /\ IsTop(S, Top) /\ step = stepAt(Top.fn, Top.pc) /\ step.op = op
  BY <1>1, AtFacts
<1>3. UNCHANGED <<tokens, status, cursor>> /\ ret' = Nothing
  BY <1>1 DEF Call, At
<1>4. step.fn # "BinOpRhsExpr"
  BY <1>1, <1>2 DEF IsTop, StepFacts
<1>5. Top.pc \in Steps(Top.fn)
  BY <1>2 DEF IsTop
<1>6. ~Climbs(Top)
  BY <1>1, <1>2, <1>5, OperatorSteps DEF Climbs
<1>7. f.fn = step.fn /\ f.pc = 1 /\ f.kids = <<>>
  BY DEF Frame
<1>8. stack' = <<f, Top>> \o Tail(stack)
  <2> DEFINE G == Frames(S, Size) \cup {f}
  <2>1. stack = <<Top>> \o Tail(stack) /\ Tail(stack) \in Seq(Frames(S, Size))
    BY <1>2, Uncons DEF Types, Top
  <2>2. Tail(stack) \in Seq(G) /\ Top \in G /\ f \in G
    BY <1>2, <2>1, SeqGrows DEF IsTop
  <2> HIDE DEF G
  <2>3. <<f>> \in Seq(G) /\ <<Top>> \in Seq(G)
    BY <2>2
  <2>4. <<f, Top>> = <<f>> \o <<Top>>
    OBVIOUS
  <2>5. stack' = <<f>> \o stack
    BY DEF Call
  <2> HIDE DEF f
  <2> QED
    BY <2>1, <2>2, <2>3, <2>4, <2>5, ConcatAssociative
<1> HIDE DEF f
<1>9. Kept(f) /\ Goes(f, cursor)
  BY <1>4, <1>7 DEF Kept, Goes
<1>10. Under(Tail(stack), Top)
  BY <1>2, TopGrouping
<1> QED
  BY <1>2, <1>3, <1>6, <1>8, <1>9, <1>10, GroupingCalls

LEMMA HandOverGrouping ==
  ASSUME NEW S, Holds(S), Grouping(S), CallWith \/ ClimbUp
  PROVE  Grouping(S)'
<1> DEFINE last == Top.kids[Len(Top.kids)]
           front == SubSeq(Top.kids, 1, Len(Top.kids) - 1)
           f == Frame(step.fn, cursor, <<last>>)
           g == [Top EXCEPT !.kids = front]
           t == Tail(stack)
<1>1. PICK op \in Hands : At(op)
  BY DEF CallWith, ClimbUp, Hands
<1>2. /\ Types(S) /\ status = "running" /\ stack # <<>> /\ ret = Nothing
      /\ IsTop(S, Top) /\ step = stepAt(Top.fn, Top.pc) /\ step.op = op
      /\ Fits(Top.fn, Top.pc, Top.kids)
  BY <1>1, AtFacts DEF At
<1>3. /\ stack' = <<f, g>> \o t /\ ret' = Nothing
      /\ UNCHANGED <<tokens, status, cursor>>
  BY <1>1 DEF CallWith, ClimbUp, HandOver, At
<1>4. step.fn = "BinOpRhsExpr" /\ Top.pc \in Steps(Top.fn)
  BY <1>2 DEF IsTop, StepFacts
<1>5. f.fn = "BinOpRhsExpr" /\ f.pc = 1 /\ f.kids[1] = last
  BY <1>4 DEF Frame
<1>6. g.fn = Top.fn /\ g.pc = Top.pc /\ g.at = Top.at /\ g.kids = front
  BY <1>2 DEF IsTop, Frames
<1>7. /\ Len(front) = Len(Top.kids) - 1
      /\ \A k \in 1 .. Len(Top.kids) - 1 : front[k] = Top.kids[k]
      /\ front \in Seq(S)
  BY <1>2, HandsOver, WithoutLast DEF IsTop
<1>8. Under(t, Top) /\ Beneath(S, t, Top) /\ Going(Top, t, cursor)
  BY <1>2, TopGrouping
<1>9. CASE CallWith
  <2>1. step.op = "with"
    BY <1>9 DEF CallWith, At
  <2>2. Top.fn = "BinaryExpr" /\ Top.pc = 2
    BY <1>2, <1>4, <2>1, OperatorSteps DEF IsTop, StepFacts, Hands
  <2>3. Len(Top.kids) = 1
    BY <1>2, <2>2 DEF Fits
  <2>4. DOMAIN Top.kids = 1 .. 1 /\ last = Top.kids[1]
    BY <1>2, <2>3, LenProperties DEF IsTop
  <2>5. ~OpenBinary(last)
    BY <1>8, <2>2, <2>4 DEF Under, Kept
  <2>6. DOMAIN front = {}
    <3>1. Len(front) = 0
      BY <1>7, <2>3
    <3>2. DOMAIN front = 1 .. Len(front)
      BY <1>7, LenProperties
    <3> HIDE DEF front
    <3> QED
      BY <3>1, <3>2
  <2> HIDE DEF last, front, f, g
  <2>7. Kept(g) /\ ~Climbs(g)
    BY <1>6, <2>2, <2>6 DEF Kept, Climbs
  <2>8. t # <<>> => ~Climbs(t[1])
    BY <1>8, <2>2, CalledForOperator
  <2>9. Under(t, g)
    BY <1>8, <2>7, <2>8 DEF Under
  <2>10. Kept(f) /\ Goes(f, cursor)
    BY <1>5, <2>5 DEF Kept, Goes
  <2> QED
    BY <1>2, <1>3, <2>7, <2>9, <2>10, GroupingCalls
<1>10. CASE ClimbUp
  <2>1. step.op = "climb" /\ NextBindsTighter
    BY <1>10 DEF ClimbUp, At
  <2>2. Top.fn = "BinOpRhsExpr" /\ Top.pc = 3
    BY <1>2, <1>4, <2>1, OperatorSteps DEF IsTop, StepFacts, Hands
  <2>3. Len(Top.kids) = 2
    BY <1>2, <2>2 DEF Fits
  <2>4. last = Top.kids[2] /\ front[1] = Top.kids[1]
    BY <1>7, <2>3
  <2>5. ~OpenBinary(last)
    BY <1>8, <2>2, <2>4 DEF Going, Goes
  <2>6. IsOperator(Top.at) /\ level(Top.at) \in {10, 20}
    BY <1>8, <2>2, Levels DEF Under, Kept
  <2>7. IsOperator(cursor) /\ level(cursor) > level(Top.at)
    BY <2>1 DEF NextBindsTighter, IsOperator, level
  <2>8. level(Top.at) = 10 /\ NextIsTighter(10, cursor)
    BY <2>6, <2>7, Levels DEF NextIsTighter
  <2> HIDE DEF last, front, f, g
  <2>9. Kept(g)
    BY <1>6, <1>8, <2>2, <2>4 DEF Under, Kept
  <2>10. ASSUME t # <<>>, Climbs(t[1]) PROVE Above(t[1], g)
    BY <1>6, <1>8, <2>2, <2>4, <2>10 DEF Under, Above
  <2>11. Under(t, g)
    BY <1>8, <2>9, <2>10 DEF Under
  <2>12. Kept(f) /\ Goes(f, cursor) /\ Above(g, f) /\ Begun(f, cursor)
    BY <1>5, <1>6, <2>5, <2>8 DEF Kept, Goes, Above, Begun
  <2> QED
    BY <1>2, <1>3, <2>11, <2>12, GroupingCalls
<1> QED
  BY <1>9, <1>10

LEMMA CombineGrouping ==
  ASSUME NEW S, Holds(S), Grouping(S), CombineOperands,
         NEW T, T = S \cup {Node("BinExpr", Top.at, Top.kids)}
  PROVE  Grouping(T)'
<1> DEFINE n == Node("BinExpr", Top.at, Top.kids)
           kept == <<n>>
           g == Continued(Top, Top.pc + 1, kept)
           t == Tail(stack)
<1>1. /\ At("combine") /\ SetTop(g) /\ UNCHANGED <<tokens, cursor, status>>
      /\ status = "running" /\ stack # <<>> /\ ret = Nothing /\ ret' = Nothing
  BY DEF CombineOperands, At, Continued
<1> HIDE DEF g
<1>2. /\ IsTop(S, Top) /\ step = stepAt(Top.fn, Top.pc) /\ step.op = "combine"
      /\ Fits(Top.fn, Top.pc, Top.kids) /\ Size \in Nat
  BY <1>1, AtFacts
<1>3. Top.fn = "BinOpRhsExpr" /\ Top.pc = 4 /\ GoesOn(Top.fn, Top.pc, Top.pc + 1)
  BY <1>2 DEF IsTop, StepFacts
<1>4. /\ Under(t, Top) /\ Going(Top, t, cursor) /\ HasOperands(S)
      /\ \A m \in S : Grouped(m)
  BY <1>1, TopGrouping, TopSteps
<1>5. Top.kids[1] \in S /\ Top.kids[2] \in S
  BY <1>2, <1>3, Operands DEF IsTop
<1>6. n.kind = "BinExpr" /\ n.at = Top.at /\ n.kids = Top.kids /\ OpenBinary(n)
  BY DEF Node, OpenBinary
<1>7. T = S \cup {n} /\ n \in T
  OBVIOUS
<1> HIDE DEF n
<1>8. IsOperator(n.at) /\ prec(n) = level(Top.at) /\ prec(n) \in {10, 20}
  BY <1>3, <1>4, <1>6, Levels DEF Under, Kept, prec, level
<1>9. Grouped(n)
  <2>1. OpenBinary(n.kids[1]) => prec(n.kids[1]) >= prec(n)
    BY <1>3, <1>4, <1>6, <1>8 DEF Under, Kept
  <2>2. ASSUME OpenBinary(n.kids[2])
        PROVE  prec(n.kids[2]) >= prec(n) /\ OpensTighter(n.kids[2], prec(n))
    <3>1. prec(n) = 10 /\ OpensTighter(n.kids[2], 10)
      BY <1>3, <1>4, <1>6, <1>8, <2>2 DEF Going, Goes
    <3>2. prec(n.kids[2]) \in {10, 20}
      BY <1>4, <1>5, <1>6, <2>2, OperandLevels DEF OpenBinary
    <3> QED
      BY <3>1, <3>2
  <2> QED
    BY <1>8, <2>1, <2>2 DEF Grouped
<1>10. \A m \in T : Grouped(m)
  BY <1>4, <1>7, <1>9
<1>11. HasOperands(T)
  BY <1>4, <1>5, <1>6, <1>7 DEF HasOperands
<1>12. g.fn = Top.fn /\ g.pc = 5 /\ g.kids[1] = n
  <2>1. g.fn = Top.fn /\ g.pc = Top.pc + 1 /\ g.kids = kept
    BY <1>2 DEF g, Continued, IsTop, Frames
  <2> QED
    BY <1>3, <2>1
<1>13. Kept(g) /\ Goes(g, cursor') /\ Begun(g, cursor')
  <2>1. ~NextIsTighter(prec(n), cursor)
    BY <1>3, <1>4, <1>8 DEF Going, Goes, NextIsTighter
  <2> QED
    BY <1>1, <1>3, <1>6, <1>12, <2>1 DEF Kept, Goes, Begun
<1>14. ASSUME t # <<>>, Climbs(t[1]) PROVE Above(t[1], g)
  <2>1. Above(t[1], Top)
    BY <1>4, <1>14 DEF Under
  <2>2. OpensTighter(n, 10)
    <3>1. CASE OpenBinary(Top.kids[1])
      BY <1>2, <1>6, <1>7, <1>11, <2>1, <3>1, OpensWithFirst DEF Above
    <3>2. CASE ~OpenBinary(Top.kids[1])
      <4>1. prec(n) > 10
        BY <1>3, <1>8, <2>1, <3>2 DEF Above
      <4> QED
        BY <1>2, <1>6, <1>7, <1>11, <3>2, <4>1, OpensWithItsOwn
    <3> QED
      BY <3>1, <3>2
  <2> QED
    BY <1>6, <1>12, <2>1, <2>2 DEF Above
<1> QED
  BY <1>1, <1>10, <1>12, <1>13, <1>14, GroupingStays

\* A function that is not Loose returns nothing that is divided.
LEMMA ReturnGrouping ==
  ASSUME NEW S, Holds(S), Grouping(S), ReturnNode, NEW T, T = S \cup {result}
  PROVE  Grouping(T)'
<1> DEFINE last == Top.kids[Len(Top.kids)]
           t == Tail(stack)
<1>1. /\ At("return") /\ Leave(result) /\ UNCHANGED <<tokens, cursor, status>>
      /\ status = "running" /\ stack # <<>> /\ ret = Nothing
  BY DEF ReturnNode, At
<1>2. /\ IsTop(S, Top) /\ step = stepAt(Top.fn, Top.pc) /\ step.op = "return"
      /\ Fits(Top.fn, Top.pc, Top.kids) /\ Built(S, Size)
  BY <1>1, AtFacts
<1>3. MayReturn(S, Top.fn, result)
  BY <1>1, Results
<1>4. /\ Under(t, Top) /\ Going(Top, t, cursor) /\ Beneath(S, t, Top)
      /\ \A m \in S : Grouped(m)
  BY <1>1, TopGrouping
<1>5. IF Top.fn \in ReturnsLast \/ (Top.fn \in {"OrExpr", "AndExpr"} /\ Len(Top.kids) = 1)
        THEN Len(Top.kids) > 0
        ELSE Top.fn = "PrefixExpr" => Len(Top.kids) > 0
  BY <1>2, Returns DEF IsTop
<1>6. Len(Top.kids) > 0 => last \in S /\ Len(Top.kids) \in DOMAIN Top.kids
  BY <1>2, WithoutLast, LenProperties DEF IsTop
<1>7. Top.fn # "BinExpr"
  BY <1>2 DEF IsTop, Fn, script
<1> HIDE DEF last
<1>8. \/ Top.fn = "GroupedExpr" /\ last \in S /\ result = [last EXCEPT !.parens = @ + 1]
      \/ Top.fn \in Loose \cup {"Root", "parse"} /\ last \in S /\ result = last
      \/ Top.fn = "PrefixExpr" /\ last \in S /\ result = last
           /\ Len(Top.kids) \in DOMAIN Top.kids
      \/ result.kind # "BinExpr"
  BY <1>5, <1>6, <1>7 DEF result, ReturnsLast, PassesOn, Loose, Node, last
<1>9. Grouped(result) /\ (Top.fn \notin Loose => ~OpenBinary(result))
  <2>1. CASE Top.fn = "GroupedExpr" /\ last \in S /\ result = [last EXCEPT !.parens = @ + 1]
    <3>1. /\ result.kind = last.kind /\ result.at = last.at /\ result.kids = last.kids
          /\ result.parens = last.parens + 1 /\ last.parens \in Nat
      BY <1>2, <2>1 DEF Built
    <3>2. Grouped(last) /\ prec(result) = prec(last)
      BY <1>4, <2>1, <3>1 DEF prec
    <3> QED
      BY <3>1, <3>2 DEF Grouped, OpenBinary
  <2>2. CASE Top.fn \in Loose \cup {"Root", "parse"} /\ last \in S /\ result = last
    <3>1. Top.fn \in {"Root", "parse"} => result.kind # "BinExpr"
      BY <1>3 DEF MayReturn, Yields
    <3> QED
      BY <1>4, <2>2, <3>1 DEF OpenBinary
  <2>3. CASE /\ Top.fn = "PrefixExpr" /\ last \in S /\ result = last
             /\ Len(Top.kids) \in DOMAIN Top.kids
    BY <1>4, <2>3 DEF Under, Kept, last
  <2>4. CASE result.kind # "BinExpr"
    BY <2>4 DEF Grouped, OpenBinary
  <2> QED
    BY <1>8, <2>1, <2>2, <2>3, <2>4
<1>10. ASSUME t # <<>> PROVE Gets(t[1], result, cursor')
  <2>1. Callee(t[1]) = Top.fn
    BY <1>4, <1>10 DEF Beneath, CalledBy
  <2>2. ASSUME Climbs(t[1])
        PROVE  /\ level(t[1].at) = 10 /\ ~IsOperator(cursor)
               /\ OpenBinary(result) => OpensTighter(result, 10)
    <3>1. Top.fn = "BinOpRhsExpr" /\ Above(t[1], Top)
      BY <1>4, <1>10, <2>2, CalledForOperator DEF Under
    <3>2. Top.pc = 6
      BY <1>2, <3>1, OperatorSteps DEF IsTop, When, Step
    <3>3. ~IsOperator(cursor)
      BY <1>4, <3>1, <3>2 DEF Going, Goes
    <3>4. result = Top.kids[1]
      <4>1. Len(Top.kids) = 1
        BY <1>2, <3>1, <3>2 DEF Fits
      <4> QED
        BY <3>1, <4>1 DEF result, PassesOn
    <3> QED
      BY <3>1, <3>3, <3>4 DEF Above
  <2> QED
    BY <1>1, <1>9, <2>1, <2>2 DEF Gets
<1>11. \A m \in T : Grouped(m)
  BY <1>4, <1>9
<1>12. result # Nothing
  BY <1>3 DEF MayReturn, Nothing, Node
<1> QED
  BY <1>1, <1>10, <1>11, <1>12, GroupingLeaves

LEMMA ResumeGrouping ==
  ASSUME NEW S, Holds(S), Grouping(S), ResumeWithNode
  PROVE  Grouping(S)'
<1> DEFINE kept == Append(Top.kids, ret)
           g == Continued(Top, Top.pc + 1, kept)
           t == Tail(stack)
<1>1. /\ Resume /\ SetTop(g) /\ UNCHANGED <<tokens, cursor, status>>
      /\ status = "running" /\ stack # <<>> /\ ret' = Nothing
      /\ ret \notin {Nothing, EmptyNode} /\ step.op # "alt"
  BY DEF ResumeWithNode, Resume, Continued
<1>2. IsTop(S, Top) /\ step = stepAt(Top.fn, Top.pc) /\ Top.pc \in Steps(Top.fn)
  BY <1>1, TopSteps
<1>3. PICK p \in 0 .. cursor : Waiting(S, Top, p) /\ Outcome(S, step.fn, ret, p, cursor)
  BY <1>1, ResumeFacts
<1>4. /\ Under(t, Top) /\ Gets(Top, ret, cursor) /\ ret \in S
      /\ \A m \in S : Grouped(m)
  BY <1>1, <1>3, TopGrouping DEF Outcome
<1> HIDE DEF g
<1>5. g.fn = Top.fn /\ g.pc = Top.pc + 1 /\ g.at = Top.at /\ g.kids = kept
  BY <1>2 DEF g, Continued, IsTop, Frames
<1>6. /\ Top.kids \in Seq(S) /\ Len(kept) = Len(Top.kids) + 1
      /\ \A k \in 1 .. Len(Top.kids) : kept[k] = Top.kids[k]
      /\ kept[Len(Top.kids) + 1] = ret
      /\ DOMAIN Top.kids = 1 .. Len(Top.kids)
      /\ DOMAIN kept = 1 .. Len(Top.kids) + 1
      /\ Len(Top.kids) \in Nat
  BY <1>2, <1>4, AppendProperties, LenProperties DEF IsTop
<1> HIDE DEF kept
<1>7. step.op \in {"call"} \cup Hands
  BY <1>1, <1>2, <1>3 DEF Waiting, Calls
<1>8. step.fn \in {"PrefixExpr", "PrimaryExpr"} => ~OpenBinary(ret)
  BY <1>2, <1>4 DEF Gets, Callee, Loose
<1>9. IF step.op \in Hands THEN \E n \in S : Fits(Top.fn, Top.pc, Append(Top.kids, n))
                           ELSE Fits(Top.fn, Top.pc, Top.kids)
  BY <1>2, <1>3 DEF Waiting
<1>10. CASE Top.fn \notin {"BinOpRhsExpr", "PrefixExpr", "BinaryExpr"}
  <2>1. Kept(g)
    BY <1>5, <1>10 DEF Kept
  <2> QED
    BY <1>1, <1>4, <1>5, <1>10, <2>1, GroupingStays
<1>11. CASE Top.fn = "PrefixExpr"
  <2>1. step.fn = "PrimaryExpr"
    BY <1>2, <1>7, <1>11, OperatorSteps DEF Hands
  <2>2. \A k \in DOMAIN Top.kids : ~OpenBinary(Top.kids[k])
    BY <1>4, <1>11 DEF Under, Kept
  <2>3. \A k \in DOMAIN kept : k \in DOMAIN Top.kids \/ k = Len(Top.kids) + 1
    BY <1>6
  <2>4. Kept(g)
    BY <1>5, <1>6, <1>8, <1>11, <2>1, <2>2, <2>3 DEF Kept
  <2> QED
    BY <1>1, <1>4, <1>5, <1>11, <2>4, GroupingStays
<1>12. CASE Top.fn = "BinaryExpr"
  <2>1. \/ Top.pc = 1 /\ step.op = "call" /\ step.fn = "PrefixExpr"
        \/ Top.pc = 2
    BY <1>2, <1>7, <1>12, OperatorSteps DEF Hands
  <2>2. CASE Top.pc = 1 /\ step.op = "call" /\ step.fn = "PrefixExpr"
    <3>1. Len(Top.kids) = 0
      BY <1>9, <1>12, <2>2 DEF Hands, Fits
    <3>2. \A k \in DOMAIN kept : kept[k] = ret
      BY <1>6, <3>1
    <3> QED
      BY <1>5, <1>8, <1>12, <2>2, <3>2, <1>1, <1>4, GroupingStays DEF Kept
  <2>3. CASE Top.pc = 2
    <3>1. Kept(g)
      BY <1>5, <1>12, <2>3 DEF Kept
    <3> QED
      BY <1>1, <1>4, <1>5, <1>12, <3>1, GroupingStays
  <2> QED
    BY <2>1, <2>2, <2>3
<1>13. CASE Top.fn = "BinOpRhsExpr"
  <2>1. \/ Top.pc = 2 /\ step.op = "call" /\ step.fn = "PrefixExpr"
        \/ Top.pc = 3 /\ step.op = "climb"
    BY <1>2, <1>7, <1>13, OperatorSteps DEF Hands, When, Step
  <2>2. Len(Top.kids) = 1
    <3>1. CASE Top.pc = 2 /\ step.op = "call"
      BY <1>9, <1>13, <3>1 DEF Hands, Fits
    <3>2. CASE Top.pc = 3 /\ step.op = "climb"
      <4>1. PICK n \in S : Fits("BinOpRhsExpr", 3, Append(Top.kids, n))
        BY <1>9, <1>13, <3>2 DEF Hands
      <4>2. Len(Append(Top.kids, n)) = 2
        BY <4>1 DEF Fits
      <4> DEFINE count == Len(Top.kids)
      <4>3. count \in Nat /\ 2 = count + 1
        BY <1>6, <4>2, AppendProperties
      <4> HIDE DEF count
      <4>4. count = 1
        BY <4>3
      <4> QED
        BY <4>4 DEF count
    <3> QED
      BY <2>1, <3>1, <3>2
  <2>3. kept[1] = Top.kids[1] /\ kept[2] = ret
    BY <1>6, <2>2
  <2>4. Kept(g)
    BY <1>4, <1>5, <1>13, <2>1, <2>3 DEF Under, Kept
  <2>5. Goes(g, cursor')
    <3>1. CASE Top.pc = 2 /\ step.fn = "PrefixExpr"
      BY <1>5, <1>8, <2>3, <3>1 DEF Goes
    <3>2. CASE Top.pc = 3
      <4>1. Climbs(Top)
        BY <1>13, <3>2 DEF Climbs
      <4> QED
        BY <1>1, <1>4, <1>5, <2>3, <3>2, <4>1 DEF Gets, Goes, NextIsTighter
    <3> QED
      BY <2>1, <3>1, <3>2
  <2>6. ASSUME t # <<>>, Climbs(t[1]) PROVE Above(t[1], g) /\ Begun(g, cursor')
    BY <1>4, <1>5, <2>1, <2>3, <2>6 DEF Under, Above, Begun
  <2> QED
    BY <1>1, <1>4, <1>5, <2>4, <2>5, <2>6, GroupingStays
<1> QED
  BY <1>10, <1>11, <1>12, <1>13

LEMMA AlternativeGrouping ==
  ASSUME NEW S, Holds(S), Grouping(S), ResumeAlternative
  PROVE  Grouping(S)'
<1> DEFINE t == Tail(stack)
<1>1. /\ Resume /\ Leave(ret) /\ UNCHANGED <<tokens, cursor, status>>
      /\ status = "running" /\ stack # <<>>
      /\ ret \notin {Nothing, EmptyNode} /\ step.op = "alt"
  BY DEF ResumeAlternative, Resume
<1>2. IsTop(S, Top) /\ step = stepAt(Top.fn, Top.pc)
  BY <1>1, TopSteps
<1>3. /\ Top.fn # "BinOpRhsExpr"
      /\ Top.fn \notin Loose => step.fn \notin Loose
  BY <1>1, <1>2 DEF IsTop, StepFacts
<1>4. /\ Beneath(S, t, Top) /\ Gets(Top, ret, cursor)
      /\ \A m \in S : Grouped(m)
  BY <1>1, TopGrouping
<1>5. ASSUME t # <<>> PROVE Gets(t[1], ret, cursor')
  <2>1. Callee(t[1]) = Top.fn /\ ~Climbs(t[1])
    BY <1>3, <1>4, <1>5, CalledForOperator DEF Beneath, CalledBy
  <2> QED
    BY <1>2, <1>3, <1>4, <2>1 DEF Gets, Callee
<1> QED
  BY <1>1, <1>4, <1>5, GroupingLeaves

GroupingIInv == \E S : Holds(S) /\ Grouping(S)

LEMMA InitGrouping == Init => GroupingIInv
<1> SUFFICES ASSUME Init
             PROVE  Holds({}) /\ Grouping({})
  BY DEF GroupingIInv
<1> DEFINE f == Frame(Start, 0, <<>>)
<1>1. Holds({})
  BY InitHolds
<1>2. stack = <<f>> /\ ret = Nothing
  BY DEF Init
<1>3. f.fn # "BinOpRhsExpr" /\ f.pc = 1 /\ DOMAIN f.kids = {}
  BY StartAssumption DEF Frame
<1> HIDE DEF f
<1>4. Len(stack) = 1 /\ stack[1] = f /\ Tail(stack) = <<>>
  BY <1>2
<1>5. Kept(f) /\ Goes(f, cursor)
  BY <1>3 DEF Kept, Goes
<1>6. Nested(stack)
  BY <1>4, <1>5 DEF Nested
<1>7. Ordered(stack, ret, cursor)
  BY <1>2, <1>4, <1>5, <1>6 DEF Ordered, Going
<1> QED
  BY <1>1, <1>7 DEF Grouping

LEMMA StepGrouping == GroupingIInv /\ [Next]_vars => GroupingIInv'
<1> SUFFICES ASSUME GroupingIInv, [Next]_vars
             PROVE  \E T : Holds(T)' /\ Grouping(T)'
  BY DEF GroupingIInv
<1>1. PICK S : Holds(S) /\ Grouping(S)
  BY DEF GroupingIInv
<1>2. CASE UNCHANGED vars
  <2>1. Holds(S)'
    BY <1>1, <1>2, StutterStep
  <2>2. Grouping(S)'
    <3>1. stack' = stack /\ ret' = ret /\ cursor' = cursor /\ status' = status
          /\ UNCHANGED tokens
      BY <1>2 DEF vars
    <3> QED
      BY <1>1, <3>1, GroupingNext DEF Grouping
  <2> QED
    BY <2>1, <2>2
<1>3. CASE TakeToken \/ RefuseToken \/ PeekToken \/ PeekOther \/ SkipNothing
  BY <1>1, <1>3, TakeTokenStep, RefuseTokenStep, PeekStep, SkipNothingStep, GroupingToken
<1>4. CASE SkipToken \/ Call \/ CallWith \/ ClimbUp
  BY <1>1, <1>4, SkipTokenStep, CallStep, HandOverStep,
     SkipTokenGrouping, CallGrouping, HandOverGrouping
<1>5. CASE StayLevel \/ JumpTo
  BY <1>1, <1>5, StayLevelStep, JumpToStep, StayLevelGrouping, JumpToGrouping
<1>6. CASE CombineOperands
  <2>1. PICK T : T = S \cup {Node("BinExpr", Top.at, Top.kids)}
    OBVIOUS
  <2> QED
    BY <1>1, <1>6, <2>1, CombineStep, CombineGrouping
<1>7. CASE ReturnNode
  <2>1. PICK T : T = S \cup {result}
    OBVIOUS
  <2> QED
    BY <1>1, <1>7, <2>1, ReturnNodeStep, ReturnGrouping
<1>8. CASE ReturnEmptyNode \/ NextAlternative \/ ResumeWithEmpty
  BY <1>1, <1>8, ReturnEmptyNodeStep, NextAlternativeStep, ResumeWithEmptyStep, EmptyGrouping
<1>9. CASE ResumeWithNode \/ ResumeAlternative
  BY <1>1, <1>9, ResumeWithNodeStep, ResumeAlternativeStep, ResumeGrouping, AlternativeGrouping
<1>10. CASE Finish
  <2>1. status' # "running" /\ UNCHANGED tokens
    BY <1>10 DEF Finish
  <2> QED
    BY <1>1, <1>10, <2>1, FinishStep, GroupingStops
<1> QED
  BY <1>2, <1>3, <1>4, <1>5, <1>6, <1>7, <1>8, <1>9, <1>10 DEF Next

LEMMA GroupingAlways == Spec => []GroupingIInv
BY InitGrouping, StepGrouping, PTL DEF Spec

\* The nodes in hand are ones that have been built.
LEMMA InHandGrouped ==
  ASSUME GroupingIInv, NEW n \in nodesInHand, n.kind = "BinExpr"
  PROVE  Grouped(n)
<1>1. PICK S : Holds(S) /\ Grouping(S)
  BY DEF GroupingIInv
<1>2. stack \in Seq(Frames(S, Size)) /\ ret \in S \cup {EmptyNode, Nothing}
  BY <1>1 DEF Holds, Types
<1>3. \A k \in DOMAIN stack : stack[k] \in Frames(S, Size)
  BY <1>2, LenProperties, ElementOfSeq
<1>4. \A f \in Frames(S, Size) : \A k \in DOMAIN f.kids : f.kids[k] \in S
  BY LenProperties, ElementOfSeq DEF Frames
<1>5. n \in S \cup {EmptyNode, Nothing}
  BY <1>2, <1>3, <1>4 DEF nodesInHand
<1>6. EmptyNode.kind # "BinExpr" /\ Nothing.kind # "BinExpr"
  BY DEF EmptyNode, Nothing, Node
<1> QED
  BY <1>1, <1>5, <1>6 DEF Grouping

\* A product is never split by a sum, in any tree the parser builds, at any depth
\* and however long the expression is.
THEOREM ProductsStayTogether == Spec => []ProductsBindTighter
<1>1. GroupingIInv => ProductsBindTighter
  BY InHandGrouped DEF ProductsBindTighter, Grouped
<1> QED
  BY <1>1, GroupingAlways, PTL

\* Operators of one level group to the left, but for the right operands that
\* begin with a tighter operator.
THEOREM LevelsGroupToTheLeft == Spec => []RightOperandOpensTighter
<1>1. GroupingIInv => RightOperandOpensTighter
  BY InHandGrouped DEF RightOperandOpensTighter, Grouped
<1> QED
  BY <1>1, GroupingAlways, PTL
=============================================================================
