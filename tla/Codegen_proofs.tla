---------------------------- MODULE Codegen_proofs ----------------------------
(***************************************************************************)
(* Proofs about the code generation, for every set of trees that codegen() *)
(* can go through: the stack of values always holds what is used next, and *)
(* instructions go to blocks of the function that is generated.            *)
(***************************************************************************)
EXTENDS Backend_proofs

-----------------------------------------------------------------------------
(* What is left to do.  Statements are generated while no value waits, the   *)
(* operands of an expression on top of those that do.  `nodes' is the tree.   *)

Steps == {"combine", "NOT", "MINUS", "call", "VarDecl", "AssignSt", "ReturnSt",
          "IfSt", "statement", "Block", "Root"}
Jumps == {"else", "merge"}

Jobs(nodes) ==
  [do : {"generate"} \cup Steps, node : DOMAIN nodes]
  \cup [do : Jumps, node : DOMAIN nodes, target : Nat, goOnIn : Nat]

IsOf(nodes, j, kinds) == j.do = "generate" /\ nodes[j.node].kind \in kinds

\* The number of values it leaves more than it finds.
Gain(nodes, j) ==
  IF j.do = "generate" THEN IF nodes[j.node].kind = "Root" THEN 0 ELSE 1
  ELSE IF j.do = "Block" THEN 1
  ELSE IF j.do = "call" THEN 1 - Len(nodes[j.node].kids)
  ELSE IF j.do \in {"combine", "statement", "else"} THEN -1
  ELSE 0

\* The values that it finds.
DepthFits(nodes, j, d) ==
  /\ j.do = "generate" /\ nodes[j.node].kind \notin Proper => d = 0
  /\ j.do = "combine" => d > 1
  /\ j.do \in {"NOT", "MINUS"} => d > 0
  /\ j.do = "call" => d >= Len(nodes[j.node].kids)
  /\ j.do \in {"VarDecl", "AssignSt", "ReturnSt", "IfSt", "statement"} \cup Jumps => d = 1
  /\ j.do \in {"Block", "Root"} => d = 0

\* What is left on top need not be an operand, and needs none.
LeavesResult(nodes, j) ==
  \/ j.do = "generate" /\ nodes[j.node].kind \notin Proper \cup {"Root"}
  \/ j.do \in {"VarDecl", "AssignSt", "ReturnSt", "IfSt", "merge", "Block"}
TakesResult(j) == j.do \in {"VarDecl", "ReturnSt", "statement"} \cup Jumps

IsRoot(nodes, j) == IsOf(nodes, j, {"Root"}) \/ j.do = "Root"

\* A result is followed by its use, the root by nothing, and no jump into the
\* function before is left when another one begins.
Linked(nodes, s) ==
  /\ \A k \in DOMAIN s :
       LeavesResult(nodes, s[k]) => k + 1 \in DOMAIN s /\ TakesResult(s[k + 1])
  /\ \A k \in DOMAIN s :
       /\ IsRoot(nodes, s[k]) => k = Len(s)
       /\ IsOf(nodes, s[k], {"Root"}) => k = 1
       /\ IsOf(nodes, s[k], {"FnDef"}) =>
            \A l \in DOMAIN s : l > k => s[l].do \notin Jumps

\* d gives the number of values before each of the steps s.
Depths(nodes, s, d, count) ==
  /\ d \in [DOMAIN s -> Nat]
  /\ s # <<>> => d[1] = count
  /\ \A k \in DOMAIN s :
       /\ DepthFits(nodes, s[k], d[k])
       /\ k + 1 \in DOMAIN s => d[k + 1] = d[k] + Gain(nodes, s[k])

\* The steps js leave as much as j does on top of c values.
Balanced(nodes, js, e, j, c) ==
  e[Len(js)] + Gain(nodes, js[Len(js)]) = c + Gain(nodes, j)

\* What can be left to do before the first function, and where a jump goes on.
Early(nodes, j) ==
  /\ j.do \in {"generate", "combine", "NOT", "MINUS", "VarDecl", "statement", "Root"}
  /\ j.do = "generate" =>
       nodes[j.node].kind \in ExpressionKinds \cup {"Root", "VarDecl", "FnDef"}

\* The node that a step belongs to.
About(nodes, j) ==
  LET kind == nodes[j.node].kind
  IN  /\ j.do = "combine" => kind \in Chains
      /\ j.do \in {"NOT", "MINUS"} => kind = "PrefixExpr"
      /\ j.do = "call" => kind = "FnCallExpr"
      /\ j.do \in {"VarDecl", "AssignSt", "ReturnSt", "IfSt", "Block", "Root"} =>
           kind = j.do
      /\ j.do = "statement" => kind \in {"Block", "Root"}
      /\ j.do \in Jumps => kind = "IfSt"

JobFits(nodes, fs, bs, j) ==
  /\ About(nodes, j)
  /\ j.do = "call" => \E f \in DOMAIN fs : fs[f].name = nodes[j.node].name
  /\ j.do \in Jumps => j.goOnIn \in DOMAIN bs /\ bs[j.goOnIn].fn = Len(fs)
  /\ fs = <<>> => Early(nodes, j)

TodoInv(nodes, fs, bs, s, count) ==
  /\ s \in Seq(Jobs(nodes))
  /\ \A k \in DOMAIN s : JobFits(nodes, fs, bs, s[k])
  /\ Linked(nodes, s)
  /\ \E d : Depths(nodes, s, d, count)

-----------------------------------------------------------------------------
(* Values and blocks. *)

IsSeq(s) == s \in Seq({s[k] : k \in DOMAIN s})

Operand(v) == v.is \in {"constant", "argument", "register"}

\* Before the first function there are no instructions and no blocks.
ValuesInv(bs, vs) ==
  /\ IsSeq(vs)
  /\ \A k \in DOMAIN vs : IsValue(vs[k], bs)
  /\ bs = <<>> => \A k \in DOMAIN vs : vs[k].is \in {"constant", "null"}

CodeFits(bs, code) ==
  \A i \in DOMAIN code : \A k \in DOMAIN code[i].args : IsValue(code[i].args[k], bs)

BlocksInv(bs, count) ==
  /\ IsSeq(bs)
  /\ \A b \in DOMAIN bs :
       /\ bs[b] = [fn |-> bs[b].fn, code |-> bs[b].code]
       /\ bs[b].fn \in 1 .. count
       /\ IsSeq(bs[b].code)
       /\ CodeFits(bs, bs[b].code)

FunctionList == Seq([name : Names, params : Seq({"i32", "f32"}), type : {"i32", "f32"}])

Place(fs, bs, ib) ==
  /\ fs \in FunctionList
  /\ BlocksInv(bs, Len(fs))
  /\ ib \in 0 .. Len(bs)
  /\ ib = 0 => fs = <<>> /\ bs = <<>>
  /\ ib # 0 => fs # <<>> /\ bs[ib].fn = Len(fs)

Generating(nodes, fs, bs, s, vs) ==
  /\ TodoInv(nodes, fs, bs, s, Len(vs))
  /\ \/ \A k \in DOMAIN vs : Operand(vs[k])
     \/ s # <<>> /\ TakesResult(s[1])

CodeInv ==
  /\ Place(functions, blocks, insertBlock)
  /\ allocated \in [DOMAIN tree -> 0 .. Len(functions)]
  /\ ValuesInv(blocks, values)
  /\ outcome = "running" => Generating(tree, functions, blocks, todo, values)
  /\ outcome \in {"generated", "no_main"} => values = <<>> /\ Len(todo) = 1

Generable == \A m \in DOMAIN tree : CanBeGenerated(tree, m)

-----------------------------------------------------------------------------
(* Sequences of whatever elements.                                           *)

LEMMA SeqFacts ==
  ASSUME NEW s, IsSeq(s)
  PROVE  Len(s) \in Nat /\ DOMAIN s = 1 .. Len(s)
BY LenProperties DEF IsSeq

LEMMA SeqOf ==
  ASSUME NEW s, IsSeq(s), NEW S, \A k \in DOMAIN s : s[k] \in S
  PROVE  s \in Seq(S)
<1>1. {s[k] : k \in DOMAIN s} \subseteq S
  OBVIOUS
<1> QED
  BY <1>1, SeqMonotonic DEF IsSeq

LEMMA IsSeqOf ==
  ASSUME NEW S, NEW s \in Seq(S)
  PROVE  IsSeq(s)
<1> DEFINE number == Len(s)
           R == {s[k] : k \in DOMAIN s}
<1>1. number \in Nat /\ DOMAIN s = 1 .. number /\ s = [k \in 1 .. number |-> s[k]]
  BY LenProperties
<1>2. \A k \in 1 .. number : s[k] \in R
  BY <1>1
<1> HIDE DEF number, R
<1>3. s \in [1 .. number -> R]
  BY <1>1, <1>2
<1>4. s \in Seq(R)
  BY <1>1, <1>3, SeqDef
<1> QED
  BY <1>4 DEF IsSeq, R

LEMMA SeqFromFunction ==
  ASSUME NEW number \in Nat, NEW s, DOMAIN s = 1 .. number, s = [k \in 1 .. number |-> s[k]]
  PROVE  IsSeq(s) /\ Len(s) = number
<1> DEFINE R == {s[k] : k \in DOMAIN s}
<1>1. \A k \in 1 .. number : s[k] \in R
  OBVIOUS
<1> HIDE DEF R
<1>2. s \in [1 .. number -> R]
  BY <1>1
<1>3. s \in Seq(R)
  BY <1>2, SeqDef
<1>4. Len(s) = number
  BY <1>3, LenProperties
<1> QED
  BY <1>3, <1>4 DEF IsSeq, R

LEMMA Concatenated ==
  ASSUME NEW s, IsSeq(s), NEW t, IsSeq(t), NEW u, u = s \o t
  PROVE  /\ IsSeq(u) /\ Len(u) = Len(s) + Len(t)
         /\ DOMAIN u = 1 .. Len(s) + Len(t)
         /\ \A k \in DOMAIN u : u[k] = IF k <= Len(s) THEN s[k] ELSE t[k - Len(s)]
<1> DEFINE R == {s[k] : k \in DOMAIN s} \cup {t[k] : k \in DOMAIN t}
<1>1. s \in Seq(R) /\ t \in Seq(R)
  BY SeqOf
<1> HIDE DEF R
<1>2. /\ u \in Seq(R) /\ Len(u) = Len(s) + Len(t)
      /\ \A k \in 1 .. Len(s) + Len(t) : u[k] = IF k <= Len(s) THEN s[k] ELSE t[k - Len(s)]
  BY <1>1, ConcatProperties
<1>3. DOMAIN u = 1 .. Len(s) + Len(t)
  BY <1>2, LenProperties
<1> QED
  BY <1>2, <1>3, IsSeqOf

LEMMA Appended ==
  ASSUME NEW s, IsSeq(s), NEW x, NEW u, u = Append(s, x)
  PROVE  /\ IsSeq(u) /\ Len(u) = Len(s) + 1 /\ DOMAIN u = 1 .. Len(s) + 1
         /\ \A k \in DOMAIN s : u[k] = s[k]
         /\ u[Len(s) + 1] = x
<1> DEFINE R == {s[k] : k \in DOMAIN s} \cup {x}
<1>1. s \in Seq(R) /\ x \in R
  BY SeqOf
<1> HIDE DEF R
<1>2. /\ u \in Seq(R) /\ Len(u) = Len(s) + 1
      /\ \A k \in 1 .. Len(s) : u[k] = s[k]
      /\ u[Len(s) + 1] = x
  BY <1>1, AppendProperties
<1> QED
  BY <1>2, SeqFacts, IsSeqOf

LEMMA FirstOf ==
  ASSUME NEW s, IsSeq(s), NEW number \in 0 .. Len(s), NEW u, u = SubSeq(s, 1, number)
  PROVE  /\ IsSeq(u) /\ Len(u) = number /\ DOMAIN u = 1 .. number
         /\ \A k \in 1 .. number : u[k] = s[k] /\ k \in DOMAIN s
<1> DEFINE R == {s[k] : k \in DOMAIN s}
<1>1. Len(s) \in Nat /\ DOMAIN s = 1 .. Len(s)
  BY SeqFacts
<1>2. \A k \in 1 .. number : s[k] \in R /\ k \in DOMAIN s
  BY <1>1
<1> HIDE DEF R
<1>3. number \in Int
  BY <1>1
<1>4. /\ u \in Seq(R) /\ Len(u) = (IF 1 <= number THEN number - 1 + 1 ELSE 0)
      /\ \A k \in 1 .. number - 1 + 1 : u[k] = s[1 + k - 1]
  BY <1>2, <1>3, SubSeqProperties
<1>5. number - 1 + 1 = number /\ number >= 0 /\ (~(1 <= number) => number = 0)
  BY <1>1
<1>6. \A k \in 1 .. number : u[k] = s[k]
  BY <1>4, <1>5
<1>7. Len(u) = number
  BY <1>4, <1>5
<1> QED
  BY <1>2, <1>4, <1>6, <1>7, IsSeqOf, LenProperties

-----------------------------------------------------------------------------
(* How what is left to do goes on.                                           *)

\* The steps js that take the place of j link with each other and leave a result
\* only where j would.
Replaces(nodes, js, j) ==
  \A k \in DOMAIN js :
    /\ ~IsRoot(nodes, js[k]) /\ ~IsOf(nodes, js[k], {"FnDef"})
    /\ LeavesResult(nodes, js[k]) =>
         IF k = Len(js) THEN LeavesResult(nodes, j) ELSE TakesResult(js[k + 1])

\* Every step of t is one of js or one of s behind the first.
FromEither(js, s, t) ==
  \A k \in DOMAIN t : \/ \E l \in DOMAIN js : t[k] = js[l]
                      \/ \E l \in DOMAIN s : l > 1 /\ t[k] = s[l]

\* The number of values in the end is that which j would leave.
LEMMA Continue ==
  ASSUME NEW nodes, NEW s \in Seq(Jobs(nodes)), s # <<>>, Linked(nodes, s),
         NEW d, NEW c, Depths(nodes, s, d, c),
         NEW js \in Seq(Jobs(nodes)), js # <<>>, Replaces(nodes, js, s[1]),
         NEW e, NEW count, Depths(nodes, js, e, count),
         Balanced(nodes, js, e, s[1], c),
         NEW t, t = js \o Tail(s)
  PROVE  /\ t \in Seq(Jobs(nodes)) /\ t # <<>> /\ t[1] = js[1]
         /\ Linked(nodes, t)
         /\ \E f : Depths(nodes, t, f, count)
         /\ FromEither(js, s, t)
<1> DEFINE lead == Len(js)
           m == Len(s)
           rest == Tail(s)
<1>1. /\ lead \in Nat /\ lead > 0 /\ DOMAIN js = 1 .. lead
      /\ m \in Nat /\ m > 0 /\ DOMAIN s = 1 .. m
  BY LenProperties, EmptySeq
<1>2. /\ rest \in Seq(Jobs(nodes)) /\ Len(rest) = m - 1
      /\ \A k \in 1 .. m - 1 : rest[k] = s[k + 1]
  BY HeadTailProperties
<1>3. /\ t \in Seq(Jobs(nodes)) /\ DOMAIN t = 1 .. lead + (m - 1) /\ Len(t) = lead + (m - 1)
      /\ \A k \in 1 .. lead + (m - 1) : t[k] = IF k <= lead THEN js[k] ELSE rest[k - lead]
  <2>1. /\ t \in Seq(Jobs(nodes)) /\ Len(t) = lead + Len(rest)
        /\ \A k \in 1 .. lead + Len(rest) : t[k] = IF k <= lead THEN js[k] ELSE rest[k - lead]
    BY <1>2, ConcatProperties
  <2> QED
    BY <1>2, <2>1, LenProperties
<1> DEFINE whole == lead + (m - 1)
<1> HIDE DEF lead, m, rest
<1>4. /\ \A k \in 1 .. lead : k \in 1 .. whole /\ t[k] = js[k]
      /\ \A k \in lead + 1 .. whole :
           /\ k \in 1 .. whole /\ t[k] = s[k - lead + 1]
           /\ k - lead + 1 \in 2 .. m /\ k - lead + 1 \in 1 .. m
      /\ \A k \in 1 .. whole : k \in 1 .. lead \/ k \in lead + 1 .. whole
      /\ whole \in Nat /\ 1 \in 1 .. lead /\ lead \in 1 .. lead
  <2>1. \A k \in lead + 1 .. whole : /\ k - lead \in 1 .. m - 1 /\ ~(k <= lead)
                                 /\ k - lead + 1 \in 2 .. m /\ k - lead + 1 \in 1 .. m
                                 /\ k \in 1 .. whole
    BY <1>1
  <2>2. \A k \in lead + 1 .. whole : t[k] = s[k - lead + 1]
    BY <1>2, <1>3, <2>1
  <2>3. \A k \in 1 .. lead : k <= lead /\ k \in 1 .. whole
    BY <1>1
  <2> QED
    BY <1>1, <1>3, <2>1, <2>2, <2>3
<1>5. t # <<>> /\ t[1] = js[1]
  <2>1. 1 \in DOMAIN t
    BY <1>3, <1>4
  <2> QED
    BY <1>4, <2>1
<1>6. FromEither(js, s, t)
  <2>1. SUFFICES ASSUME NEW k \in 1 .. whole
                 PROVE  \/ \E l \in DOMAIN js : t[k] = js[l]
                        \/ \E l \in DOMAIN s : l > 1 /\ t[k] = s[l]
    BY <1>3 DEF FromEither
  <2>2. CASE k \in 1 .. lead
    BY <1>1, <1>4, <2>2
  <2>3. CASE k \in lead + 1 .. whole
    <3> DEFINE l == k - lead + 1
    <3>1. t[k] = s[l] /\ l \in 2 .. m /\ l \in DOMAIN s
      BY <1>1, <1>4, <2>3
    <3> HIDE DEF l
    <3>2. l > 1
      BY <3>1, <1>1
    <3> QED
      BY <3>1, <3>2
  <2> QED
    BY <1>4, <2>1, <2>2, <2>3
\* Links inside js, from js to the rest, and inside the rest.
<1>7. ASSUME NEW k \in 1 .. whole, LeavesResult(nodes, t[k])
      PROVE  k + 1 \in 1 .. whole /\ TakesResult(t[k + 1])
  <2>1. CASE k \in 1 .. lead /\ k # lead
    <3>1. k \in DOMAIN js /\ k + 1 \in 1 .. lead
      BY <1>1, <2>1
    <3>2. TakesResult(js[k + 1])
      BY <1>4, <1>7, <2>1, <3>1 DEF Replaces, lead
    <3> DEFINE l == k + 1
    <3> HIDE DEF l
    <3>3. l \in 1 .. lead /\ TakesResult(js[l])
      BY <3>1, <3>2 DEF l
    <3>4. l \in 1 .. whole /\ TakesResult(t[l])
      BY <1>4, <3>3
    <3> QED
      BY <3>4 DEF l
  <2>2. CASE k = lead
    <3>1. LeavesResult(nodes, s[1])
      BY <1>1, <1>4, <1>7, <2>2 DEF Replaces, lead
    <3>2. 1 + 1 \in 1 .. m /\ TakesResult(s[1 + 1])
      BY <1>1, <3>1 DEF Linked
    <3>3. 2 \in 1 .. m /\ TakesResult(s[2])
      BY <3>2
    <3> DEFINE l == lead + 1
    <3>4. l \in lead + 1 .. whole /\ l - lead + 1 = 2
      BY <1>1, <3>3
    <3> HIDE DEF l
    <3>5. l \in 1 .. whole /\ t[l] = s[2]
      BY <1>4, <3>4
    <3> QED
      BY <2>2, <3>3, <3>5 DEF l
  <2>3. CASE k \in lead + 1 .. whole
    <3> DEFINE i == k - lead + 1
               l == k + 1
    <3>1. t[k] = s[i] /\ i \in 1 .. m
      BY <1>4, <2>3
    <3>2. i + 1 \in 1 .. m /\ TakesResult(s[i + 1])
      BY <1>1, <1>7, <3>1 DEF Linked
    <3>3. l \in lead + 1 .. whole /\ l - lead + 1 = i + 1
      BY <1>1, <2>3, <3>2
    <3> HIDE DEF l, i
    <3>4. l \in 1 .. whole /\ t[l] = s[i + 1]
      BY <1>4, <3>3
    <3> QED
      BY <3>2, <3>4 DEF l
  <2> QED
    BY <1>4, <2>1, <2>2, <2>3
<1>8. ASSUME NEW k \in 1 .. whole
      PROVE  /\ IsRoot(nodes, t[k]) => k = whole
             /\ IsOf(nodes, t[k], {"Root"}) => k = 1
             /\ IsOf(nodes, t[k], {"FnDef"}) =>
                  \A l \in 1 .. whole : l > k => t[l].do \notin Jumps
  <2>1. CASE k \in 1 .. lead
    <3>1. ~IsRoot(nodes, t[k]) /\ ~IsOf(nodes, t[k], {"FnDef"})
      BY <1>1, <1>4, <2>1 DEF Replaces
    <3> QED
      BY <3>1 DEF IsRoot
  <2>2. CASE k \in lead + 1 .. whole
    <3> DEFINE i == k - lead + 1
    <3>1. t[k] = s[i] /\ i \in 2 .. m /\ i \in DOMAIN s
      BY <1>1, <1>4, <2>2
    <3>2. /\ IsRoot(nodes, s[i]) => i = Len(s)
          /\ IsOf(nodes, s[i], {"Root"}) => i = 1
          /\ IsOf(nodes, s[i], {"FnDef"}) =>
               \A l \in DOMAIN s : l > i => s[l].do \notin Jumps
      BY <3>1 DEF Linked
    <3>3. IsRoot(nodes, t[k]) => k = whole
      <4>1. IsRoot(nodes, t[k]) => i = m
        BY <3>1, <3>2 DEF m
      <4>2. i = m => k = whole
        <5>1. \A a, b, x \in Int : a - b + 1 = x => a = b + (x - 1)
          OBVIOUS
        <5>2. k \in Int /\ lead \in Int /\ m \in Int
          BY <1>1
        <5> HIDE DEF lead, m
        <5> QED
          BY <5>1, <5>2
      <4> QED
        BY <4>1, <4>2
    <3>4. ~IsOf(nodes, t[k], {"Root"})
      BY <1>1, <3>1, <3>2
    <3>5. ASSUME IsOf(nodes, t[k], {"FnDef"}), NEW l \in 1 .. whole, l > k
          PROVE  t[l].do \notin Jumps
      <4> DEFINE j == l - lead + 1
      <4>1. l \in lead + 1 .. whole /\ j > i
        BY <1>1, <2>2, <3>5
      <4>2. t[l] = s[j] /\ j \in 1 .. m
        BY <1>4, <4>1
      <4> HIDE DEF j, i
      <4> QED
        BY <1>1, <3>1, <3>2, <3>5, <4>1, <4>2
    <3> QED
      BY <3>3, <3>4, <3>5
  <2> QED
    BY <1>4, <2>1, <2>2
<1>9. Linked(nodes, t)
  BY <1>3, <1>7, <1>8 DEF Linked
<1> DEFINE f == [k \in 1 .. whole |-> IF k <= lead THEN e[k] ELSE d[k - lead + 1]]
<1>10. /\ \A k \in 1 .. lead : f[k] = e[k] /\ f[k] \in Nat
       /\ \A k \in lead + 1 .. whole : f[k] = d[k - lead + 1] /\ f[k] \in Nat
  <2>1. ASSUME NEW k \in 1 .. lead PROVE k <= lead /\ k \in 1 .. whole /\ e[k] \in Nat
    <3>1. e \in [1 .. lead -> Nat]
      BY <1>1 DEF Depths
    <3>2. k <= lead /\ k \in 1 .. whole
      BY <1>1, <1>4
    <3> QED
      BY <3>1, <3>2
  <2>2. ASSUME NEW k \in lead + 1 .. whole
        PROVE  ~(k <= lead) /\ k \in 1 .. whole /\ d[k - lead + 1] \in Nat
    <3> DEFINE i == k - lead + 1
    <3>1. i \in 1 .. m /\ k \in 1 .. whole
      BY <1>4
    <3>2. d[i] \in Nat
      <4> HIDE DEF i
      <4> QED
        BY <1>1, <3>1 DEF Depths
    <3>3. ~(k <= lead)
      BY <1>1
    <3> QED
      BY <3>1, <3>2, <3>3
  <2> QED
    BY <2>1, <2>2
<1>11. f \in [DOMAIN t -> Nat]
  <2>1. \A k \in 1 .. whole : f[k] \in Nat
    BY <1>4, <1>10
  <2>2. f = [k \in 1 .. whole |-> f[k]]
    OBVIOUS
  <2> HIDE DEF f
  <2> QED
    BY <1>3, <2>1, <2>2
<1> HIDE DEF f
<1>12. f[1] = count
  BY <1>4, <1>10 DEF Depths
<1>13. ASSUME NEW k \in 1 .. whole
       PROVE  /\ DepthFits(nodes, t[k], f[k])
              /\ k + 1 \in 1 .. whole => f[k + 1] = f[k] + Gain(nodes, t[k])
  <2>1. CASE k \in 1 .. lead /\ k # lead
    <3> DEFINE l == k + 1
    <3>1. l \in 1 .. lead /\ k \in DOMAIN js
      BY <1>1, <2>1
    <3>2. DepthFits(nodes, js[k], e[k]) /\ e[l] = e[k] + Gain(nodes, js[k])
      BY <1>1, <3>1 DEF Depths
    <3> HIDE DEF l
    <3>3. f[l] = e[l] /\ f[k] = e[k] /\ t[k] = js[k]
      BY <1>4, <1>10, <2>1, <3>1
    <3> QED
      BY <3>2, <3>3 DEF l
  <2>2. CASE k = lead
    <3>1. DepthFits(nodes, js[lead], e[lead]) /\ t[k] = js[lead] /\ f[k] = e[lead]
      BY <1>1, <1>4, <1>10, <2>2 DEF Depths
    <3>2. ASSUME k + 1 \in 1 .. whole PROVE f[k + 1] = f[k] + Gain(nodes, t[k])
      <4> DEFINE l == lead + 1
      <4>1. l \in lead + 1 .. whole /\ l - lead + 1 = 2 /\ 1 + 1 \in 1 .. m
        BY <1>1, <2>2, <3>2
      <4>2. d[1 + 1] = d[1] + Gain(nodes, s[1]) /\ d[1] = c
        <5>1. 1 \in DOMAIN s /\ 1 + 1 \in DOMAIN s
          BY <1>1, <4>1
        <5> QED
          BY <5>1 DEF Depths
      <4> HIDE DEF l
      <4>3. f[l] = d[2]
        BY <1>10, <4>1
      <4>4. f[l] = e[lead] + Gain(nodes, js[lead])
        BY <4>2, <4>3 DEF lead, Balanced
      <4> QED
        BY <2>2, <3>1, <4>4 DEF l
    <3> QED
      BY <3>1, <3>2
  <2>3. CASE k \in lead + 1 .. whole
    <3> DEFINE i == k - lead + 1
               l == k + 1
    <3>1. t[k] = s[i] /\ i \in 1 .. m /\ f[k] = d[i]
      BY <1>4, <1>10, <2>3
    <3>2. DepthFits(nodes, s[i], d[i])
      BY <1>1, <3>1 DEF Depths
    <3>3. ASSUME l \in 1 .. whole PROVE f[l] = f[k] + Gain(nodes, t[k])
      <4>1. l \in lead + 1 .. whole /\ l - lead + 1 = i + 1 /\ i + 1 \in 1 .. m
        BY <1>1, <2>3, <3>3
      <4>2. d[i + 1] = d[i] + Gain(nodes, s[i])
        BY <1>1, <3>1, <4>1 DEF Depths
      <4> HIDE DEF l, i
      <4>3. f[l] = d[i + 1]
        BY <1>10, <4>1
      <4> QED
        BY <3>1, <4>2, <4>3
    <3> HIDE DEF i
    <3> QED
      BY <3>1, <3>2, <3>3
  <2> QED
    BY <1>4, <2>1, <2>2, <2>3
<1>14. Depths(nodes, t, f, count)
  BY <1>3, <1>11, <1>12, <1>13 DEF Depths
<1> QED
  BY <1>3, <1>5, <1>6, <1>9, <1>14

\* A step that puts nothing in its place.
LEMMA Return ==
  ASSUME NEW nodes, NEW s \in Seq(Jobs(nodes)), s # <<>>, Linked(nodes, s),
         NEW d, NEW c, Depths(nodes, s, d, c),
         NEW t, t = Tail(s)
  PROVE  /\ t \in Seq(Jobs(nodes))
         /\ Linked(nodes, t)
         /\ \E f : Depths(nodes, t, f, c + Gain(nodes, s[1]))
         /\ \A k \in DOMAIN t : \E l \in DOMAIN s : l > 1 /\ t[k] = s[l]
         /\ LeavesResult(nodes, s[1]) => t # <<>> /\ TakesResult(t[1])
<1> DEFINE m == Len(s)
<1>1. m \in Nat /\ m > 0 /\ DOMAIN s = 1 .. m
  BY LenProperties, EmptySeq
<1>2. /\ t \in Seq(Jobs(nodes)) /\ Len(t) = m - 1 /\ DOMAIN t = 1 .. m - 1
      /\ \A k \in 1 .. m - 1 : t[k] = s[k + 1]
  BY HeadTailProperties, LenProperties
<1> HIDE DEF m
<1>3. \A k \in 1 .. m - 1 : k + 1 \in 1 .. m /\ k + 1 > 1
  BY <1>1
<1>4. ASSUME NEW k \in 1 .. m - 1, LeavesResult(nodes, t[k])
      PROVE  k + 1 \in 1 .. m - 1 /\ TakesResult(t[k + 1])
  <2> DEFINE i == k + 1
  <2>1. i \in 1 .. m /\ t[k] = s[i]
    BY <1>2, <1>3
  <2>2. i + 1 \in 1 .. m /\ TakesResult(s[i + 1])
    BY <1>1, <1>4, <2>1 DEF Linked
  <2>3. i \in 1 .. m - 1
    BY <1>1, <2>1, <2>2
  <2> HIDE DEF i
  <2>4. t[i] = s[i + 1]
    BY <1>2, <2>3
  <2> QED
    BY <2>2, <2>3, <2>4 DEF i
<1>5. ASSUME NEW k \in 1 .. m - 1
      PROVE  /\ IsRoot(nodes, t[k]) => k = m - 1
             /\ IsOf(nodes, t[k], {"Root"}) => k = 1
             /\ IsOf(nodes, t[k], {"FnDef"}) =>
                  \A l \in 1 .. m - 1 : l > k => t[l].do \notin Jumps
  <2> DEFINE i == k + 1
  <2>1. i \in DOMAIN s /\ t[k] = s[i] /\ i # 1
    BY <1>1, <1>2, <1>3
  <2>2. /\ IsRoot(nodes, s[i]) => i = m
        /\ IsOf(nodes, s[i], {"Root"}) => i = 1
        /\ IsOf(nodes, s[i], {"FnDef"}) =>
             \A l \in DOMAIN s : l > i => s[l].do \notin Jumps
    BY <2>1 DEF Linked, m
  <2>3. ASSUME IsOf(nodes, t[k], {"FnDef"}), NEW l \in 1 .. m - 1, l > k
        PROVE  t[l].do \notin Jumps
    <3> DEFINE j == l + 1
    <3>1. j \in 1 .. m /\ j > i /\ t[l] = s[j]
      BY <1>1, <1>2, <1>3, <2>3
    <3> HIDE DEF i, j
    <3> QED
      BY <1>1, <2>1, <2>2, <2>3, <3>1
  <2>4. i = m => k = m - 1
    BY <1>1
  <2> HIDE DEF i
  <2> QED
    BY <2>1, <2>2, <2>3, <2>4
<1>6. Linked(nodes, t)
  BY <1>2, <1>4, <1>5 DEF Linked
<1> DEFINE f == [k \in 1 .. m - 1 |-> d[k + 1]]
<1>7. \A k \in 1 .. m - 1 : f[k] = d[k + 1] /\ d[k + 1] \in Nat
  BY <1>1, <1>3 DEF Depths
<1>8. f \in [DOMAIN t -> Nat]
  BY <1>2, <1>7
<1> HIDE DEF f
<1>9. t # <<>> => f[1] = c + Gain(nodes, s[1])
  <2>1. ASSUME t # <<>> PROVE 1 \in 1 .. m - 1 /\ 1 + 1 \in 1 .. m /\ 1 \in 1 .. m
    <3>1. Len(t) \in Nat \ {0}
      BY <1>2, <2>1, EmptySeq
    <3> QED
      BY <1>1, <1>2, <3>1
  <2>2. ASSUME t # <<>> PROVE d[1 + 1] = d[1] + Gain(nodes, s[1]) /\ d[1] = c
    BY <1>1, <2>1, <2>2 DEF Depths
  <2> QED
    BY <1>7, <2>1, <2>2
<1>10. ASSUME NEW k \in 1 .. m - 1
       PROVE  /\ DepthFits(nodes, t[k], f[k])
              /\ k + 1 \in 1 .. m - 1 => f[k + 1] = f[k] + Gain(nodes, t[k])
  <2> DEFINE i == k + 1
  <2>1. i \in 1 .. m /\ t[k] = s[i] /\ f[k] = d[i]
    BY <1>2, <1>3, <1>7
  <2>2. DepthFits(nodes, s[i], d[i])
    BY <1>1, <2>1 DEF Depths
  <2>3. ASSUME i \in 1 .. m - 1 PROVE f[i] = f[k] + Gain(nodes, t[k])
    <3>1. i + 1 \in 1 .. m
      BY <1>3, <2>3
    <3>2. d[i + 1] = d[i] + Gain(nodes, s[i])
      BY <1>1, <2>1, <3>1 DEF Depths
    <3> HIDE DEF i
    <3> QED
      BY <1>7, <2>1, <2>3, <3>2
  <2> QED
    BY <2>1, <2>2, <2>3
<1>11. Depths(nodes, t, f, c + Gain(nodes, s[1]))
  BY <1>2, <1>8, <1>9, <1>10 DEF Depths
<1>12. \A k \in DOMAIN t : \E l \in DOMAIN s : l > 1 /\ t[k] = s[l]
  BY <1>1, <1>2, <1>3
<1>13. ASSUME LeavesResult(nodes, s[1]) PROVE t # <<>> /\ TakesResult(t[1])
  <2>1. 1 + 1 \in 1 .. m /\ TakesResult(s[1 + 1])
    BY <1>1, <1>13 DEF Linked
  <2>2. 1 \in 1 .. m - 1
    BY <1>1, <2>1
  <2> QED
    BY <1>2, <2>1, <2>2
<1> QED
  BY <1>2, <1>6, <1>11, <1>12, <1>13

-----------------------------------------------------------------------------
(* Blocks grow, and what was a value stays one.                              *)

Extends(bs, more) ==
  \A b \in DOMAIN bs :
    /\ b \in DOMAIN more
    /\ more[b].fn = bs[b].fn
    /\ \A i \in DOMAIN bs[b].code : /\ i \in DOMAIN more[b].code
                                    /\ more[b].code[i] = bs[b].code[i]

LEMMA ValueKept ==
  ASSUME NEW bs, NEW more, Extends(bs, more), NEW v, IsValue(v, bs)
  PROVE  IsValue(v, more)
<1>1. CASE v.is = "register"
  <2>1. IsResult(v, bs)
    BY <1>1 DEF IsValue
  <2> DEFINE b == v.at[1]
             i == v.at[2]
  <2>2. /\ v = Register(v.type, v.at) /\ v.at \in (DOMAIN bs) \X (Nat \ {0})
        /\ b \in DOMAIN bs /\ i \in Nat \ {0} /\ i \in DOMAIN bs[b].code
        /\ bs[b].code[i].type = v.type
    BY <2>1 DEF IsResult
  <2>3. v.at = <<b, i>>
    BY <2>2
  <2> HIDE DEF b, i
  <2>4. b \in DOMAIN more /\ i \in DOMAIN more[b].code /\ more[b].code[i] = bs[b].code[i]
    BY <2>2 DEF Extends
  <2>5. v.at \in (DOMAIN more) \X (Nat \ {0})
    BY <2>2, <2>3, <2>4
  <2>6. IsResult(v, more)
    BY <2>2, <2>4, <2>5 DEF IsResult, b, i
  <2> QED
    BY <1>1, <2>6 DEF IsValue
<1>2. CASE v.is = "label"
  BY <1>2 DEF IsValue, Extends
<1>3. CASE v.is \notin {"register", "label"}
  BY <1>3 DEF IsValue
<1> QED
  BY <1>1, <1>2, <1>3

LEMMA ValuesKept ==
  ASSUME NEW bs, NEW more, Extends(bs, more), NEW code, CodeFits(bs, code)
  PROVE  CodeFits(more, code)
BY ValueKept DEF CodeFits

\* IRBuilder puts instructions behind the others of a block.
Emitted(bs, b, code) ==
  IF code = <<>> THEN bs ELSE [bs EXCEPT ![b].code = @ \o code]

LEMMA EmittedFacts ==
  ASSUME NEW bs, NEW total, BlocksInv(bs, total), NEW code, IsSeq(code),
         NEW b, code # <<>> => b \in DOMAIN bs, NEW more, more = Emitted(bs, b, code)
  PROVE  /\ IsSeq(more) /\ Len(more) = Len(bs) /\ DOMAIN more = DOMAIN bs
         /\ Extends(bs, more)
         /\ \A x \in DOMAIN bs : /\ more[x] = [fn |-> bs[x].fn, code |-> more[x].code]
                                 /\ more[x].fn = bs[x].fn
                                 /\ IsSeq(more[x].code)
                                 /\ x # b => more[x] = bs[x]
         /\ code # <<>> =>
              /\ DOMAIN more[b].code = 1 .. Len(bs[b].code) + Len(code)
              /\ Len(more[b].code) = Len(bs[b].code) + Len(code)
              /\ Len(bs[b].code) \in Nat /\ Len(code) \in Nat
              /\ \A i \in 1 .. Len(bs[b].code) + Len(code) :
                   more[b].code[i] = IF i <= Len(bs[b].code) THEN bs[b].code[i]
                                     ELSE code[i - Len(bs[b].code)]
<1>1. /\ IsSeq(bs) /\ Len(bs) \in Nat /\ DOMAIN bs = 1 .. Len(bs)
      /\ \A x \in DOMAIN bs : /\ bs[x] = [fn |-> bs[x].fn, code |-> bs[x].code]
                              /\ IsSeq(bs[x].code)
  BY SeqFacts DEF BlocksInv
<1>2. CASE code = <<>>
  BY <1>1, <1>2 DEF Emitted, Extends
<1>3. CASE code # <<>>
  <2> DEFINE all == bs[b].code \o code
             was == Len(bs[b].code)
  <2>1. b \in DOMAIN bs /\ more = [bs EXCEPT ![b].code = all]
    BY <1>3 DEF Emitted
  <2>2. /\ IsSeq(all) /\ DOMAIN all = 1 .. was + Len(code)
        /\ was \in Nat /\ Len(code) \in Nat /\ DOMAIN bs[b].code = 1 .. was
        /\ \A i \in 1 .. was + Len(code) :
             all[i] = IF i <= was THEN bs[b].code[i] ELSE code[i - was]
    <3>1. IsSeq(bs[b].code)
      BY <1>1, <2>1
    <3>2. IsSeq(all) /\ DOMAIN all = 1 .. was + Len(code)
      BY <3>1, Concatenated
    <3>4. \A i \in DOMAIN all : all[i] = IF i <= was THEN bs[b].code[i] ELSE code[i - was]
      BY <3>1, Concatenated
    <3>3. was \in Nat /\ Len(code) \in Nat /\ DOMAIN bs[b].code = 1 .. was
      BY <3>1, SeqFacts
    <3> QED
      BY <3>2, <3>3, <3>4
  <2> HIDE DEF all, was
  <2>3. /\ DOMAIN more = DOMAIN bs
        /\ \A x \in DOMAIN bs : x # b => more[x] = bs[x]
        /\ more[b] = [fn |-> bs[b].fn, code |-> all]
    BY <1>1, <2>1
  <2>8. Len(more[b].code) = was + Len(code)
    BY <2>2, <2>3, SeqFacts
  <2>4. more = [x \in 1 .. Len(bs) |-> more[x]]
    BY <1>1, <2>1
  <2>5. IsSeq(more) /\ Len(more) = Len(bs)
    BY <1>1, <2>3, <2>4, SeqFromFunction
  <2>6. \A i \in 1 .. was : i \in 1 .. was + Len(code) /\ i <= was
    BY <2>2
  <2>7. Extends(bs, more)
    <3>1. \A i \in DOMAIN bs[b].code : i \in DOMAIN all /\ all[i] = bs[b].code[i]
      BY <2>2, <2>6
    <3>2. more[b].fn = bs[b].fn /\ more[b].code = all
      BY <2>3
    <3>3. ASSUME NEW x \in DOMAIN bs
          PROVE  /\ x \in DOMAIN more /\ more[x].fn = bs[x].fn
                 /\ \A i \in DOMAIN bs[x].code : /\ i \in DOMAIN more[x].code
                                                 /\ more[x].code[i] = bs[x].code[i]
      <4>1. CASE x = b
        BY <2>3, <3>1, <3>2, <4>1
      <4>2. CASE x # b
        BY <2>3, <4>2
      <4> QED
        BY <4>1, <4>2
    <3> QED
      BY <3>3 DEF Extends
  <2> QED
    BY <1>1, <1>3, <2>2, <2>3, <2>5, <2>7, <2>8 DEF was
<1> QED
  BY <1>2, <1>3

LEMMA EmittedCode ==
  ASSUME NEW bs, NEW total, BlocksInv(bs, total), NEW b, b \in DOMAIN bs,
         NEW code, IsSeq(code), code # <<>>, NEW more, more = Emitted(bs, b, code)
  PROVE  \A i \in 1 .. Len(bs[b].code) + Len(code) :
           more[b].code[i] = IF i <= Len(bs[b].code) THEN bs[b].code[i]
                             ELSE code[i - Len(bs[b].code)]
BY EmittedFacts

LEMMA EmittedFits ==
  ASSUME NEW bs, NEW total, BlocksInv(bs, total), NEW code, IsSeq(code),
         NEW b, code # <<>> => b \in DOMAIN bs, NEW more, more = Emitted(bs, b, code),
         CodeFits(more, code)
  PROVE  BlocksInv(more, total)
<1>1. /\ IsSeq(more) /\ DOMAIN more = DOMAIN bs
      /\ \A x \in DOMAIN bs : /\ more[x] = [fn |-> more[x].fn, code |-> more[x].code]
                              /\ more[x].fn \in 1 .. total
                              /\ IsSeq(more[x].code)
  <2>1. \A x \in DOMAIN bs : bs[x].fn \in 1 .. total
    BY DEF BlocksInv
  <2>2. /\ IsSeq(more) /\ DOMAIN more = DOMAIN bs
        /\ \A x \in DOMAIN bs : /\ more[x] = [fn |-> bs[x].fn, code |-> more[x].code]
                                /\ more[x].fn = bs[x].fn
                                /\ IsSeq(more[x].code)
    BY EmittedFacts
  <2> QED
    BY <2>1, <2>2
<1>2. ASSUME NEW x \in DOMAIN bs PROVE CodeFits(more, more[x].code)
  <2>1. CodeFits(more, bs[x].code)
    BY EmittedFacts, ValuesKept DEF BlocksInv
  <2>2. CASE code = <<>> \/ x # b
    <3>1. more[x] = bs[x]
      BY <2>2, EmittedFacts DEF Emitted
    <3> QED
      BY <2>1, <3>1
  <2>3. CASE code # <<>> /\ x = b
    <3> DEFINE was == Len(bs[b].code)
    <3>1. /\ DOMAIN more[b].code = 1 .. was + Len(code)
          /\ was \in Nat /\ Len(code) \in Nat /\ DOMAIN code = 1 .. Len(code)
          /\ DOMAIN bs[b].code = 1 .. was
          /\ \A i \in 1 .. was + Len(code) :
               more[b].code[i] = IF i <= was THEN bs[b].code[i] ELSE code[i - was]
      <4>1. IsSeq(bs[b].code)
        BY <2>3 DEF BlocksInv
      <4>2. /\ DOMAIN more[b].code = 1 .. was + Len(code)
            /\ \A i \in 1 .. was + Len(code) :
                 more[b].code[i] = IF i <= was THEN bs[b].code[i] ELSE code[i - was]
        BY <2>3, EmittedFacts
      <4> QED
        BY <4>1, <4>2, SeqFacts
    <3> HIDE DEF was
    <3>2. SUFFICES ASSUME NEW i \in 1 .. was + Len(code), NEW k \in DOMAIN more[b].code[i].args
                   PROVE  IsValue(more[b].code[i].args[k], more)
      BY <2>3, <3>1 DEF CodeFits
    <3>3. CASE i <= was
      <4>1. i \in DOMAIN bs[b].code /\ more[b].code[i] = bs[b].code[i]
        BY <3>1, <3>3
      <4>2. CodeFits(more, bs[b].code)
        BY <2>1, <2>3
      <4> QED
        BY <3>2, <4>1, <4>2 DEF CodeFits
    <3>4. CASE ~(i <= was)
      <4> DEFINE j == i - was
      <4>1. j \in DOMAIN code /\ more[b].code[i] = code[j]
        BY <3>1, <3>4
      <4> HIDE DEF j
      <4> QED
        BY <3>2, <4>1 DEF CodeFits
    <3> QED
      BY <3>3, <3>4
  <2> QED
    BY <2>2, <2>3
<1> QED
  BY <1>1, <1>2 DEF BlocksInv

\* Blocks put behind the others, of old functions or of a new one.
LEMMA BlocksAdded ==
  ASSUME NEW bs, NEW total \in Nat, BlocksInv(bs, total),
         NEW new, IsSeq(new), NEW sum \in Nat, total <= sum,
         NEW more, more = bs \o new,
         \A x \in DOMAIN new : /\ new[x] = [fn |-> new[x].fn, code |-> new[x].code]
                               /\ new[x].fn \in 1 .. sum
                               /\ IsSeq(new[x].code)
                               /\ CodeFits(more, new[x].code)
  PROVE  /\ BlocksInv(more, sum) /\ Extends(bs, more)
         /\ Len(more) = Len(bs) + Len(new)
         /\ \A x \in DOMAIN new : /\ Len(bs) + x \in DOMAIN more
                                  /\ more[Len(bs) + x] = new[x]
<1> DEFINE was == Len(bs)
           number == Len(new)
<1>1. /\ was \in Nat /\ DOMAIN bs = 1 .. was /\ number \in Nat /\ DOMAIN new = 1 .. number
      /\ IsSeq(more) /\ Len(more) = was + number /\ DOMAIN more = 1 .. was + number
      /\ \A x \in 1 .. was + number : more[x] = IF x <= was THEN bs[x] ELSE new[x - was]
  <2>1. IsSeq(bs)
    BY DEF BlocksInv
  <2>2. was \in Nat /\ DOMAIN bs = 1 .. was /\ number \in Nat /\ DOMAIN new = 1 .. number
    BY <2>1, SeqFacts
  <2>3. /\ IsSeq(more) /\ Len(more) = was + number
        /\ DOMAIN more = 1 .. was + number
    BY <2>1, Concatenated
  <2>4. \A x \in DOMAIN more : more[x] = IF x <= was THEN bs[x] ELSE new[x - was]
    BY <2>1, Concatenated
  <2> QED
    BY <2>2, <2>3, <2>4
<1> HIDE DEF was, number
<1>2. \A x \in 1 .. was : x \in 1 .. was + number /\ more[x] = bs[x]
  BY <1>1
<1>3. ASSUME NEW x \in 1 .. number PROVE was + x \in 1 .. was + number /\ more[was + x] = new[x]
  <2> DEFINE y == was + x
  <2>1. y \in 1 .. was + number /\ ~(y <= was)
    BY <1>1
  <2>2. y - was = x
    <3>1. \A p, q \in Int : p + q - p = q
      OBVIOUS
    <3> QED
      BY <1>1, <3>1
  <2> HIDE DEF y
  <2>3. more[y] = new[x]
    BY <1>1, <2>1, <2>2
  <2> QED
    BY <2>1, <2>3 DEF y
<1>4. Extends(bs, more)
  BY <1>1, <1>2 DEF Extends
<1>5. ASSUME NEW y \in 1 .. was + number
      PROVE  /\ more[y] = [fn |-> more[y].fn, code |-> more[y].code]
             /\ more[y].fn \in 1 .. sum
             /\ IsSeq(more[y].code)
             /\ CodeFits(more, more[y].code)
  <2>1. CASE y <= was
    <3>1. y \in DOMAIN bs /\ more[y] = bs[y]
      BY <1>1, <2>1
    <3>2. /\ bs[y] = [fn |-> bs[y].fn, code |-> bs[y].code]
          /\ bs[y].fn \in 1 .. total /\ IsSeq(bs[y].code)
          /\ CodeFits(bs, bs[y].code)
      BY <3>1 DEF BlocksInv
    <3>3. bs[y].fn \in 1 .. sum
      BY <3>2
    <3>4. CodeFits(more, bs[y].code)
      BY <1>4, <3>2, ValuesKept
    <3> QED
      BY <3>1, <3>2, <3>3, <3>4
  <2>2. CASE ~(y <= was)
    <3> DEFINE x == y - was
    <3>1. x \in DOMAIN new /\ more[y] = new[x]
      BY <1>1, <2>2
    <3> HIDE DEF x
    <3> QED
      BY <3>1
  <2> QED
    BY <2>1, <2>2
<1>6. BlocksInv(more, sum)
  BY <1>1, <1>5 DEF BlocksInv
<1> QED
  BY <1>1, <1>3, <1>4, <1>6 DEF was, number

-----------------------------------------------------------------------------
(* The stack of values.                                                      *)

LEMMA ValuesStay ==
  ASSUME NEW bs, NEW vs, ValuesInv(bs, vs), NEW more, Extends(bs, more),
         more = <<>> => bs = <<>>
  PROVE  ValuesInv(more, vs)
BY ValueKept DEF ValuesInv

\* The topmost values are used up.
LEMMA ValuesDropped ==
  ASSUME NEW bs, NEW vs, ValuesInv(bs, vs), NEW number \in 0 .. Len(vs),
         NEW us, us = SubSeq(vs, 1, number)
  PROVE  /\ ValuesInv(bs, us) /\ Len(us) = number
         /\ \A k \in DOMAIN us : k \in DOMAIN vs /\ us[k] = vs[k]
<1>1. IsSeq(vs)
  BY DEF ValuesInv
<1>2. /\ IsSeq(us) /\ Len(us) = number /\ DOMAIN us = 1 .. number
      /\ \A k \in 1 .. number : us[k] = vs[k] /\ k \in DOMAIN vs
  BY <1>1, FirstOf
<1> QED
  BY <1>2 DEF ValuesInv

\* And a result put on the stack.
LEMMA ValuesPut ==
  ASSUME NEW bs, NEW vs, ValuesInv(bs, vs), NEW v, IsValue(v, bs),
         bs = <<>> => v.is \in {"constant", "null"}, NEW us, us = Append(vs, v)
  PROVE  /\ ValuesInv(bs, us) /\ Len(us) = Len(vs) + 1
         /\ \A k \in DOMAIN us : \/ us[k] = v
                                 \/ k \in DOMAIN vs /\ us[k] = vs[k]
<1>1. IsSeq(vs)
  BY DEF ValuesInv
<1>2. Len(vs) \in Nat /\ DOMAIN vs = 1 .. Len(vs)
  BY <1>1, SeqFacts
<1>3. /\ IsSeq(us) /\ Len(us) = Len(vs) + 1 /\ DOMAIN us = 1 .. Len(vs) + 1
      /\ \A k \in DOMAIN vs : us[k] = vs[k]
      /\ us[Len(vs) + 1] = v
  <2>1. IsSeq(us) /\ Len(us) = Len(vs) + 1 /\ DOMAIN us = 1 .. Len(vs) + 1
    BY <1>1, Appended
  <2>2. (\A k \in DOMAIN vs : us[k] = vs[k]) /\ us[Len(vs) + 1] = v
    BY <1>1, Appended
  <2> QED
    BY <2>1, <2>2
<1>4. \A k \in DOMAIN us : \/ us[k] = v
                           \/ k \in DOMAIN vs /\ us[k] = vs[k]
  <2> DEFINE number == Len(vs)
  <2>1. number \in Nat /\ DOMAIN vs = 1 .. number /\ DOMAIN us = 1 .. number + 1 /\ us[number + 1] = v
    BY <1>2, <1>3
  <2> HIDE DEF number
  <2>2. \A k \in 1 .. number + 1 : k \in 1 .. number \/ k = number + 1
    BY <2>1
  <2> QED
    BY <1>3, <2>1, <2>2
<1> QED
  BY <1>3, <1>4 DEF ValuesInv

\* What a step may leave as its result, with the instructions that make it.
Fitting(built) ==
  /\ IsSeq(built.code)
  /\ built.code # <<>> => insertBlock \in DOMAIN blocks
  /\ CodeFits(blocks, built.code)
  /\ IsValue(built.value, Emitted(blocks, insertBlock, built.code))
  /\ blocks = <<>> => built.value.is \in {"constant", "null"}

LEMMA PlaceFacts ==
  ASSUME Place(functions, blocks, insertBlock)
  PROVE  /\ Len(functions) \in Nat /\ DOMAIN functions = 1 .. Len(functions)
         /\ Len(blocks) \in Nat /\ DOMAIN blocks = 1 .. Len(blocks)
         /\ BlocksInv(blocks, Len(functions))
         /\ insertBlock # 0 => /\ insertBlock \in DOMAIN blocks /\ blocks # <<>>
                               /\ functions # <<>>
                               /\ Len(functions) \in 1 .. Len(functions)
                               /\ IsSeq(blocks[insertBlock].code)
         /\ functions = <<>> <=> insertBlock = 0
         /\ blocks = <<>> <=> insertBlock = 0
<1>1. /\ Len(functions) \in Nat /\ DOMAIN functions = 1 .. Len(functions)
      /\ functions # <<>> => Len(functions) > 0
  BY LenProperties, EmptySeq DEF Place, FunctionList
<1>2. /\ Len(blocks) \in Nat /\ DOMAIN blocks = 1 .. Len(blocks)
      /\ BlocksInv(blocks, Len(functions))
  BY SeqFacts DEF Place, BlocksInv
<1>3. ASSUME insertBlock # 0 PROVE insertBlock \in DOMAIN blocks /\ blocks # <<>>
  <2>1. insertBlock \in DOMAIN blocks
    BY <1>2, <1>3 DEF Place
  <2> QED
    BY <2>1
<1>4. ASSUME insertBlock # 0 PROVE functions # <<>> /\ Len(functions) \in 1 .. Len(functions)
  BY <1>1, <1>4 DEF Place
<1> QED
  BY <1>1, <1>2, <1>3, <1>4 DEF Place, BlocksInv

LEMMA InsertFits ==
  ASSUME Place(functions, blocks, insertBlock), insertBlock # 0,
         NEW op, NEW type \in ValueTypes, NEW args, NEW refs,
         \A k \in DOMAIN args : IsValue(args[k], blocks),
         NEW built, built = Insert(Instruction(op, type, args, refs))
  PROVE  Fitting(built) /\ Operand(built.value) /\ built.value.type = type
<1> DEFINE i == Instruction(op, type, args, refs)
           was == Len(blocks[insertBlock].code)
           more == Emitted(blocks, insertBlock, built.code)
<1>1. /\ built.code = <<i>> /\ i.type = type /\ i.args = args
      /\ built.value = Register(type, <<insertBlock, was + 1>>)
  BY DEF Insert, Instruction
<1>2. /\ IsSeq(<<i>>) /\ Len(<<i>>) = 1 /\ <<i>> # <<>> /\ DOMAIN <<i>> = {1}
      /\ <<i>>[1] = i
  <2>1. <<i>> \in Seq({i}) /\ Len(<<i>>) = 1 /\ DOMAIN <<i>> = {1} /\ <<i>>[1] = i
    OBVIOUS
  <2> QED
    BY <2>1, IsSeqOf
<1> HIDE DEF i
<1>3. insertBlock \in DOMAIN blocks /\ blocks # <<>> /\ BlocksInv(blocks, Len(functions))
  BY PlaceFacts
<1>4. CodeFits(blocks, built.code)
  BY <1>1, <1>2 DEF CodeFits
<1> DEFINE code == <<i>>
<1>10. Len(code) = 1
  BY <1>2
<1>5. /\ IsSeq(code) /\ code # <<>> /\ built.code = code
      /\ BlocksInv(blocks, Len(functions)) /\ insertBlock \in DOMAIN blocks
      /\ more = Emitted(blocks, insertBlock, code)
      /\ code[1] = i
  BY <1>1, <1>2, <1>3
<1> HIDE DEF code, more
<1>6. /\ DOMAIN more = DOMAIN blocks
      /\ DOMAIN more[insertBlock].code = 1 .. was + 1
      /\ was \in Nat
      /\ \A k \in 1 .. was + 1 :
           more[insertBlock].code[k] = IF k <= was THEN blocks[insertBlock].code[k]
                                       ELSE code[k - was]
  <2>1. DOMAIN more = DOMAIN blocks
    BY <1>5, EmittedFacts
  <2>5. IsSeq(more[insertBlock].code)
    BY <1>5, EmittedFacts
  <2>6. Len(more[insertBlock].code) = was + Len(code)
    BY <1>5, EmittedFacts
  <2>2. DOMAIN more[insertBlock].code = 1 .. was + Len(code)
    BY <2>5, <2>6, SeqFacts
  <2>4. was \in Nat
    BY <1>5, SeqFacts DEF BlocksInv
  <2>3. \A k \in 1 .. was + Len(code) :
           more[insertBlock].code[k] = IF k <= was THEN blocks[insertBlock].code[k]
                                       ELSE code[k - was]
    BY <1>5, EmittedCode
  <2>7. was + Len(code) = was + 1
    BY <1>10
  <2> HIDE DEF was
  <2> QED
    BY <2>1, <2>2, <2>3, <2>4, <2>7
<1>7. /\ was + 1 \in DOMAIN more[insertBlock].code
      /\ was + 1 \in Nat \ {0}
      /\ more[insertBlock].code[was + 1] = i
  <2> HIDE DEF was, more
  <2>1. was + 1 \in 1 .. was + 1 /\ ~(was + 1 <= was) /\ was + 1 - was = 1
    BY <1>6
  <2> QED
    BY <1>5, <1>6, <2>1
<1>8. IsValue(built.value, more)
  <2> HIDE DEF was, more
  <2> DEFINE at == <<insertBlock, was + 1>>
  <2>1. /\ at[1] = insertBlock /\ at[2] = was + 1
        /\ at \in (DOMAIN more) \X (Nat \ {0})
    BY <1>3, <1>6, <1>7
  <2> HIDE DEF at
  <2>2. /\ built.value = Register(type, at)
        /\ built.value.is = "register" /\ built.value.type = type /\ built.value.at = at
    BY <1>1 DEF Register, at
  <2>3. IsResult(built.value, more)
    BY <1>1, <1>7, <2>1, <2>2 DEF IsResult
  <2> QED
    BY <2>2, <2>3 DEF IsValue
<1>9. built.value.is = "register" /\ built.value.type = type
  BY <1>1 DEF Register
<1> QED
  BY <1>3, <1>4, <1>5, <1>8, <1>9 DEF Fitting, Operand, more

\* A result without instructions.
LEMMA NoCodeFits ==
  ASSUME NEW built, built.code = <<>>, IsValue(built.value, blocks),
         blocks = <<>> => built.value.is \in {"constant", "null"}
  PROVE  Fitting(built)
<1>1. IsSeq(<<>>)
  BY EmptySeq, IsSeqOf
<1> QED
  BY <1>1 DEF Fitting, CodeFits, Emitted

LEMMA ConstantFits ==
  ASSUME NEW type \in ValueTypes, NEW v, NEW bs
  PROVE  /\ IsValue(Constant(type, v), bs) /\ Constant(type, v).is = "constant"
         /\ Operand(Constant(type, v)) /\ Constant(type, v).type = type
BY DEF IsValue, Constant, Operand, ValueTypes

LEMMA BuildFits ==
  ASSUME Place(functions, blocks, insertBlock), NEW op, NEW type \in ValueTypes,
         NEW x, IsValue(x, blocks), NEW y, IsValue(y, blocks),
         blocks = <<>> => x.is = "constant" /\ y.is = "constant",
         NEW built, built = Build(op, type, x, y)
  PROVE  Fitting(built) /\ Operand(built.value) /\ built.value.type = type
<1>1. CASE x.is = "constant" /\ y.is = "constant"
  <2>1. PICK v : built = [value |-> Constant(type, v), code |-> <<>>]
    BY <1>1 DEF Build
  <2>2. built.value = Constant(type, v) /\ built.code = <<>>
    BY <2>1
  <2> QED
    BY <2>2, ConstantFits, NoCodeFits
<1>2. CASE ~(x.is = "constant" /\ y.is = "constant")
  <2> DEFINE args == <<x, y>>
  <2>1. built = Insert(Instruction(op, type, args, <<>>))
    BY <1>2 DEF Build
  <2>2. insertBlock # 0
    BY <1>2, PlaceFacts
  <2>3. \A k \in DOMAIN args : IsValue(args[k], blocks)
    OBVIOUS
  <2> HIDE DEF args
  <2> QED
    BY <2>1, <2>2, <2>3, InsertFits
<1> QED
  BY <1>1, <1>2

-----------------------------------------------------------------------------
(* Steps.                                                                    *)

Running ==
  /\ TypeOK /\ Generable /\ CodeInv
  /\ outcome = "running" /\ todo # <<>>

\* What is known of the step at hand.
LEMMA AtJob ==
  ASSUME Running
  PROVE  /\ todo \in Seq(Jobs(tree)) /\ 1 \in DOMAIN todo /\ job = todo[1]
         /\ Linked(tree, todo) /\ \E d : Depths(tree, todo, d, Len(values))
         /\ job \in Jobs(tree) /\ job.node \in DOMAIN tree
         /\ Len(values) \in Nat /\ DOMAIN values = 1 .. Len(values)
         /\ DepthFits(tree, job, Len(values))
         /\ JobFits(tree, functions, blocks, job)
         /\ (\A k \in DOMAIN values : Operand(values[k])) \/ TakesResult(job)
<1>1. /\ todo \in Seq(Jobs(tree)) /\ todo # <<>>
      /\ TodoInv(tree, functions, blocks, todo, Len(values))
  BY DEF Running, CodeInv, Generating, TodoInv
<1>2. 1 \in DOMAIN todo /\ job = todo[1] /\ job \in Jobs(tree)
  <2>1. Len(todo) \in Nat \ {0} /\ DOMAIN todo = 1 .. Len(todo)
    BY <1>1, EmptySeq, LenProperties
  <2>2. 1 \in 1 .. Len(todo)
    BY <2>1
  <2>3. job = todo[1] /\ todo[1] \in Jobs(tree)
    BY <1>1, <2>2, ElementOfSeq DEF job
  <2> QED
    BY <2>1, <2>2, <2>3
<1>3. job.node \in DOMAIN tree
  BY <1>2 DEF Jobs
<1>4. Len(values) \in Nat /\ DOMAIN values = 1 .. Len(values)
  BY SeqFacts DEF Running, CodeInv, ValuesInv
<1>5. Linked(tree, todo) /\ \E d : Depths(tree, todo, d, Len(values))
  BY <1>1 DEF TodoInv
<1>6. DepthFits(tree, job, Len(values))
  <2>1. PICK d : Depths(tree, todo, d, Len(values))
    BY <1>5
  <2>2. d[1] = Len(values) /\ DepthFits(tree, todo[1], d[1])
    BY <1>1, <1>2, <2>1 DEF Depths
  <2> QED
    BY <1>2, <2>2
<1>7. JobFits(tree, functions, blocks, job)
  BY <1>1, <1>2 DEF TodoInv
<1>8. (\A k \in DOMAIN values : Operand(values[k])) \/ TakesResult(job)
  BY <1>2 DEF Running, CodeInv, Generating
<1> QED
  BY <1>1, <1>2, <1>3, <1>4, <1>5, <1>6, <1>7, <1>8

\* The step gives way to the steps js.
LEMMA GoesOnWith ==
  ASSUME Running, tree' = tree,
         NEW js \in Seq(Jobs(tree)), js # <<>>, Then(js),
         Replaces(tree, js, job),
         NEW e, Depths(tree, js, e, Len(values')),
         Balanced(tree, js, e, job, Len(values)),
         Place(functions', blocks', insertBlock'),
         allocated' \in [DOMAIN tree -> 0 .. Len(functions')],
         ValuesInv(blocks', values'),
         \A k \in DOMAIN js : JobFits(tree, functions', blocks', js[k]),
         \A k \in DOMAIN todo : k > 1 => JobFits(tree, functions', blocks', todo[k]),
         (\A k \in DOMAIN values' : Operand(values'[k])) \/ TakesResult(js[1])
  PROVE  CodeInv'
<1> DEFINE t == todo'
           us == values'
<1>1. /\ todo \in Seq(Jobs(tree)) /\ todo # <<>> /\ job = todo[1] /\ Linked(tree, todo)
      /\ t = js \o Tail(todo)
  BY AtJob DEF Running, Then
<1>2. PICK d : Depths(tree, todo, d, Len(values))
  BY AtJob
<1>3. /\ t \in Seq(Jobs(tree)) /\ t # <<>> /\ t[1] = js[1]
      /\ Linked(tree, t)
      /\ \E f : Depths(tree, t, f, Len(us))
      /\ FromEither(js, todo, t)
  <2> DEFINE count == Len(us)
             c == Len(values)
  <2>1. /\ Replaces(tree, js, todo[1]) /\ Depths(tree, js, e, count)
        /\ Balanced(tree, js, e, todo[1], c)
        /\ Depths(tree, todo, d, c)
    BY <1>1, <1>2
  <2>2. /\ todo \in Seq(Jobs(tree)) /\ todo # <<>> /\ Linked(tree, todo)
        /\ js \in Seq(Jobs(tree)) /\ js # <<>>
    BY <1>1
  <2>3. t = js \o Tail(todo)
    BY <1>1
  <2> HIDE DEF t, count, c
  <2>4. /\ t \in Seq(Jobs(tree)) /\ t # <<>>
        /\ Linked(tree, t)
    BY <2>2, <2>3, <2>1, Continue
  <2>5. t[1] = js[1]
    BY <2>2, <2>3, <2>1, Continue
  <2>6. \E f : Depths(tree, t, f, count)
    BY <2>2, <2>3, <2>1, Continue
  <2>7. FromEither(js, todo, t)
    BY <2>2, <2>3, <2>1, Continue
  <2> QED
    BY <2>4, <2>5, <2>6, <2>7 DEF count
<1>4. \A k \in DOMAIN t : JobFits(tree, functions', blocks', t[k])
  BY <1>3 DEF FromEither
<1>5. TodoInv(tree, functions', blocks', t, Len(us))
  BY <1>3, <1>4 DEF TodoInv
<1>6. (\A k \in DOMAIN us : Operand(us[k])) \/ TakesResult(t[1])
  BY <1>3
<1>7. Generating(tree, functions', blocks', t, us)
  BY <1>3, <1>5, <1>6 DEF Generating
<1>8. outcome' = "running"
  BY DEF Running, Then
<1> QED
  BY <1>7, <1>8 DEF CodeInv

\* The step is done.
LEMMA Returns ==
  ASSUME Running, tree' = tree, Then(<<>>),
         Len(values') = Len(values) + Gain(tree, job),
         Place(functions', blocks', insertBlock'),
         allocated' \in [DOMAIN tree -> 0 .. Len(functions')],
         ValuesInv(blocks', values'),
         \A k \in DOMAIN todo : k > 1 => JobFits(tree, functions', blocks', todo[k]),
         (\A k \in DOMAIN values' : Operand(values'[k])) \/ LeavesResult(tree, job)
  PROVE  CodeInv'
<1> DEFINE t == todo'
           us == values'
<1>1. /\ todo \in Seq(Jobs(tree)) /\ todo # <<>> /\ job = todo[1] /\ Linked(tree, todo)
      /\ outcome' = "running"
  BY AtJob DEF Running, Then
<1>2. PICK d : Depths(tree, todo, d, Len(values))
  BY AtJob
<1>3. t = Tail(todo)
  <2>1. Tail(todo) \in Seq(Jobs(tree))
    BY <1>1, HeadTailProperties
  <2>2. <<>> \o Tail(todo) = Tail(todo)
    BY <2>1, ConcatEmptySeq
  <2> QED
    BY <2>2 DEF Then
<1>4. /\ t \in Seq(Jobs(tree))
      /\ Linked(tree, t)
      /\ \E f : Depths(tree, t, f, Len(us))
      /\ \A k \in DOMAIN t : \E l \in DOMAIN todo : l > 1 /\ t[k] = todo[l]
      /\ LeavesResult(tree, job) => t # <<>> /\ TakesResult(t[1])
  <2> DEFINE c == Len(values)
  <2>1. Depths(tree, todo, d, c)
    BY <1>2
  <2> HIDE DEF t, c
  <2>2. /\ t \in Seq(Jobs(tree))
        /\ Linked(tree, t)
        /\ \E f : Depths(tree, t, f, c + Gain(tree, todo[1]))
        /\ \A k \in DOMAIN t : \E l \in DOMAIN todo : l > 1 /\ t[k] = todo[l]
        /\ LeavesResult(tree, todo[1]) => t # <<>> /\ TakesResult(t[1])
    <3>1. /\ t \in Seq(Jobs(tree))
          /\ Linked(tree, t)
      BY <1>1, <1>3, <2>1, Return
    <3>2. \E f : Depths(tree, t, f, c + Gain(tree, todo[1]))
      BY <1>1, <1>3, <2>1, Return
    <3>3. \A k \in DOMAIN t : \E l \in DOMAIN todo : l > 1 /\ t[k] = todo[l]
      BY <1>1, <1>3, <2>1, Return
    <3>4. LeavesResult(tree, todo[1]) => t # <<>> /\ TakesResult(t[1])
      BY <1>1, <1>3, <2>1, Return
    <3> QED
      BY <3>1, <3>2, <3>3, <3>4
  <2>3. Len(us) = c + Gain(tree, todo[1])
    BY <1>1 DEF c
  <2> QED
    BY <1>1, <2>2, <2>3
<1>5. \A k \in DOMAIN t : JobFits(tree, functions', blocks', t[k])
  BY <1>4
<1>6. TodoInv(tree, functions', blocks', t, Len(us))
  BY <1>4, <1>5 DEF TodoInv
<1>7. (\A k \in DOMAIN us : Operand(us[k])) \/ (t # <<>> /\ TakesResult(t[1]))
  BY <1>4
<1>8. Generating(tree, functions', blocks', t, us)
  BY <1>6, <1>7 DEF Generating
<1> QED
  BY <1>1, <1>8 DEF CodeInv

\* What is left to do stays possible while blocks only grow.
LEMMA JobsStay ==
  ASSUME Running, Extends(blocks, blocks'), functions' = functions
  PROVE  \A k \in DOMAIN todo : JobFits(tree, functions', blocks', todo[k])
<1>1. \A k \in DOMAIN todo : JobFits(tree, functions, blocks, todo[k])
  BY DEF Running, CodeInv, Generating, TodoInv
<1> QED
  BY <1>1 DEF JobFits, Extends
-----------------------------------------------------------------------------
(* Symbols say where they were declared.                                     *)

Placed(symbol) == symbol # NoSymbol => symbol.declaredAt \in DOMAIN tree

SymbolsPlaced ==
  /\ \A s \in DOMAIN scopes : \A name \in Names : Placed(scopes[s].table[name])
  /\ \A m \in DOMAIN tree : Placed(symbolOf[m])

LEMMA InsertPlaced ==
  ASSUME TypeOK, SymbolsPlaced, NEW s \in DOMAIN scopes, NEW symbol,
         Placed(symbol), symbol.declaredAt \in DOMAIN tree,
         NEW after, after = insertSymbol(s, symbol)
  PROVE  /\ DOMAIN after = DOMAIN scopes
         /\ \A t \in DOMAIN scopes : \A name \in Names : Placed(after[t].table[name])
<1> DEFINE d == tree[symbol.declaredAt].name
           new == IF scopes[s].table[d] = NoSymbol THEN symbol
                  ELSE scopes[s].table[d]
<1>1. d \in Names
  <2>1. tree \in Seq(TreeNode)
    BY DEF TypeOK, WellFormed
  <2>2. tree[symbol.declaredAt] \in TreeNode
    BY <2>1, ElementOfSeq, LenProperties
  <2> QED
    BY <2>2 DEF TreeNode
<1>2. /\ DOMAIN after = DOMAIN scopes
      /\ \A t \in DOMAIN scopes : t # s => after[t] = scopes[t]
      /\ after[s].table = [scopes[s].table EXCEPT ![d] = new]
  <2>1. /\ after = [scopes EXCEPT ![s] = [scopes[s] EXCEPT !.table =
                                          [scopes[s].table EXCEPT ![d] = new]]]
        /\ scopes[s] \in ScopeType
    BY ChainBounded DEF insertSymbol
  <2> HIDE DEF new, d
  <2> QED
    BY <2>1 DEF ScopeType
<1>3. Placed(new)
  BY <1>1 DEF SymbolsPlaced
<1>4. DOMAIN scopes[s].table = Names
  BY ChainBounded DEF ScopeType
<1> HIDE DEF new, d
<1>5. \A name \in Names : Placed(after[s].table[name])
  BY <1>1, <1>2, <1>3, <1>4 DEF SymbolsPlaced
<1> QED
  BY <1>2, <1>5 DEF SymbolsPlaced

LEMMA LookupPlaced ==
  ASSUME TypeOK, SymbolsPlaced, NEW s \in DOMAIN scopes, NEW name \in Names
  PROVE  Placed(lookupSymbol(s, name))
<1>1. CASE holders(s, name) = {}
  BY <1>1 DEF lookupSymbol, Placed
<1>2. CASE holders(s, name) # {}
  <2>1. Max(holders(s, name)) \in DOMAIN scopes
    BY <1>2, LookupFinds, ChainBounded DEF holders
  <2> QED
    BY <1>2, <2>1, LookupFinds DEF SymbolsPlaced
<1> QED
  BY <1>1, <1>2

LEMMA NoSymbolPlaced ==
  ASSUME NEW chain, NEW isGlobal, NEW name \in Names
  PROVE  Placed(ScopeObject(chain, isGlobal).table[name])
BY DEF ScopeObject, Placed

LEMMA NextKeepsTree == Next => tree' = tree
BY DEF Next, AnalyzeRoot, AnalyzeVarDecl, AnalyzeFnParam, AnalyzeFnDef,
       AnalyzeBlock, AnalyzeIfSt, AnalyzeVariable, AnalyzeFnCallExpr,
       AnalyzeOperands, AnalyzeLiteral, RefuseDeclaration, RefuseVariable,
       RefuseCall, fatalSemaError, Analyze, Finish

\* The tables of scopes that are added are empty.
LEMMA PlacedStep ==
  ASSUME TypeOK, SymbolsPlaced, Next
  PROVE  SymbolsPlaced'
<1>1. tree' = tree
  BY NextKeepsTree
<1>2. CASE UNCHANGED <<scopes, symbolOf>>
  BY <1>1, <1>2 DEF SymbolsPlaced, Placed
<1>3. CASE AnalyzeRoot
  <2>1. scopes' = <<ScopeObject({1}, TRUE)>> /\ symbolOf' = symbolOf
    BY <1>3 DEF AnalyzeRoot
  <2> DEFINE c == ScopeObject({1}, TRUE)
  <2>2. \A name \in Names : Placed(c.table[name])
    BY NoSymbolPlaced
  <2>3. scopes' = <<c>>
    BY <2>1
  <2> HIDE DEF c
  <2>4. \A s \in DOMAIN scopes' : scopes'[s] = c
    BY <2>3
  <2> QED
    BY <1>1, <2>1, <2>2, <2>4 DEF SymbolsPlaced, Placed
<1>4. CASE AnalyzeVarDecl \/ AnalyzeFnParam
  <2>1. /\ work # <<>> /\ node.kind # "Root"
        /\ symbolOf' = [symbolOf EXCEPT ![n] = variable]
        /\ scopes' = insertSymbol(scope, variable)
    BY <1>4 DEF AnalyzeVarDecl, AnalyzeFnParam, Analyze
  <2>2. /\ n \in DOMAIN tree /\ scope \in DOMAIN scopes
        /\ variable.declaredAt = n /\ Placed(variable)
    BY <2>1, CurrentCall, DeclaredSymbols DEF Placed
  <2> HIDE DEF n, variable
  <2>3. \A t \in DOMAIN scopes' : \A name \in Names : Placed(scopes'[t].table[name])
    BY <2>1, <2>2, InsertPlaced
  <2>4. \A m \in DOMAIN tree : Placed(symbolOf'[m])
    BY <2>1, <2>2 DEF SymbolsPlaced, TypeOK
  <2> QED
    BY <1>1, <2>3, <2>4 DEF SymbolsPlaced, Placed
<1>5. CASE AnalyzeFnDef
  <2> DEFINE after == insertSymbol(scope, function)
             child == createChildScope(scope, 1)
  <2>1. /\ work # <<>> /\ node.kind = "FnDef" /\ node.kind # "Root"
        /\ symbolOf' = symbolOf /\ scopes' = Append(after, child)
        /\ lookupSymbol(scope, node.name) = NoSymbol
    BY <1>5 DEF AnalyzeFnDef, Analyze, CanBeDeclared
  <2>2. /\ n \in DOMAIN tree /\ scope \in DOMAIN scopes /\ function \in Symbol
        /\ function.declaredAt = n /\ Placed(function)
    BY <2>1, CurrentCall, DeclaredSymbols DEF Placed
  <2>3. after \in Seq(ScopeType) /\ DOMAIN after = DOMAIN scopes
    BY <2>1, <2>2, InsertSymbol DEF node
  <2>4. \A t \in DOMAIN after : \A name \in Names : Placed(after[t].table[name])
    <3> HIDE DEF n, after
    <3> QED
      BY <2>2, <2>3, InsertPlaced DEF after
  <2>5. child \in ScopeType
    BY <2>2, ChildScope
  <2>6. \A name \in Names : Placed(child.table[name])
    BY NoSymbolPlaced DEF createChildScope
  <2> HIDE DEF after, child
  <2>7. \A t \in DOMAIN scopes' : \/ t \in DOMAIN after /\ scopes'[t] = after[t]
                                  \/ scopes'[t] = child
    BY <2>1, <2>3, <2>5, AppendProperties, LenProperties
  <2> QED
    BY <1>1, <2>1, <2>4, <2>6, <2>7 DEF SymbolsPlaced, Placed
<1>6. CASE AnalyzeIfSt
  <2> DEFINE one == createChildScope(scope, 1)
             two == createChildScope(scope, 2)
  <2>1. /\ work # <<>> /\ node.kind # "Root"
        /\ symbolOf' = symbolOf /\ scopes' = scopes \o <<one, two>>
    BY <1>6 DEF AnalyzeIfSt, Analyze
  <2>2. one \in ScopeType /\ two \in ScopeType
    BY <2>1, CurrentCall, ChildScope
  <2>3. \A name \in Names : Placed(one.table[name]) /\ Placed(two.table[name])
    BY NoSymbolPlaced DEF createChildScope
  <2> HIDE DEF one, two
  <2>4. /\ <<one, two>> \in Seq(ScopeType) /\ Len(<<one, two>>) = 2
        /\ scopes \in Seq(ScopeType) /\ Len(scopes) \in Nat
    BY <2>2, LenProperties DEF TypeOK
  <2>5. \A t \in DOMAIN scopes' :
          \/ t \in DOMAIN scopes /\ scopes'[t] = scopes[t]
          \/ scopes'[t] = one \/ scopes'[t] = two
    <3>1. /\ Len(scopes') = Len(scopes) + 2 /\ DOMAIN scopes' = 1 .. Len(scopes) + 2
          /\ DOMAIN scopes = 1 .. Len(scopes)
          /\ \A t \in 1 .. Len(scopes) + 2 :
               scopes'[t] = IF t <= Len(scopes) THEN scopes[t]
                            ELSE <<one, two>>[t - Len(scopes)]
      BY <2>1, <2>4, ConcatProperties, LenProperties
    <3> DEFINE c == Len(scopes)
    <3>2. ASSUME NEW t \in DOMAIN scopes', t \notin DOMAIN scopes
          PROVE  t - c \in 1 .. 2 /\ ~(t <= c)
      BY <2>4, <3>1, <3>2
    <3> QED
      BY <2>4, <3>1, <3>2
  <2> QED
    BY <1>1, <2>1, <2>3, <2>5 DEF SymbolsPlaced, Placed
<1>7. CASE AnalyzeVariable
  <2>1. /\ work # <<>> /\ node.kind # "Root" /\ scopes' = scopes
        /\ symbolOf' = [symbolOf EXCEPT ![n] = symbolHere]
    BY <1>7 DEF AnalyzeVariable, Analyze
  <2>2. n \in DOMAIN tree /\ scope \in DOMAIN scopes /\ node.name \in Names
    BY <2>1, CurrentCall DEF TreeNode
  <2>3. Placed(symbolHere)
    BY <2>2, LookupPlaced DEF symbolHere
  <2> QED
    BY <1>1, <2>1, <2>2, <2>3 DEF SymbolsPlaced, TypeOK, Placed
<1>8. CASE \/ AnalyzeBlock \/ AnalyzeFnCallExpr \/ AnalyzeOperands
           \/ AnalyzeLiteral \/ RefuseDeclaration \/ RefuseVariable
           \/ RefuseCall \/ Finish
  <2>1. UNCHANGED <<scopes, symbolOf>>
    BY <1>8 DEF AnalyzeBlock, AnalyzeFnCallExpr, AnalyzeOperands, AnalyzeLiteral,
         RefuseDeclaration, RefuseVariable, RefuseCall, fatalSemaError, Finish
  <2> QED
    BY <1>2, <2>1
<1> QED
  BY <1>3, <1>4, <1>5, <1>6, <1>7, <1>8 DEF Next

-----------------------------------------------------------------------------
(* Steps that end with a result.                                             *)

\* Instructions are put behind the others of the block they go to.
LEMMA EmitFits ==
  ASSUME Place(functions, blocks, insertBlock), NEW code, IsSeq(code),
         code # <<>> => insertBlock \in DOMAIN blocks, CodeFits(blocks, code),
         Emit(code)
  PROVE  /\ Place(functions, blocks', insertBlock)
         /\ blocks' = Emitted(blocks, insertBlock, code)
         /\ Extends(blocks, blocks')
         /\ blocks' = <<>> <=> blocks = <<>>
<1> DEFINE more == Emitted(blocks, insertBlock, code)
<1>1. blocks' = more
  BY DEF Emit, Emitted
<1>2. BlocksInv(blocks, Len(functions))
  BY PlaceFacts
<1>3. IsSeq(more) /\ Len(more) = Len(blocks) /\ DOMAIN more = DOMAIN blocks
  <2>1. IsSeq(more)
    BY <1>2, EmittedFacts
  <2>2. Len(more) = Len(blocks)
    BY <1>2, EmittedFacts
  <2>3. DOMAIN more = DOMAIN blocks
    BY <1>2, EmittedFacts
  <2> QED
    BY <2>1, <2>2, <2>3
<1>4. Extends(blocks, more)
  BY <1>2, EmittedFacts
<1>5. \A x \in DOMAIN blocks : more[x].fn = blocks[x].fn
  BY <1>4 DEF Extends
<1>6. CodeFits(more, code)
  BY <1>4, ValuesKept
<1>7. BlocksInv(more, Len(functions))
  BY <1>2, <1>6, EmittedFits
<1> HIDE DEF more
<1>8. more = <<>> <=> blocks = <<>>
  <2>1. IsSeq(blocks)
    BY <1>2 DEF BlocksInv
  <2> QED
    BY <1>3, <2>1, EmptySeq, SeqFacts DEF IsSeq
<1>9. Place(functions, more, insertBlock)
  <2>1. insertBlock # 0 => insertBlock \in DOMAIN blocks
    BY PlaceFacts
  <2> QED
    BY <1>3, <1>5, <1>7, <1>8, <2>1 DEF Place
<1> QED
  BY <1>1, <1>4, <1>8, <1>9 DEF more

\* The topmost values are used up, and a result is left.
LEMMA ResultPut ==
  ASSUME Running, NEW count \in 0 .. Len(values), NEW built, Fitting(built),
         Use(count, built.value), Emit(built.code)
  PROVE  /\ Place(functions, blocks', insertBlock) /\ Extends(blocks, blocks')
         /\ ValuesInv(blocks', values') /\ Len(values') = Len(values) - count + 1
         /\ \A k \in DOMAIN values' : \/ values'[k] = built.value
                                      \/ k \in DOMAIN values /\ values'[k] = values[k]
<1> DEFINE kept == SubSeq(values, 1, Len(values) - count)
           c == Len(values)
<1>1. /\ IsSeq(built.code) /\ CodeFits(blocks, built.code)
      /\ built.code # <<>> => insertBlock \in DOMAIN blocks
      /\ IsValue(built.value, Emitted(blocks, insertBlock, built.code))
      /\ blocks = <<>> => built.value.is \in {"constant", "null"}
  BY DEF Fitting
<1>2. values' = Append(kept, built.value) /\ Emit(built.code)
  BY DEF Use
<1>3. Place(functions, blocks, insertBlock) /\ ValuesInv(blocks, values)
  BY DEF Running, CodeInv
<1>4. /\ Place(functions, blocks', insertBlock)
      /\ blocks' = Emitted(blocks, insertBlock, built.code)
      /\ Extends(blocks, blocks')
      /\ blocks' = <<>> <=> blocks = <<>>
  BY <1>1, <1>2, <1>3, EmitFits
<1>5. c \in Nat /\ c - count \in 0 .. c /\ c - count \in Nat
  BY AtJob
<1>6. /\ ValuesInv(blocks, kept) /\ Len(kept) = c - count
      /\ \A k \in DOMAIN kept : k \in DOMAIN values /\ kept[k] = values[k]
  <2> DEFINE number == c - count
  <2>1. number \in 0 .. Len(values) /\ kept = SubSeq(values, 1, number)
    BY <1>5
  <2> HIDE DEF number, kept
  <2>2. ValuesInv(blocks, kept)
    BY <1>3, <2>1, ValuesDropped
  <2>3. Len(kept) = number
    BY <1>3, <2>1, ValuesDropped
  <2>4. \A k \in DOMAIN kept : k \in DOMAIN values /\ kept[k] = values[k]
    BY <1>3, <2>1, ValuesDropped
  <2> QED
    BY <2>2, <2>3, <2>4 DEF number
<1> HIDE DEF kept
<1>7. ValuesInv(blocks', kept)
  BY <1>4, <1>6, ValuesStay
<1>8. /\ ValuesInv(blocks', values') /\ Len(values') = Len(kept) + 1
      /\ \A k \in DOMAIN values' : \/ values'[k] = built.value
                                   \/ k \in DOMAIN kept /\ values'[k] = kept[k]
  <2>1. IsValue(built.value, blocks')
    BY <1>1, <1>4
  <2>2. blocks' = <<>> => built.value.is \in {"constant", "null"}
    BY <1>1, <1>4
  <2>3. ValuesInv(blocks', values')
    BY <1>2, <1>7, <2>1, <2>2, ValuesPut
  <2>4. Len(values') = Len(kept) + 1
    BY <1>2, <1>7, <2>1, <2>2, ValuesPut
  <2>5. \A k \in DOMAIN values' : \/ values'[k] = built.value
                                  \/ k \in DOMAIN kept /\ values'[k] = kept[k]
    BY <1>2, <1>7, <2>1, <2>2, ValuesPut
  <2> QED
    BY <2>3, <2>4, <2>5
<1> QED
  BY <1>4, <1>5, <1>6, <1>8

Uses(count) == Gain(tree, job) = 1 - count

LEMMA Yields ==
  ASSUME Running, tree' = tree,
         NEW count \in 0 .. Len(values), NEW built, Fitting(built),
         Yield(count, built), Uses(count),
         LeavesResult(tree, job) \/ (Operand(built.value) /\ ~TakesResult(job))
  PROVE  CodeInv'
<1>1. /\ Use(count, built.value) /\ Emit(built.code)
      /\ Then(<<>>) /\ UNCHANGED <<functions, insertBlock, allocated>>
  BY DEF Yield
<1>2. allocated \in [DOMAIN tree -> 0 .. Len(functions)]
  BY DEF Running, CodeInv
<1>3. Place(functions, blocks', insertBlock) /\ Extends(blocks, blocks')
  BY <1>1, ResultPut
<1>4. ValuesInv(blocks', values') /\ Len(values') = Len(values) - count + 1
  BY <1>1, ResultPut
<1>5. \A k \in DOMAIN values' : \/ values'[k] = built.value
                                \/ k \in DOMAIN values /\ values'[k] = values[k]
  BY <1>1, ResultPut
<1>6. Len(values') = Len(values) + Gain(tree, job)
  <2>1. Len(values) \in Nat /\ count \in Nat
    BY AtJob
  <2> QED
    BY <1>4, <2>1 DEF Uses
<1>7. \A k \in DOMAIN todo : k > 1 => JobFits(tree, functions', blocks', todo[k])
  BY <1>1, <1>3, JobsStay
<1>8. (\A k \in DOMAIN values' : Operand(values'[k])) \/ LeavesResult(tree, job)
  BY <1>5, AtJob
<1>9. /\ Place(functions', blocks', insertBlock')
      /\ allocated' \in [DOMAIN tree -> 0 .. Len(functions')]
  BY <1>1, <1>2, <1>3
<1> QED
  BY <1>1, <1>4, <1>6, <1>7, <1>8, <1>9, Returns

\* What an action finds.
LEMMA Doing ==
  ASSUME TypeOK, Generable, CodeInv, NEW what, Do(what)
  PROVE  Running /\ tree' = tree /\ job.do = what /\ outcome = "running"
BY DEF Do, Running, vars

LEMMA Here ==
  ASSUME Running
  PROVE  /\ here = tree[job.node] /\ here \in TreeNode
         /\ here.kids \in Seq(Nat) /\ Len(here.kids) \in Nat
         /\ DOMAIN here.kids = 1 .. Len(here.kids)
         /\ CanBeGenerated(tree, job.node)
         /\ \A k \in DOMAIN here.kids :
              kid(k) \in DOMAIN tree /\ kid(k) > 1 /\ tree[kid(k)].kind # "Root"
<1>1. job.node \in DOMAIN tree /\ tree \in Seq(TreeNode) /\ WellFormed(tree)
  BY AtJob DEF Running, TypeOK, WellFormed
<1>2. here \in TreeNode
  BY <1>1, ElementOfSeq, LenProperties DEF here
<1>3. /\ here.kids \in Seq(Nat) /\ Len(here.kids) \in Nat
      /\ DOMAIN here.kids = 1 .. Len(here.kids)
  BY <1>2, LenProperties DEF TreeNode
<1>4. ASSUME NEW k \in DOMAIN here.kids
      PROVE  kid(k) \in DOMAIN tree /\ kid(k) > 1 /\ tree[kid(k)].kind # "Root"
  <2>1. /\ DOMAIN tree = 1 .. Len(tree) /\ Len(tree) \in Nat
        /\ tree[job.node].kids[k] \in job.node + 1 .. Len(tree)
    BY <1>1, <1>4, LenProperties DEF WellFormed, here
  <2>2. kid(k) \in 1 .. Len(tree) /\ kid(k) > 1
    BY <1>1, <2>1 DEF kid, here
  <2> QED
    BY <1>1, <2>1, <2>2 DEF WellFormed
<1>5. CanBeGenerated(tree, job.node)
  BY <1>1 DEF Running, Generable
<1> QED
  BY <1>1, <1>2, <1>3, <1>4, <1>5 DEF here

\* The topmost value of a step that uses one.
LEMMA TopFits ==
  ASSUME Running, Len(values) > 0
  PROVE  /\ IsValue(top, blocks)
         /\ Len(values) \in DOMAIN values
         /\ blocks = <<>> => top.is \in {"constant", "null"}
         /\ ~TakesResult(job) => Operand(top) /\ top.type \in ValueTypes
<1>1. Len(values) \in Nat /\ DOMAIN values = 1 .. Len(values)
  BY AtJob
<1>2. Len(values) \in DOMAIN values
  BY <1>1
<1>3. ValuesInv(blocks, values)
  BY DEF Running, CodeInv
<1>4. /\ IsValue(top, blocks)
      /\ blocks = <<>> => top.is \in {"constant", "null"}
  BY <1>2, <1>3 DEF ValuesInv, top
<1>5. ASSUME ~TakesResult(job) PROVE Operand(top)
  BY <1>2, <1>5, AtJob DEF top
<1> QED
  BY <1>2, <1>4, <1>5 DEF Operand, IsValue

LEMMA LiteralKeeps ==
  ASSUME TypeOK, Generable, CodeInv, GenerateLiteral
  PROVE  CodeInv'
<1> DEFINE v == IF here.kind = "FloatExpr" THEN Constant("f32", Unknown)
                ELSE Constant("i32", here.value % PowerOf2[ValueBits])
           built == [code |-> <<>>, value |-> v]
<1>1. /\ Running /\ tree' = tree /\ job.do = "generate"
      /\ here.kind \in {"FloatExpr", "IntegerExpr", "BoolExpr"}
      /\ Yield(0, built)
  BY Doing DEF GenerateLiteral, Generate
<1>2. v.is = "constant" /\ IsValue(v, blocks) /\ Operand(v)
  BY ConstantFits DEF ValueTypes
<1> HIDE DEF v
<1>3. Fitting(built)
  BY <1>2, NoCodeFits
<1>4. Uses(0) /\ ~TakesResult(job)
  BY <1>1 DEF Uses, Gain, TakesResult, Jumps, here
<1>5. 0 \in 0 .. Len(values)
  BY <1>1, AtJob
<1> QED
  BY <1>1, <1>2, <1>3, <1>4, <1>5, Yields

\* The insertion point as a value.
LEMMA InsertBlockFits ==
  ASSUME Running
  PROVE  Fitting(GetInsertBlock)
<1>1. Place(functions, blocks, insertBlock)
  BY DEF Running, CodeInv
<1>2. insertBlock # 0 => insertBlock \in DOMAIN blocks /\ blocks # <<>>
  BY <1>1, PlaceFacts
<1>3. /\ IsValue(GetInsertBlock.value, blocks)
      /\ blocks = <<>> => GetInsertBlock.value.is \in {"constant", "null"}
  BY <1>2 DEF GetInsertBlock, IsValue, Label, Null
<1>4. GetInsertBlock.code = <<>>
  BY DEF GetInsertBlock
<1> QED
  BY <1>3, <1>4, NoCodeFits

LEMMA EmptyKeeps ==
  ASSUME TypeOK, Generable, CodeInv, GenerateEmpty
  PROVE  CodeInv'
<1>1. /\ Running /\ tree' = tree /\ job.do = "generate"
      /\ here.kind = "Empty" /\ Yield(0, GetInsertBlock)
  BY Doing DEF GenerateEmpty, Generate
<1>2. Uses(0) /\ LeavesResult(tree, job)
  BY <1>1 DEF Uses, Gain, LeavesResult, Proper, here
<1>3. 0 \in 0 .. Len(values)
  BY <1>1, AtJob
<1> QED
  BY <1>1, <1>2, <1>3, InsertBlockFits, Yields

LEMMA EndBlockKeeps ==
  ASSUME TypeOK, Generable, CodeInv, EndBlock
  PROVE  CodeInv'
<1>1. Running /\ tree' = tree /\ job.do = "Block" /\ Yield(0, GetInsertBlock)
  BY Doing DEF EndBlock
<1>2. Uses(0) /\ LeavesResult(tree, job)
  BY <1>1 DEF Uses, Gain, LeavesResult
<1>3. 0 \in 0 .. Len(values)
  BY <1>1, AtJob
<1> QED
  BY <1>1, <1>2, <1>3, InsertBlockFits, Yields

LEMMA LLVMTypes ==
  ASSUME NEW name
  PROVE  toLLVMType(name) \in {"i32", "f32"} /\ toLLVMType(name) \in ValueTypes
BY DEF toLLVMType, ValueTypes

\* A variable is allocated only once a function has been begun.
LEMMA VarExprKeeps ==
  ASSUME TypeOK, Generable, SymbolsPlaced, CodeInv, GenerateVarExpr
  PROVE  CodeInv'
<1> DEFINE d == symbolThere.declaredAt
           type == toLLVMType(tree[d].typeName)
           built == Insert(Instruction("load", type, <<>>, <<d>>))
<1>1. /\ Running /\ tree' = tree /\ job.do = "generate" /\ here.kind = "VarExpr"
      /\ symbolThere # NoSymbol /\ allocated[d] # 0
      /\ Yield(0, built)
  BY Doing DEF GenerateVarExpr, Generate
<1>2. d \in DOMAIN tree
  BY <1>1, AtJob DEF SymbolsPlaced, Placed, symbolThere
<1>3. /\ Place(functions, blocks, insertBlock)
      /\ allocated \in [DOMAIN tree -> 0 .. Len(functions)]
  BY DEF CodeInv
<1>4. insertBlock # 0
  <2>1. allocated[d] \in 0 .. Len(functions) /\ Len(functions) \in Nat
    BY <1>2, <1>3, PlaceFacts
  <2>2. functions # <<>>
    BY <1>1, <2>1
  <2> QED
    BY <1>3, <2>2 DEF Place
<1>5. Fitting(built) /\ Operand(built.value)
  <2>1. type \in ValueTypes
    BY LLVMTypes
  <2>2. \A k \in DOMAIN <<>> : IsValue(<<>>[k], blocks)
    OBVIOUS
  <2> HIDE DEF type
  <2>3. Fitting(built)
    BY <1>3, <1>4, <2>1, <2>2, InsertFits
  <2>4. Operand(built.value)
    BY <1>3, <1>4, <2>1, <2>2, InsertFits
  <2> QED
    BY <2>3, <2>4
<1> HIDE DEF built
<1>6. Uses(0) /\ ~TakesResult(job)
  BY <1>1 DEF Uses, Gain, TakesResult, Jumps, here
<1>7. 0 \in 0 .. Len(values)
  BY <1>1, AtJob
<1> QED
  BY <1>1, <1>5, <1>6, <1>7, Yields

\* The operands of a combination are the two topmost values.
LEMMA CombineKeeps ==
  ASSUME TypeOK, Generable, CodeInv, Combine
  PROVE  CodeInv'
<1> DEFINE built == Build(operator, top.type, operands[1], operands[2])
<1>1. /\ Running /\ tree' = tree /\ job.do = "combine" /\ sameIntegers
      /\ Yield(2, built)
  BY Doing DEF Combine
<1>2. Len(values) > 1 /\ ~TakesResult(job) /\ Uses(2)
  BY <1>1, AtJob DEF DepthFits, TakesResult, Jumps, Uses, Gain
<1>3. 2 \in 0 .. Len(values) /\ Len(values) > 0
  BY <1>1, <1>2, AtJob
<1>4. IsValue(top, blocks) /\ Operand(top) /\ top.type \in ValueTypes
      /\ (blocks = <<>> => top.is = "constant")
  BY <1>1, <1>2, <1>3, TopFits DEF Operand
<1>5. IsValue(left, blocks) /\ (blocks = <<>> => left.is = "constant")
  <2> DEFINE c == Len(values)
             k == c - 1
  <2>1. k \in DOMAIN values
    BY <1>1, <1>2, AtJob
  <2> HIDE DEF k, c
  <2>2. /\ IsValue(values[k], blocks) /\ Operand(values[k])
        /\ blocks = <<>> => values[k].is \in {"constant", "null"}
    BY <1>1, <1>2, <2>1, AtJob DEF Running, CodeInv, ValuesInv
  <2> QED
    BY <2>2 DEF left, k, c, Operand
<1>6. operands[1] = left /\ operands[2] = top
  BY DEF operands
<1>7. Place(functions, blocks, insertBlock)
  BY DEF CodeInv
<1>8. Fitting(built) /\ Operand(built.value)
  <2>1. built = Build(operator, top.type, left, top)
    BY <1>6
  <2> HIDE DEF built
  <2>2. Fitting(built)
    BY <1>4, <1>5, <1>7, <2>1, BuildFits
  <2>3. Operand(built.value)
    BY <1>4, <1>5, <1>7, <2>1, BuildFits
  <2> QED
    BY <2>2, <2>3
<1> HIDE DEF built
<1> QED
  BY <1>1, <1>2, <1>3, <1>8, Yields

LEMMA MinusKeeps ==
  ASSUME TypeOK, Generable, CodeInv, Minus
  PROVE  CodeInv'
<1> DEFINE one == MinusOne(top.type)
           built == Build("MUL", top.type, top, one)
<1>1. /\ Running /\ tree' = tree /\ job.do = "MINUS" /\ Yield(1, built)
  BY Doing DEF Minus
<1>2. Len(values) > 0 /\ ~TakesResult(job) /\ Uses(1)
  BY <1>1, AtJob DEF DepthFits, TakesResult, Jumps, Uses, Gain
<1>3. 1 \in 0 .. Len(values)
  BY <1>1, <1>2, AtJob
<1>4. /\ IsValue(top, blocks) /\ top.type \in ValueTypes
      /\ blocks = <<>> => top.is = "constant"
  BY <1>1, <1>2, TopFits DEF Operand
<1>5. IsValue(one, blocks) /\ one.is = "constant"
  BY <1>4, ConstantFits DEF MinusOne
<1>6. Place(functions, blocks, insertBlock)
  BY DEF CodeInv
<1>7. Fitting(built) /\ Operand(built.value)
  <2> HIDE DEF one
  <2>1. built = Build("MUL", top.type, top, one)
    OBVIOUS
  <2> HIDE DEF built
  <2>2. Fitting(built)
    BY <1>4, <1>5, <1>6, <2>1, BuildFits
  <2>3. Operand(built.value)
    BY <1>4, <1>5, <1>6, <2>1, BuildFits
  <2> QED
    BY <2>2, <2>3
<1> HIDE DEF built
<1> QED
  BY <1>1, <1>2, <1>3, <1>7, Yields

\* A call takes as many values as there are arguments.
LEMMA CallKeeps ==
  ASSUME TypeOK, Generable, CodeInv, CreateCall
  PROVE  CodeInv'
<1> DEFINE count == Len(here.kids)
           type == functions[callee].type
           built == Insert(Instruction("call", type, arguments, <<callee>>))
<1>1. /\ Running /\ tree' = tree /\ job.do = "call" /\ Yield(count, built)
  BY Doing DEF CreateCall
<1>2. Len(values) >= count /\ ~TakesResult(job) /\ Uses(count)
  BY <1>1, AtJob DEF DepthFits, TakesResult, Jumps, Uses, Gain, here
<1>3. count \in 0 .. Len(values) /\ count \in Nat /\ Len(values) \in Nat
  BY <1>1, <1>2, AtJob, Here
<1>4. Place(functions, blocks, insertBlock) /\ ValuesInv(blocks, values)
  BY DEF CodeInv
<1>5. callee \in DOMAIN functions
  <2>1. named(here.name) # {}
    BY <1>1, AtJob DEF JobFits, named, here
  <2> QED
    BY <2>1 DEF callee, named
<1>6. type \in ValueTypes /\ insertBlock # 0
  <2>1. functions \in FunctionList /\ functions # <<>>
    BY <1>4, <1>5, EmptySeq DEF Place
  <2>2. functions[callee].type \in {"i32", "f32"}
    <3> DEFINE F == [name : Names, params : Seq({"i32", "f32"}), type : {"i32", "f32"}]
    <3>1. \A f \in F : f.type \in {"i32", "f32"}
      OBVIOUS
    <3>2. functions \in Seq(F)
      BY <2>1 DEF FunctionList
    <3> HIDE DEF F
    <3>3. functions[callee] \in F
      BY <1>5, <3>2, ElementOfSeq, LenProperties
    <3> QED
      BY <3>1, <3>3
  <2> QED
    BY <1>4, <2>1, <2>2 DEF Place, ValueTypes
<1>7. \A k \in DOMAIN arguments : IsValue(arguments[k], blocks)
  <2> DEFINE R == {values[k] : k \in DOMAIN values}
             last == Len(values)
             first == last - count + 1
  <2>1. values \in Seq(R)
    BY <1>4 DEF ValuesInv, IsSeq
  <2>2. \A v \in R : IsValue(v, blocks)
    BY <1>4 DEF ValuesInv
  <2>3. /\ first \in Int /\ last \in Int
        /\ \A k \in first .. last : k \in DOMAIN values
    BY <1>1, <1>3, AtJob
  <2>4. \A k \in first .. last : values[k] \in R
    BY <2>3
  <2>5. arguments = SubSeq(values, first, last)
    BY DEF arguments
  <2> HIDE DEF R, first, last, count
  <2>6. SubSeq(values, first, last) \in Seq(R)
    BY <2>3, <2>4, SubSeqProperties
  <2>7. arguments \in Seq(R)
    BY <2>5, <2>6
  <2> QED
    BY <2>2, <2>7, ElementOfSeq, LenProperties
<1>8. Fitting(built) /\ Operand(built.value)
  <2> HIDE DEF type
  <2>1. built = Insert(Instruction("call", type, arguments, <<callee>>))
    OBVIOUS
  <2> HIDE DEF built
  <2>2. Fitting(built)
    BY <1>4, <1>6, <1>7, <2>1, InsertFits
  <2>3. Operand(built.value)
    BY <1>4, <1>6, <1>7, <2>1, InsertFits
  <2> QED
    BY <2>2, <2>3
<1> HIDE DEF built, count
<1> QED
  BY <1>1, <1>2, <1>3, <1>8, Yields

\* A value that stays the result, after an instruction that uses it.
LEMMA UseFits ==
  ASSUME Place(functions, blocks, insertBlock), insertBlock # 0,
         NEW v, IsValue(v, blocks), NEW instruction, instruction.args = <<v>>,
         NEW built, built = [value |-> v, code |-> <<instruction>>]
  PROVE  Fitting(built)
<1> DEFINE code == <<instruction>>
<1>1. insertBlock \in DOMAIN blocks /\ blocks # <<>> /\ BlocksInv(blocks, Len(functions))
  BY PlaceFacts
<1>2. IsSeq(code)
  <2>1. code \in Seq({instruction})
    OBVIOUS
  <2> QED
    BY <2>1, IsSeqOf
<1>3. CodeFits(blocks, code)
  <2>1. \A i \in DOMAIN code : code[i] = instruction
    OBVIOUS
  <2>2. \A k \in DOMAIN instruction.args : instruction.args[k] = v
    OBVIOUS
  <2> HIDE DEF code
  <2> QED
    BY <2>1, <2>2 DEF CodeFits
<1> HIDE DEF code
<1>4. IsValue(v, Emitted(blocks, insertBlock, code))
  <2> DEFINE more == Emitted(blocks, insertBlock, code)
  <2>1. more = Emitted(blocks, insertBlock, code)
    OBVIOUS
  <2> HIDE DEF more
  <2>2. Extends(blocks, more)
    BY <1>1, <1>2, <2>1, EmittedFacts
  <2>3. IsValue(v, more)
    BY <2>2, ValueKept
  <2> QED
    BY <2>1, <2>3
<1> QED
  BY <1>1, <1>2, <1>3, <1>4 DEF Fitting, code

LEMMA ResultUsed ==
  ASSUME TypeOK, Generable, CodeInv, Running, tree' = tree,
         job.do \in {"AssignSt", "ReturnSt"}, NEW instruction, instruction.args = <<top>>,
         Yield(1, [value |-> top, code |-> <<instruction>>])
  PROVE  CodeInv'
<1> DEFINE built == [value |-> top, code |-> <<instruction>>]
<1>1. Len(values) = 1 /\ LeavesResult(tree, job) /\ Uses(1)
  BY AtJob DEF DepthFits, LeavesResult, Uses, Gain
<1>2. 1 \in 0 .. Len(values) /\ Len(values) > 0
  BY <1>1
<1>3. IsValue(top, blocks)
  BY <1>2, TopFits
<1>4. Place(functions, blocks, insertBlock)
  BY DEF CodeInv
<1>5. insertBlock # 0
  BY <1>4, AtJob DEF JobFits, Early, Place
<1>6. Fitting(built)
  BY <1>3, <1>4, <1>5, UseFits
<1>7. Yield(1, built)
  OBVIOUS
<1> HIDE DEF built
<1> QED
  BY <1>1, <1>2, <1>6, <1>7, Yields

LEMMA StoreKeeps ==
  ASSUME TypeOK, Generable, CodeInv, CreateStore
  PROVE  CodeInv'
<1> DEFINE instruction == store(top, symbolThere.declaredAt)
<1>1. /\ Running /\ tree' = tree /\ job.do = "AssignSt"
      /\ Yield(1, [value |-> top, code |-> <<instruction>>])
  BY Doing DEF CreateStore
<1>2. instruction.args = <<top>>
  BY DEF store, Instruction
<1> HIDE DEF instruction
<1> QED
  BY <1>1, <1>2, ResultUsed

LEMMA RetKeeps ==
  ASSUME TypeOK, Generable, CodeInv, CreateRet
  PROVE  CodeInv'
<1> DEFINE instruction == Instruction("ret", top.type, <<top>>, <<>>)
<1>1. /\ Running /\ tree' = tree /\ job.do = "ReturnSt"
      /\ Yield(1, [value |-> top, code |-> <<instruction>>])
  BY Doing DEF CreateRet
<1>2. instruction.args = <<top>>
  BY DEF Instruction
<1> HIDE DEF instruction
<1> QED
  BY <1>1, <1>2, ResultUsed

-----------------------------------------------------------------------------
(* Steps that give way to others.                                            *)

\* What can take the place of a step that is no root.
Plain(j) ==
  /\ j \in Jobs(tree)
  /\ ~IsRoot(tree, j) /\ ~IsOf(tree, j, {"FnDef"})
  /\ JobFits(tree, functions, blocks, j)

LEMMA Begins ==
  ASSUME Running, tree' = tree, job.do = "generate", NEW js, IsSeq(js), js # <<>>,
         \A k \in DOMAIN js : Plain(js[k]),
         \A k \in DOMAIN js : LeavesResult(tree, js[k]) =>
           IF k = Len(js) THEN LeavesResult(tree, job) ELSE TakesResult(js[k + 1]),
         NEW e, Depths(tree, js, e, Len(values)),
         Balanced(tree, js, e, job, Len(values)),
         Then(js), UNCHANGED <<values, generated>>
  PROVE  CodeInv'
<1>1. js \in Seq(Jobs(tree))
  BY SeqOf DEF Plain
<1>2. Replaces(tree, js, job)
  BY DEF Replaces, Plain
<1>3. UNCHANGED <<values, functions, blocks, insertBlock, allocated>>
  BY DEF generated
<1>4. /\ Place(functions, blocks, insertBlock) /\ ValuesInv(blocks, values)
      /\ allocated \in [DOMAIN tree -> 0 .. Len(functions)]
  BY DEF Running, CodeInv
<1>5. /\ Place(functions', blocks', insertBlock') /\ ValuesInv(blocks', values')
      /\ allocated' \in [DOMAIN tree -> 0 .. Len(functions')]
  BY <1>3, <1>4
<1>6. \A k \in DOMAIN js : JobFits(tree, functions', blocks', js[k])
  BY <1>3 DEF Plain
<1>7. \A k \in DOMAIN todo : k > 1 => JobFits(tree, functions', blocks', todo[k])
  BY <1>3 DEF Running, CodeInv, Generating, TodoInv
<1>8. (\A k \in DOMAIN values' : Operand(values'[k])) \/ TakesResult(js[1])
  BY <1>3, AtJob DEF TakesResult, Jumps
<1>9. Depths(tree, js, e, Len(values'))
  BY <1>3
<1> QED
  BY <1>1, <1>2, <1>5, <1>6, <1>7, <1>8, <1>9, GoesOnWith

\* An operand is generated on top of whatever waits.
LEMMA OperandStep ==
  ASSUME Running, NEW m \in DOMAIN tree, tree[m].kind \in Proper, NEW j, j = codegen(m)
  PROVE  /\ Plain(j) /\ ~LeavesResult(tree, j) /\ ~TakesResult(j) /\ Gain(tree, j) = 1
         /\ \A d : DepthFits(tree, j, d)
<1>1. j.do = "generate" /\ j.node = m /\ j \in Jobs(tree)
  BY DEF codegen, Jobs
<1>2. tree[m].kind \in ExpressionKinds /\ tree[m].kind # "Empty"
  BY DEF Proper
<1>3. tree[m].kind \notin {"Root", "FnDef"}
  BY <1>2 DEF ExpressionKinds, Literals, Operations
<1>4. Plain(j)
  BY <1>1, <1>2, <1>3 DEF Plain, IsRoot, IsOf, JobFits, About, Early, Jumps
<1>5. ~LeavesResult(tree, j) /\ ~TakesResult(j) /\ Gain(tree, j) = 1
  BY <1>1, <1>3 DEF LeavesResult, TakesResult, Jumps, Gain
<1>6. \A d : DepthFits(tree, j, d)
  BY <1>1 DEF DepthFits, Jumps
<1> QED
  BY <1>4, <1>5, <1>6

\* A statement, or a part that may be absent, where no value waits.
LEMMA StatementStep ==
  ASSUME Running, NEW m \in DOMAIN tree, tree[m].kind # "Root", tree[m].kind # "FnDef",
         functions # <<>> \/ tree[m].kind \in ExpressionKinds \cup {"VarDecl"},
         NEW j, j = codegen(m)
  PROVE  /\ Plain(j) /\ ~TakesResult(j) /\ Gain(tree, j) = 1 /\ DepthFits(tree, j, 0)
<1>1. j.do = "generate" /\ j.node = m /\ j \in Jobs(tree)
  BY DEF codegen, Jobs
<1>2. Plain(j)
  BY <1>1 DEF Plain, IsRoot, IsOf, JobFits, About, Early, Jumps
<1>3. ~TakesResult(j) /\ Gain(tree, j) = 1 /\ DepthFits(tree, j, 0)
  BY <1>1 DEF TakesResult, Jumps, Gain, DepthFits
<1> QED
  BY <1>2, <1>3

LEMMA OperatorStep ==
  ASSUME Running, NEW what \in {"combine", "NOT", "MINUS"}, NEW j, j = Step(what),
         IF what = "combine" THEN here.kind \in Chains ELSE here.kind = "PrefixExpr"
  PROVE  /\ Plain(j) /\ ~LeavesResult(tree, j) /\ ~TakesResult(j)
         /\ Gain(tree, j) = (IF what = "combine" THEN -1 ELSE 0)
         /\ \A d \in Nat : (IF what = "combine" THEN d > 1 ELSE d > 0) =>
                             DepthFits(tree, j, d)
<1>1. j.do = what /\ j.node = job.node /\ j \in Jobs(tree)
  BY AtJob DEF Step, Jobs, Steps
<1>2. Plain(j)
  BY <1>1 DEF Plain, IsRoot, IsOf, JobFits, About, Early, Jumps, here
<1>3. /\ ~LeavesResult(tree, j) /\ ~TakesResult(j)
      /\ Gain(tree, j) = (IF what = "combine" THEN -1 ELSE 0)
  BY <1>1 DEF LeavesResult, TakesResult, Jumps, Gain
<1>4. \A d \in Nat : (IF what = "combine" THEN d > 1 ELSE d > 0) =>
                       DepthFits(tree, j, d)
  BY <1>1 DEF DepthFits, Jumps
<1> QED
  BY <1>2, <1>3, <1>4

LEMMA OneBefore ==
  ASSUME NEW x, NEW rest, IsSeq(rest), NEW js, js = <<x>> \o rest
  PROVE  /\ IsSeq(js) /\ Len(js) = 1 + Len(rest) /\ DOMAIN js = 1 .. 1 + Len(rest)
         /\ \A k \in DOMAIN js : js[k] = IF k <= 1 THEN x ELSE rest[k - 1]
<1> DEFINE one == <<x>>
<1>1. IsSeq(one)
  <2>1. one \in Seq({x})
    OBVIOUS
  <2> QED
    BY <2>1, IsSeqOf
<1>2. Len(one) = 1 /\ one[1] = x
  OBVIOUS
<1>3. js = one \o rest
  OBVIOUS
<1> HIDE DEF one
<1>4. /\ IsSeq(js) /\ Len(js) = Len(one) + Len(rest)
      /\ DOMAIN js = 1 .. Len(one) + Len(rest)
  BY <1>1, <1>3, Concatenated
<1>5. \A k \in DOMAIN js : js[k] = IF k <= Len(one) THEN one[k] ELSE rest[k - Len(one)]
  BY <1>1, <1>3, Concatenated
<1>6. \A k \in 1 .. 1 + Len(rest) : k <= 1 => k = 1
  BY SeqFacts
<1> QED
  BY <1>2, <1>4, <1>5, <1>6

\* One operand, then each other one and a combination.
LEMMA ChainKeeps ==
  ASSUME TypeOK, Generable, CodeInv, GenerateChain
  PROVE  CodeInv'
<1> DEFINE number == Len(here.kids)
           more == 2 * (number - 1)
           rest == [k \in 1 .. more |->
                      IF k % 2 = 1 THEN codegen(kid((k + 3) \div 2))
                      ELSE Step("combine")]
           js == <<codegen(kid(1))>> \o rest
           c == Len(values)
           whole == 1 + more
           e == [k \in 1 .. whole |-> IF k = 1 THEN c ELSE IF k % 2 = 0 THEN c + 1 ELSE c + 2]
           IsOperand(k) == k = 1 \/ k % 2 = 0
<1>1. /\ Running /\ tree' = tree /\ job.do = "generate" /\ here.kind \in Chains
      /\ Then(js) /\ UNCHANGED <<values, generated>>
  BY Doing DEF GenerateChain, Generate
<1>2. /\ number \in Nat /\ number > 1 /\ c \in Nat
      /\ \A i \in 1 .. number : kid(i) \in DOMAIN tree /\ tree[kid(i)].kind \in Proper
  BY <1>1, Here, AtJob DEF CanBeGenerated, here, kid
<1>3. /\ more \in Nat /\ more > 1 /\ whole \in Nat
      /\ \A k \in 1 .. more : k % 2 = 1 => (k + 3) \div 2 \in 1 .. number
      /\ 1 \in 1 .. number
  <2> HIDE DEF number
  <2> QED
    BY <1>2
<1>4. IsSeq(rest) /\ Len(rest) = more
  <2>1. DOMAIN rest = 1 .. more /\ rest = [k \in 1 .. more |-> rest[k]]
    OBVIOUS
  <2> HIDE DEF rest, more
  <2> QED
    BY <1>3, <2>1, SeqFromFunction
<1>5. IsSeq(js) /\ Len(js) = whole /\ DOMAIN js = 1 .. whole
      /\ \A k \in 1 .. whole : js[k] = IF k <= 1 THEN codegen(kid(1)) ELSE rest[k - 1]
  <2> DEFINE x == codegen(kid(1))
  <2>1. IsSeq(rest) /\ js = <<x>> \o rest
    BY <1>4
  <2> HIDE DEF x, rest, js, more
  <2>2. IsSeq(js) /\ Len(js) = 1 + Len(rest) /\ DOMAIN js = 1 .. 1 + Len(rest)
    BY <2>1, OneBefore
  <2>3. \A k \in DOMAIN js : js[k] = IF k <= 1 THEN x ELSE rest[k - 1]
    BY <2>1, OneBefore
  <2> QED
    BY <1>4, <2>2, <2>3 DEF x
<1>6. ASSUME NEW k \in 1 .. whole
      PROVE  IF IsOperand(k) THEN \E m \in DOMAIN tree : tree[m].kind \in Proper /\ js[k] = codegen(m)
             ELSE js[k] = Step("combine")
  <2>1. CASE k = 1
    BY <1>2, <1>3, <1>5, <2>1
  <2>2. CASE k # 1
    <3> DEFINE i == k - 1
    <3>1. i \in 1 .. more /\ (i % 2 = 1 <=> k % 2 = 0) /\ ~(k <= 1)
      <4> HIDE DEF more
      <4> QED
        BY <1>3, <2>2
    <3>2. js[k] = rest[i]
      BY <1>5, <3>1
    <3>3. rest[i] = IF i % 2 = 1 THEN codegen(kid((i + 3) \div 2)) ELSE Step("combine")
      BY <3>1
    <3> HIDE DEF i, js, rest
    <3>4. CASE i % 2 = 1
      <4>1. js[k] = codegen(kid((i + 3) \div 2))
        BY <3>2, <3>3, <3>4
      <4>2. (i + 3) \div 2 \in 1 .. number
        BY <1>3, <3>1, <3>4
      <4> QED
        BY <1>2, <3>1, <3>4, <4>1, <4>2
    <3>5. CASE i % 2 # 1
      BY <2>2, <3>1, <3>2, <3>3, <3>5
    <3> QED
      BY <3>4, <3>5
  <2> QED
    BY <2>1, <2>2
<1> HIDE DEF js, rest
<1>7. ASSUME NEW k \in 1 .. whole
      PROVE  /\ Plain(js[k]) /\ ~LeavesResult(tree, js[k])
             /\ Gain(tree, js[k]) = IF IsOperand(k) THEN 1 ELSE -1
             /\ \A d \in Nat : d > 1 \/ IsOperand(k) => DepthFits(tree, js[k], d)
  <2>1. CASE IsOperand(k)
    <3>1. PICK m \in DOMAIN tree : tree[m].kind \in Proper /\ js[k] = codegen(m)
      BY <1>6, <2>1
    <3> QED
      BY <1>1, <2>1, <3>1, OperandStep
  <2>2. CASE ~IsOperand(k)
    <3>1. js[k] = Step("combine")
      BY <1>6, <2>2
    <3> QED
      BY <1>1, <2>2, <3>1, OperatorStep
  <2> QED
    BY <2>1, <2>2
<1>8. Depths(tree, js, e, c)
  <2> HIDE DEF c, more
  <2>1. e \in [DOMAIN js -> Nat] /\ e[1] = c
    BY <1>2, <1>3, <1>5
  <2>2. ASSUME NEW k \in 1 .. whole PROVE DepthFits(tree, js[k], e[k])
    BY <1>2, <1>7
  <2>3. ASSUME NEW k \in 1 .. whole, k + 1 \in 1 .. whole
        PROVE  e[k + 1] = e[k] + Gain(tree, js[k])
    <3>1. /\ k = 1 => (k + 1) % 2 = 0
          /\ k % 2 = 0 => (k + 1) % 2 = 1
          /\ k % 2 # 0 => (k + 1) % 2 = 0
          /\ k + 1 # 1
      BY <1>3
    <3> QED
      BY <1>2, <1>7, <2>3, <3>1
  <2> HIDE DEF e
  <2> QED
    BY <1>5, <2>1, <2>2, <2>3 DEF Depths
<1>9. Balanced(tree, js, e, job, c)
  <2>1. Gain(tree, job) = 1
    BY <1>1 DEF Gain, here, Chains
  <2>2. whole \in 1 .. whole /\ ~IsOperand(whole)
    <3> HIDE DEF number
    <3> QED
      BY <1>2, <1>3
  <2>3. Gain(tree, js[whole]) = -1
    BY <1>7, <2>2
  <2>4. e[whole] = c + 2
    BY <2>2
  <2> HIDE DEF e, whole, c
  <2> QED
    BY <1>2, <1>5, <2>1, <2>3, <2>4 DEF Balanced
<1>10. js # <<>>
  BY <1>3, <1>5, EmptySeq
<1> HIDE DEF e, IsOperand
<1> QED
  BY <1>1, <1>5, <1>7, <1>8, <1>9, <1>10, Begins

\* An operand, then the operators applied to it.
LEMMA PrefixKeeps ==
  ASSUME TypeOK, Generable, CodeInv, GeneratePrefixExpr
  PROVE  CodeInv'
<1> DEFINE rest == [k \in DOMAIN here.ops |-> Step(here.ops[k])]
           x == codegen(kid(1))
           js == <<x>> \o rest
           c == Len(values)
           more == Len(here.ops)
           whole == 1 + more
           e == [k \in 1 .. whole |-> IF k = 1 THEN c ELSE c + 1]
<1>1. /\ Running /\ tree' = tree /\ job.do = "generate" /\ here.kind = "PrefixExpr"
      /\ Then(js) /\ UNCHANGED <<values, generated>>
  BY Doing DEF GeneratePrefixExpr, Generate
<1>2. /\ c \in Nat /\ more \in Nat /\ DOMAIN here.ops = 1 .. more
      /\ \A k \in DOMAIN here.ops : here.ops[k] \in {"NOT", "MINUS"}
      /\ kid(1) \in DOMAIN tree /\ tree[kid(1)].kind \in Proper
  <2>1. c \in Nat /\ here \in TreeNode /\ CanBeGenerated(tree, job.node)
    BY <1>1, Here, AtJob
  <2>2. here.ops \in Seq(STRING)
    BY <2>1 DEF TreeNode
  <2>3. \A k \in DOMAIN here.ops : here.ops[k] \in {"NOT", "MINUS"}
    BY <1>1, <2>1 DEF CanBeGenerated, here
  <2>4. kid(1) \in DOMAIN tree /\ tree[kid(1)].kind \in Proper
    BY <1>1, <2>1, Here DEF CanBeGenerated, here, kid
  <2> QED
    BY <2>1, <2>2, <2>3, <2>4, LenProperties
<1>3. IsSeq(rest) /\ Len(rest) = more
  <2>1. DOMAIN rest = 1 .. more /\ rest = [k \in 1 .. more |-> rest[k]]
    BY <1>2
  <2> HIDE DEF rest, more
  <2> QED
    BY <1>2, <2>1, SeqFromFunction
<1>4. \A k \in 1 .. more : rest[k] = Step(here.ops[k])
  BY <1>2
<1>5. /\ IsSeq(js) /\ Len(js) = whole /\ DOMAIN js = 1 .. whole
      /\ \A k \in 1 .. whole : js[k] = IF k <= 1 THEN x ELSE rest[k - 1]
  <2>1. js = <<x>> \o rest
    OBVIOUS
  <2> HIDE DEF x, rest, js, more
  <2>2. IsSeq(js) /\ Len(js) = 1 + Len(rest) /\ DOMAIN js = 1 .. 1 + Len(rest)
    BY <1>3, <2>1, OneBefore
  <2>3. \A k \in DOMAIN js : js[k] = IF k <= 1 THEN x ELSE rest[k - 1]
    BY <1>3, <2>1, OneBefore
  <2> QED
    BY <1>3, <2>2, <2>3
<1>6. Plain(x) /\ ~LeavesResult(tree, x) /\ Gain(tree, x) = 1 /\ \A d : DepthFits(tree, x, d)
  BY <1>1, <1>2, OperandStep
<1> HIDE DEF js, rest, x, more
<1>7. ASSUME NEW k \in 1 .. whole, k # 1
      PROVE  /\ Plain(js[k]) /\ ~LeavesResult(tree, js[k]) /\ Gain(tree, js[k]) = 0
             /\ \A d \in Nat : d > 0 => DepthFits(tree, js[k], d)
  <2> DEFINE i == k - 1
  <2>1. i \in 1 .. more /\ ~(k <= 1)
    BY <1>2, <1>7
  <2> HIDE DEF i
  <2> DEFINE what == here.ops[i]
  <2>2. js[k] = Step(what)
    BY <1>4, <1>5, <2>1 DEF i
  <2>3. what \in {"NOT", "MINUS"}
    BY <1>2, <2>1
  <2> HIDE DEF what
  <2> QED
    BY <1>1, <2>2, <2>3, OperatorStep
<1>8. js[1] = x /\ 1 \in 1 .. whole
  BY <1>2, <1>5
<1>9. \A k \in DOMAIN js : Plain(js[k]) /\ ~LeavesResult(tree, js[k])
  BY <1>5, <1>6, <1>7, <1>8
<1>10. Depths(tree, js, e, c)
  <2> HIDE DEF c
  <2>1. e \in [DOMAIN js -> Nat] /\ e[1] = c
    BY <1>2, <1>5, <1>8
  <2>2. ASSUME NEW k \in 1 .. whole PROVE DepthFits(tree, js[k], e[k])
    BY <1>2, <1>6, <1>7, <1>8
  <2>3. ASSUME NEW k \in 1 .. whole, k + 1 \in 1 .. whole
        PROVE  e[k + 1] = e[k] + Gain(tree, js[k])
    BY <1>2, <1>6, <1>7, <1>8, <2>3
  <2> HIDE DEF e
  <2> QED
    BY <1>5, <2>1, <2>2, <2>3 DEF Depths
<1>11. Balanced(tree, js, e, job, c)
  <2>1. Gain(tree, job) = 1
    BY <1>1 DEF Gain, here
  <2>2. e[whole] + Gain(tree, js[whole]) = c + 1
    BY <1>2, <1>6, <1>7, <1>8
  <2> HIDE DEF e, whole, c
  <2> QED
    BY <1>5, <2>1, <2>2 DEF Balanced
<1>12. js # <<>>
  BY <1>2, <1>5, EmptySeq
<1> HIDE DEF e
<1> QED
  BY <1>1, <1>5, <1>9, <1>10, <1>11, <1>12, Begins

\* The arguments, then the call: a function of its name is there by then.
LEMMA FnCallKeeps ==
  ASSUME TypeOK, Generable, CodeInv, GenerateFnCallExpr
  PROVE  CodeInv'
<1> DEFINE each == codegenEach(here.kids)
           last == Step("call")
           number == Len(here.kids)
           js == each \o <<last>>
           c == Len(values)
           whole == number + 1
           e == [k \in 1 .. whole |-> c + k - 1]
<1>1. /\ Running /\ tree' = tree /\ job.do = "generate" /\ here.kind = "FnCallExpr"
      /\ named(here.name) # {} /\ Then(js) /\ UNCHANGED <<values, generated>>
  BY Doing DEF GenerateFnCallExpr, Generate
<1>2. /\ number \in Nat /\ c \in Nat /\ DOMAIN here.kids = 1 .. number
      /\ \A i \in 1 .. number : kid(i) \in DOMAIN tree /\ tree[kid(i)].kind \in Proper
  BY <1>1, Here, AtJob DEF CanBeGenerated, here, kid
<1>3. /\ IsSeq(each) /\ Len(each) = number
      /\ \A k \in 1 .. number : each[k] = codegen(kid(k))
  <2>1. /\ DOMAIN each = 1 .. number /\ each = [k \in 1 .. number |-> each[k]]
        /\ \A k \in 1 .. number : each[k] = codegen(kid(k))
    BY <1>2 DEF codegenEach, kid
  <2> HIDE DEF each, number
  <2> QED
    BY <1>2, <2>1, SeqFromFunction
<1>4. js = Append(each, last)
  <2> HIDE DEF each, last
  <2>1. each \in Seq({each[k] : k \in DOMAIN each} \cup {last})
    BY <1>3, SeqOf
  <2> QED
    BY <2>1, AppendIsConcat
<1>5. /\ IsSeq(js) /\ Len(js) = whole /\ DOMAIN js = 1 .. whole
      /\ \A k \in 1 .. number : js[k] = each[k]
      /\ js[whole] = last
  <2> HIDE DEF js, each, last
  <2>1. IsSeq(js) /\ Len(js) = Len(each) + 1 /\ DOMAIN js = 1 .. Len(each) + 1
    BY <1>3, <1>4, Appended
  <2>2. (\A k \in DOMAIN each : js[k] = each[k]) /\ js[Len(each) + 1] = last
    BY <1>3, <1>4, Appended
  <2> QED
    BY <1>3, <2>1, <2>2, SeqFacts
<1>6. /\ Plain(last) /\ ~LeavesResult(tree, last) /\ Gain(tree, last) = 1 - number
      /\ \A d \in Nat : d >= number => DepthFits(tree, last, d)
  <2>1. last.do = "call" /\ last.node = job.node /\ last \in Jobs(tree)
    BY <1>1, AtJob DEF Step, Jobs, Steps
  <2>2. tree[last.node] = here
    BY <2>1 DEF here
  <2>3. functions # <<>> /\ \E f \in DOMAIN functions : functions[f].name = here.name
    BY <1>1, EmptySeq DEF named
  <2>4. JobFits(tree, functions, blocks, last)
    BY <1>1, <2>1, <2>2, <2>3 DEF JobFits, About, Jumps
  <2> HIDE DEF last
  <2>5. Plain(last) /\ ~LeavesResult(tree, last)
    BY <2>1, <2>4 DEF Plain, IsRoot, IsOf, LeavesResult
  <2>6. Gain(tree, last) = 1 - number
    BY <2>1, <2>2 DEF Gain
  <2>7. \A d \in Nat : d >= number => DepthFits(tree, last, d)
    BY <2>1, <2>2 DEF DepthFits, Jumps
  <2> QED
    BY <2>5, <2>6, <2>7
<1> HIDE DEF js, last, each, number
<1>7. ASSUME NEW k \in 1 .. number
      PROVE  /\ Plain(js[k]) /\ ~LeavesResult(tree, js[k]) /\ Gain(tree, js[k]) = 1
             /\ \A d : DepthFits(tree, js[k], d)
  <2> DEFINE m == kid(k)
  <2>1. m \in DOMAIN tree /\ tree[m].kind \in Proper /\ js[k] = codegen(m)
    BY <1>2, <1>3, <1>5
  <2> HIDE DEF m
  <2> QED
    BY <1>1, <2>1, OperandStep
<1>8. \A k \in 1 .. whole : k = whole \/ k \in 1 .. number
  BY <1>2
<1>9. \A k \in DOMAIN js : Plain(js[k]) /\ ~LeavesResult(tree, js[k])
  BY <1>5, <1>6, <1>7, <1>8
<1>10. Depths(tree, js, e, c)
  <2> HIDE DEF c
  <2>1. e \in [DOMAIN js -> Nat] /\ e[1] = c
    BY <1>2, <1>5
  <2>2. ASSUME NEW k \in 1 .. whole PROVE DepthFits(tree, js[k], e[k])
    <3>1. CASE k \in 1 .. number
      BY <1>7, <3>1
    <3>2. CASE k = whole
      BY <1>2, <1>5, <1>6, <3>2
    <3> QED
      BY <1>8, <2>2, <3>1, <3>2
  <2>3. ASSUME NEW k \in 1 .. whole, k + 1 \in 1 .. whole
        PROVE  e[k + 1] = e[k] + Gain(tree, js[k])
    BY <1>2, <1>7, <2>3
  <2> HIDE DEF e
  <2> QED
    BY <1>5, <2>1, <2>2, <2>3 DEF Depths
<1>11. Balanced(tree, js, e, job, c)
  <2>1. Gain(tree, job) = 1
    BY <1>1 DEF Gain, here
  <2>2. e[whole] + Gain(tree, js[whole]) = c + 1
    BY <1>2, <1>5, <1>6
  <2> HIDE DEF e, whole, c
  <2> QED
    BY <1>5, <2>1, <2>2 DEF Balanced
<1>12. js # <<>>
  BY <1>2, <1>5, EmptySeq
<1> HIDE DEF e
<1> QED
  BY <1>1, <1>5, <1>9, <1>10, <1>11, <1>12, Begins

\* The expression of a statement, then the statement.
LEMMA OperandKeeps ==
  ASSUME TypeOK, Generable, CodeInv, GenerateOperand
  PROVE  CodeInv'
<1> DEFINE m == kid(1)
           x == codegen(m)
           y == Step(here.kind)
           js == <<x, y>>
           e == <<0, 1>>
<1>1. /\ Running /\ tree' = tree /\ job.do = "generate"
      /\ here.kind \in {"VarDecl", "ReturnSt", "IfSt", "AssignSt"}
      /\ Then(js) /\ UNCHANGED <<values, generated>>
  BY Doing DEF GenerateOperand, Generate
<1>2. /\ m \in DOMAIN tree /\ tree[m].kind \in ExpressionKinds
      /\ here.kind \in {"IfSt", "AssignSt"} => tree[m].kind \in Proper
  <2>1. /\ CanBeGenerated(tree, job.node) /\ Len(here.kids) \in Nat
        /\ DOMAIN here.kids = 1 .. Len(here.kids)
    BY <1>1, Here
  <2>2. here.kind = "IfSt" => Len(here.kids) = 3
    BY <1>1, AtJob DEF Running, TypeOK, WellFormed, HasParts, here
  <2>3. 1 \in DOMAIN here.kids
    BY <1>1, <2>1, <2>2 DEF CanBeGenerated, here
  <2>4. m \in DOMAIN tree
    BY <1>1, <2>3, Here
  <2>5. /\ tree[m].kind \in ExpressionKinds
        /\ here.kind \in {"IfSt", "AssignSt"} => tree[m].kind \in Proper
    BY <1>1, <2>1 DEF CanBeGenerated, here, kid, Proper
  <2> QED
    BY <2>4, <2>5
<1>3. /\ Plain(x) /\ Gain(tree, x) = 1 /\ DepthFits(tree, x, 0)
      /\ LeavesResult(tree, x) => here.kind \in {"VarDecl", "ReturnSt"}
  <2>1. tree[m].kind \notin {"Root", "FnDef"}
    BY <1>2 DEF ExpressionKinds, Literals, Operations
  <2>2. Plain(x) /\ Gain(tree, x) = 1 /\ DepthFits(tree, x, 0)
    BY <1>1, <1>2, <2>1, StatementStep
  <2>3. tree[m].kind \in Proper => ~LeavesResult(tree, x)
    BY <1>1, <1>2, OperandStep
  <2> QED
    BY <1>1, <1>2, <2>2, <2>3
<1>4. /\ Plain(y) /\ LeavesResult(tree, y) /\ Gain(tree, y) = 0 /\ DepthFits(tree, y, 1)
      /\ here.kind \in {"VarDecl", "ReturnSt"} => TakesResult(y)
  <2>1. y.do = here.kind /\ y.node = job.node /\ y \in Jobs(tree)
    BY <1>1, AtJob DEF Step, Jobs, Steps
  <2>2. functions = <<>> => here.kind = "VarDecl"
    BY <1>1, AtJob DEF JobFits, Early, here, ExpressionKinds, Literals, Operations
  <2>3. JobFits(tree, functions, blocks, y)
    BY <1>1, <2>1, <2>2 DEF JobFits, About, Jumps, Early, here
  <2> HIDE DEF y
  <2>4. Plain(y) /\ LeavesResult(tree, y)
    BY <1>1, <2>1, <2>3 DEF Plain, IsRoot, IsOf, LeavesResult
  <2>5. Gain(tree, y) = 0 /\ DepthFits(tree, y, 1)
    BY <1>1, <2>1 DEF Gain, DepthFits, Jumps
  <2>6. here.kind \in {"VarDecl", "ReturnSt"} => TakesResult(y)
    BY <2>1 DEF TakesResult
  <2> QED
    BY <2>4, <2>5, <2>6
<1>5. Len(values) = 0 /\ LeavesResult(tree, job) /\ Gain(tree, job) = 1
  <2>1. here.kind \notin Proper \cup {"Root"}
    BY <1>1 DEF Proper, ExpressionKinds, Literals, Operations
  <2> QED
    BY <1>1, <2>1, AtJob DEF DepthFits, LeavesResult, Gain, here
<1> HIDE DEF x, y
<1>6. IsSeq(js) /\ Len(js) = 2 /\ DOMAIN js = 1 .. 2 /\ js # <<>>
  <2>1. js \in Seq({x, y}) /\ Len(js) = 2
    OBVIOUS
  <2> QED
    BY <2>1, IsSeqOf, SeqFacts, EmptySeq
<1>7. js[1] = x /\ js[2] = y
  OBVIOUS
<1> HIDE DEF js
<1>8. \A k \in DOMAIN js : Plain(js[k])
  BY <1>3, <1>4, <1>6, <1>7
<1>9. \A k \in DOMAIN js : LeavesResult(tree, js[k]) =>
        IF k = Len(js) THEN LeavesResult(tree, job) ELSE TakesResult(js[k + 1])
  BY <1>3, <1>4, <1>5, <1>6, <1>7
<1>10. Depths(tree, js, e, 0)
  <2>1. e \in [1 .. 2 -> Nat] /\ e[1] = 0 /\ e[2] = 1
    OBVIOUS
  <2> HIDE DEF e
  <2> QED
    BY <1>3, <1>4, <1>6, <1>7, <2>1 DEF Depths
<1>11. Balanced(tree, js, e, job, 0)
  <2>1. e[2] = 1
    OBVIOUS
  <2> HIDE DEF e
  <2> QED
    BY <1>4, <1>5, <1>6, <1>7, <2>1 DEF Balanced
<1> HIDE DEF e
<1> QED
  BY <1>1, <1>5, <1>6, <1>8, <1>9, <1>10, <1>11, Begins

-----------------------------------------------------------------------------
(* The children of a block or of the root.                                   *)

EachStep(k) == IF k = 2 * Len(here.kids) + 1 THEN "end"
               ELSE IF k % 2 = 1 THEN "child" ELSE "statement"

EachDepths == [k \in 1 .. 2 * Len(here.kids) + 1 |-> IF k % 2 = 1 THEN 0 ELSE 1]

LEMMA EachSteps ==
  ASSUME Running, NEW js, js = Append(Each(here.kids), Step(here.kind))
  PROVE  /\ IsSeq(js) /\ DOMAIN js = 1 .. 2 * Len(here.kids) + 1
         /\ Len(js) = 2 * Len(here.kids) + 1
         /\ \A k \in DOMAIN js :
              /\ EachStep(k) = "end" => js[k] = Step(here.kind)
              /\ EachStep(k) = "child" => \E i \in DOMAIN here.kids : js[k] = codegen(kid(i))
              /\ EachStep(k) = "statement" => js[k] = Step("statement")
<1> DEFINE number == Len(here.kids)
           more == 2 * number
           each == Each(here.kids)
           last == Step(here.kind)
<1>1. number \in Nat /\ more \in Nat /\ DOMAIN here.kids = 1 .. number
  BY Here
<1>2. /\ IsSeq(each) /\ Len(each) = more
      /\ \A k \in 1 .. more : each[k] = IF k % 2 = 1 THEN codegen(kid((k + 1) \div 2))
                                        ELSE Step("statement")
  <2>1. /\ DOMAIN each = 1 .. more /\ each = [k \in 1 .. more |-> each[k]]
        /\ \A k \in 1 .. more : each[k] = IF k % 2 = 1 THEN codegen(kid((k + 1) \div 2))
                                          ELSE Step("statement")
    BY DEF Each, kid
  <2> HIDE DEF each, more
  <2> QED
    BY <1>1, <2>1, SeqFromFunction
<1>3. js = Append(each, last)
  OBVIOUS
<1> HIDE DEF each, last
<1>4. IsSeq(js) /\ Len(js) = Len(each) + 1 /\ DOMAIN js = 1 .. Len(each) + 1
  <2>1. IsSeq(each)
    BY <1>2
  <2> QED
    BY <2>1, <1>3, Appended
<1>5. (\A k \in DOMAIN each : js[k] = each[k]) /\ js[Len(each) + 1] = last
  <2>1. IsSeq(each)
    BY <1>2
  <2> QED
    BY <2>1, <1>3, Appended
<1>6. DOMAIN each = 1 .. more
  BY <1>2, SeqFacts
<1> HIDE DEF number
<1>7. ASSUME NEW k \in 1 .. more + 1
      PROVE  /\ EachStep(k) = "end" => js[k] = last
             /\ EachStep(k) = "child" => \E i \in DOMAIN here.kids : js[k] = codegen(kid(i))
             /\ EachStep(k) = "statement" => js[k] = Step("statement")
  <2>1. CASE k = more + 1
    BY <1>2, <1>5, <2>1 DEF EachStep, number
  <2>2. CASE k # more + 1
    <3>1. k \in 1 .. more /\ (k % 2 = 1 => (k + 1) \div 2 \in 1 .. number)
      BY <1>1, <2>2
    <3>2. js[k] = IF k % 2 = 1 THEN codegen(kid((k + 1) \div 2)) ELSE Step("statement")
      BY <1>2, <1>5, <1>6, <3>1
    <3>3. CASE k % 2 = 1
      BY <1>1, <2>2, <3>1, <3>2, <3>3 DEF EachStep, number
    <3>4. CASE k % 2 # 1
      BY <2>2, <3>2, <3>4 DEF EachStep, number
    <3> QED
      BY <3>3, <3>4
  <2> QED
    BY <2>1, <2>2
<1> QED
  BY <1>2, <1>4, <1>7 DEF number, last

\* No value waits before a child, one after it.
LEMMA EachBalanced ==
  ASSUME Running, job.do = "generate", here.kind \in {"Block", "Root"},
         NEW js, js = Append(Each(here.kids), Step(here.kind))
  PROVE  /\ Depths(tree, js, EachDepths, 0)
         /\ \A k \in DOMAIN js :
              /\ js[k] \in Jobs(tree) /\ js[k].do \notin Jumps
              /\ EachStep(k) = "child" =>
                   js[k].do = "generate" /\ tree[js[k].node].kind # "Root"
              /\ EachStep(k) # "child" => js[k] = Step(js[k].do)
              /\ EachStep(k) = "statement" => TakesResult(js[k])
              /\ EachStep(k) # "statement" => ~TakesResult(js[k])
<1> DEFINE more == 2 * Len(here.kids)
           last == Step(here.kind)
<1>1. /\ DOMAIN js = 1 .. more + 1
      /\ \A k \in DOMAIN js :
              /\ EachStep(k) = "end" => js[k] = last
              /\ EachStep(k) = "child" => \E i \in DOMAIN here.kids : js[k] = codegen(kid(i))
              /\ EachStep(k) = "statement" => js[k] = Step("statement")
  BY EachSteps
<1>2. more \in Nat /\ more % 2 = 0
  <2> DEFINE number == Len(here.kids)
  <2>1. number \in Nat
    BY Here
  <2> HIDE DEF number
  <2>2. 2 * number \in Nat /\ (2 * number) % 2 = 0
    BY <2>1
  <2> QED
    BY <2>2 DEF number
<1>3. ASSUME NEW k \in DOMAIN js, EachStep(k) = "child"
      PROVE  /\ js[k] \in Jobs(tree) /\ js[k].do \notin Jumps /\ ~TakesResult(js[k])
             /\ js[k].do = "generate" /\ tree[js[k].node].kind # "Root"
             /\ Gain(tree, js[k]) = 1 /\ DepthFits(tree, js[k], 0)
  <2>1. PICK i \in DOMAIN here.kids : js[k] = codegen(kid(i))
    BY <1>1, <1>3
  <2> DEFINE m == kid(i)
  <2>2. m \in DOMAIN tree /\ tree[m].kind # "Root" /\ js[k] = codegen(m)
    BY <2>1, Here
  <2> HIDE DEF m
  <2> QED
    BY <2>2 DEF codegen, Jobs, Jumps, TakesResult, Gain, DepthFits
<1>4. ASSUME NEW k \in DOMAIN js, EachStep(k) = "statement"
      PROVE  /\ js[k] \in Jobs(tree) /\ js[k].do \notin Jumps /\ TakesResult(js[k])
             /\ Gain(tree, js[k]) = -1 /\ DepthFits(tree, js[k], 1)
             /\ js[k] = Step(js[k].do)
  <2>1. js[k] = Step("statement")
    BY <1>1, <1>4
  <2> QED
    BY <2>1, AtJob DEF Step, Jobs, Steps, Jumps, TakesResult, Gain, DepthFits
<1>5. ASSUME NEW k \in DOMAIN js, EachStep(k) = "end"
      PROVE  /\ js[k] \in Jobs(tree) /\ js[k].do \notin Jumps /\ ~TakesResult(js[k])
             /\ DepthFits(tree, js[k], 0) /\ js[k] = Step(js[k].do)
  <2>1. js[k] = last
    BY <1>1, <1>5
  <2> QED
    BY <2>1, AtJob DEF Step, Jobs, Steps, Jumps, TakesResult, DepthFits
<1>6. \A k \in 1 .. more + 1 :
        /\ k = more + 1 => EachStep(k) = "end" /\ k % 2 = 1
        /\ k # more + 1 => EachStep(k) = IF k % 2 = 1 THEN "child" ELSE "statement"
        /\ k \in Nat
        /\ k + 1 \in 1 .. more + 1 => k # more + 1 /\ (k % 2 = 1 <=> (k + 1) % 2 # 1)
  <2>1. \A k \in 1 .. more + 1 :
          /\ k = more + 1 => k % 2 = 1
          /\ k \in Nat
          /\ k + 1 \in 1 .. more + 1 => k # more + 1 /\ (k % 2 = 1 <=> (k + 1) % 2 # 1)
    <3> HIDE DEF more
    <3> QED
      BY <1>2
  <2> QED
    BY <2>1 DEF EachStep
<1>7. /\ DOMAIN EachDepths = 1 .. more + 1
      /\ \A k \in 1 .. more + 1 : EachDepths[k] = IF k % 2 = 1 THEN 0 ELSE 1
  BY DEF EachDepths
<1> HIDE DEF more, last
<1>8. Depths(tree, js, EachDepths, 0)
  <2> DEFINE e == EachDepths
  <2>1. e \in [DOMAIN js -> Nat] /\ e[1] = 0
    <3>1. e = [k \in 1 .. more + 1 |-> IF k % 2 = 1 THEN 0 ELSE 1]
      BY DEF EachDepths, more
    <3>2. 1 \in 1 .. more + 1
      BY <1>2
    <3> HIDE DEF e
    <3> QED
      BY <1>1, <3>1, <3>2
  <2>2. ASSUME NEW k \in DOMAIN js PROVE DepthFits(tree, js[k], e[k])
    BY <1>1, <1>3, <1>4, <1>5, <1>6, <1>7, <2>2
  <2>3. ASSUME NEW k \in DOMAIN js, k + 1 \in DOMAIN js
        PROVE  e[k + 1] = e[k] + Gain(tree, js[k])
    <3>1. k \in 1 .. more + 1 /\ k + 1 \in 1 .. more + 1
      BY <1>1, <2>3
    <3>2. CASE k % 2 = 1
      <4>1. Gain(tree, js[k]) = 1 /\ e[k] = 0 /\ e[k + 1] = 1
        BY <1>1, <1>3, <1>6, <1>7, <3>1, <3>2
      <4> QED
        BY <4>1
    <3>3. CASE k % 2 # 1
      <4>1. Gain(tree, js[k]) = -1 /\ e[k] = 1 /\ e[k + 1] = 0
        BY <1>1, <1>4, <1>6, <1>7, <3>1, <3>3
      <4> QED
        BY <4>1
    <3> QED
      BY <3>2, <3>3
  <2> HIDE DEF e
  <2>4. Depths(tree, js, e, 0)
    BY <2>1, <2>2, <2>3 DEF Depths
  <2> QED
    BY <2>4 DEF e
<1>9. \A k \in DOMAIN js : EachStep(k) \in {"child", "statement", "end"}
  BY DEF EachStep
<1> QED
  BY <1>3, <1>4, <1>5, <1>8, <1>9

LEMMA BlockKeeps ==
  ASSUME TypeOK, Generable, CodeInv, GenerateEach, here.kind = "Block"
  PROVE  CodeInv'
<1> DEFINE js == Append(Each(here.kids), Step(here.kind))
           whole == 2 * Len(here.kids) + 1
<1>1. /\ Running /\ tree' = tree /\ job.do = "generate"
      /\ Then(js) /\ UNCHANGED <<values, generated>>
  BY Doing DEF GenerateEach, Generate
<1>2. /\ IsSeq(js) /\ DOMAIN js = 1 .. whole /\ Len(js) = whole
      /\ \A k \in DOMAIN js :
           /\ EachStep(k) = "end" => js[k] = Step(here.kind)
           /\ EachStep(k) = "child" => \E i \in DOMAIN here.kids : js[k] = codegen(kid(i))
  BY <1>1, EachSteps
<1>3. /\ Depths(tree, js, EachDepths, 0)
      /\ \A k \in DOMAIN js :
           /\ js[k] \in Jobs(tree) /\ js[k].do \notin Jumps
           /\ EachStep(k) # "child" => js[k] = Step(js[k].do)
           /\ EachStep(k) = "statement" => TakesResult(js[k])
  BY <1>1, EachBalanced
<1>4. functions # <<>>
  BY <1>1, AtJob DEF JobFits, Early, here, ExpressionKinds, Literals, Operations
<1>5. Len(values) = 0 /\ LeavesResult(tree, job) /\ Gain(tree, job) = 1
  <2>1. here.kind \notin Proper \cup {"Root"}
    BY DEF Proper, ExpressionKinds, Literals, Operations
  <2> QED
    BY <1>1, <2>1, AtJob DEF DepthFits, LeavesResult, Gain, here
<1>6. whole \in Nat /\ whole >= 1 /\ whole % 2 = 1
  <2> DEFINE number == Len(here.kids)
  <2>1. number \in Nat
    BY <1>1, Here
  <2> HIDE DEF number
  <2>2. 2 * number + 1 \in Nat /\ 2 * number + 1 >= 1 /\ (2 * number + 1) % 2 = 1
    BY <2>1
  <2> QED
    BY <2>2 DEF number
<1> HIDE DEF js
<1>7. ASSUME NEW k \in DOMAIN js, EachStep(k) = "child"
      PROVE  Plain(js[k]) /\ js[k].do = "generate"
  <2>1. PICK i \in DOMAIN here.kids : js[k] = codegen(kid(i))
    BY <1>2, <1>7
  <2> DEFINE m == kid(i)
  <2>2. m \in DOMAIN tree /\ tree[m].kind # "Root" /\ js[k] = codegen(m)
    BY <1>1, <2>1, Here
  <2>3. tree[m].kind # "FnDef"
    <3>1. CanBeGenerated(tree, job.node) /\ i \in 1 .. Len(here.kids)
      BY <1>1, Here
    <3> QED
      BY <3>1 DEF CanBeGenerated, here, kid
  <2> HIDE DEF m
  <2> QED
    BY <1>1, <1>4, <2>2, <2>3, StatementStep DEF codegen
<1>8. ASSUME NEW k \in DOMAIN js, EachStep(k) = "statement" PROVE Plain(js[k])
  <2>1. js[k] = Step("statement") /\ js[k] \in Jobs(tree)
    BY <1>1, <1>3, <1>8, EachSteps DEF js
  <2>2. js[k].do = "statement" /\ js[k].node = job.node
    BY <2>1 DEF Step
  <2> QED
    BY <1>4, <2>1, <2>2 DEF Plain, IsRoot, IsOf, JobFits, About, Jumps, here
<1>9. ASSUME NEW k \in DOMAIN js, EachStep(k) = "end"
      PROVE  Plain(js[k]) /\ js[k].do = "Block" /\ k = Len(js)
  <2>1. js[k] = Step(here.kind) /\ js[k] \in Jobs(tree)
    BY <1>2, <1>3, <1>9
  <2>2. js[k].do = "Block" /\ js[k].node = job.node
    BY <2>1 DEF Step
  <2>3. Plain(js[k])
    BY <1>4, <2>1, <2>2 DEF Plain, IsRoot, IsOf, JobFits, About, Jumps, here
  <2> QED
    BY <1>2, <1>9, <2>2, <2>3 DEF EachStep
<1>10. \A k \in DOMAIN js : EachStep(k) \in {"child", "statement", "end"}
  BY DEF EachStep
<1>11. \A k \in DOMAIN js : Plain(js[k])
  BY <1>7, <1>8, <1>9, <1>10
<1>12. ASSUME NEW k \in DOMAIN js, LeavesResult(tree, js[k])
       PROVE  IF k = Len(js) THEN LeavesResult(tree, job) ELSE TakesResult(js[k + 1])
  <2>1. CASE EachStep(k) = "child"
    <3>1. k \in 1 .. whole /\ k # whole /\ k % 2 = 1
      BY <1>2, <2>1 DEF EachStep
    <3>2. k + 1 \in 1 .. whole /\ k + 1 # whole /\ (k + 1) % 2 # 1
      <4> HIDE DEF whole
      <4> QED
        BY <1>6, <3>1
    <3>3. EachStep(k + 1) = "statement"
      BY <3>2 DEF EachStep
    <3> QED
      BY <1>2, <1>3, <3>1, <3>2, <3>3
  <2>2. CASE EachStep(k) = "statement"
    <3>1. js[k] = Step(js[k].do) /\ TakesResult(js[k])
      BY <1>3, <2>2
    <3>2. js[k] = Step("statement")
      BY <1>1, <2>2, EachSteps DEF js
    <3> QED
      BY <1>12, <3>2 DEF LeavesResult, Step
  <2>3. CASE EachStep(k) = "end"
    BY <1>5, <1>9, <2>3
  <2> QED
    BY <1>10, <2>1, <2>2, <2>3
<1>13. Balanced(tree, js, EachDepths, job, 0)
  <2>1. whole \in 1 .. whole /\ EachDepths[whole] = 0 /\ EachStep(whole) = "end"
    BY <1>6 DEF EachDepths, EachStep
  <2>2. Gain(tree, js[whole]) = 1
    BY <1>2, <1>9, <2>1 DEF Gain
  <2> QED
    BY <1>2, <1>5, <2>1, <2>2 DEF Balanced
<1>14. js # <<>>
  BY <1>2, <1>6, EmptySeq
<1> QED
  BY <1>1, <1>2, <1>3, <1>5, <1>11, <1>12, <1>13, <1>14, Begins

\* The root is generated first of all, and nothing is left to do behind it.
LEMMA RootKeeps ==
  ASSUME TypeOK, Generable, CodeInv, GenerateEach, here.kind = "Root"
  PROVE  CodeInv'
<1> DEFINE js == Append(Each(here.kids), Step(here.kind))
           whole == 2 * Len(here.kids) + 1
<1>1. /\ Running /\ tree' = tree /\ job.do = "generate" /\ outcome' = "running"
      /\ Then(js) /\ UNCHANGED <<values, generated>>
  BY Doing DEF GenerateEach, Generate, Then
<1>2. /\ IsSeq(js) /\ DOMAIN js = 1 .. whole /\ Len(js) = whole
      /\ \A k \in DOMAIN js :
           /\ EachStep(k) = "end" => js[k] = Step(here.kind)
           /\ EachStep(k) = "child" => \E i \in DOMAIN here.kids : js[k] = codegen(kid(i))
           /\ EachStep(k) = "statement" => js[k] = Step("statement")
  BY <1>1, EachSteps
<1>3. /\ Depths(tree, js, EachDepths, 0)
      /\ \A k \in DOMAIN js :
           /\ js[k] \in Jobs(tree) /\ js[k].do \notin Jumps
           /\ EachStep(k) = "statement" => TakesResult(js[k])
  BY <1>1, EachBalanced
<1>4. todo' = js
  <2>1. todo \in Seq(Jobs(tree)) /\ todo # <<>> /\ Linked(tree, todo) /\ job = todo[1]
        /\ 1 \in DOMAIN todo
    BY <1>1, AtJob DEF Running
  <2>2. Len(todo) = 1
    BY <1>1, <2>1 DEF Linked, IsRoot, IsOf, here
  <2>3. Tail(todo) \in Seq(Jobs(tree)) /\ Len(Tail(todo)) = 0
    BY <2>1, <2>2, HeadTailProperties
  <2>4. Tail(todo) = <<>>
    BY <2>3, EmptySeq
  <2>5. js \in Seq(Jobs(tree))
    BY <1>2, <1>3, SeqOf
  <2> HIDE DEF js
  <2>6. js \o <<>> = js
    BY <2>5, ConcatEmptySeq
  <2> QED
    BY <1>1, <2>4, <2>6 DEF Then
<1>5. Len(values) = 0
  BY <1>1, AtJob DEF DepthFits, here, Proper, ExpressionKinds, Literals, Operations
<1>6. whole \in Nat /\ whole >= 1 /\ whole % 2 = 1
  <2> DEFINE number == Len(here.kids)
  <2>1. number \in Nat
    BY <1>1, Here
  <2> HIDE DEF number
  <2>2. 2 * number + 1 \in Nat /\ 2 * number + 1 >= 1 /\ (2 * number + 1) % 2 = 1
    BY <2>1
  <2> QED
    BY <2>2 DEF number
<1> HIDE DEF js
<1>7. ASSUME NEW k \in DOMAIN js, EachStep(k) = "child"
      PROVE  /\ js[k].do = "generate" /\ ~IsRoot(tree, js[k])
             /\ JobFits(tree, functions, blocks, js[k])
  <2>1. PICK i \in DOMAIN here.kids : js[k] = codegen(kid(i))
    BY <1>2, <1>7
  <2> DEFINE m == kid(i)
  <2>2. m \in DOMAIN tree /\ tree[m].kind # "Root" /\ js[k] = codegen(m)
    BY <1>1, <2>1, Here
  <2>3. tree[m].kind \in {"VarDecl", "FnDef"}
    <3>1. CanBeGenerated(tree, job.node) /\ i \in 1 .. Len(here.kids)
      BY <1>1, Here
    <3> QED
      BY <3>1 DEF CanBeGenerated, here, kid
  <2> HIDE DEF m
  <2> QED
    BY <2>2, <2>3 DEF codegen, IsRoot, IsOf, JobFits, About, Early, Jumps
<1>8. ASSUME NEW k \in DOMAIN js, EachStep(k) = "statement"
      PROVE  /\ js[k].do = "statement" /\ JobFits(tree, functions, blocks, js[k])
  <2>1. js[k] = Step("statement")
    BY <1>2, <1>8
  <2> QED
    BY <2>1 DEF Step, JobFits, About, Early, Jumps, here
<1>9. ASSUME NEW k \in DOMAIN js, EachStep(k) = "end"
      PROVE  /\ js[k].do = "Root" /\ k = Len(js) /\ JobFits(tree, functions, blocks, js[k])
  <2>1. js[k] = Step(here.kind) /\ k = Len(js)
    BY <1>2, <1>9 DEF EachStep
  <2> QED
    BY <2>1 DEF Step, JobFits, About, Early, Jumps, here
<1>10. \A k \in DOMAIN js : EachStep(k) \in {"child", "statement", "end"}
  BY DEF EachStep
<1>11. \A k \in DOMAIN js : JobFits(tree, functions, blocks, js[k])
  BY <1>7, <1>8, <1>9, <1>10
<1>12. Linked(tree, js)
  <2>1. ASSUME NEW k \in DOMAIN js, LeavesResult(tree, js[k])
        PROVE  k + 1 \in DOMAIN js /\ TakesResult(js[k + 1])
    <3>1. EachStep(k) = "child"
      BY <1>8, <1>9, <1>10, <2>1 DEF LeavesResult
    <3>2. k \in 1 .. whole /\ k # whole /\ k % 2 = 1
      BY <1>2, <3>1 DEF EachStep
    <3>3. k + 1 \in 1 .. whole /\ k + 1 # whole /\ (k + 1) % 2 # 1
      <4> HIDE DEF whole
      <4> QED
        BY <1>6, <3>2
    <3>4. EachStep(k + 1) = "statement"
      BY <3>3 DEF EachStep
    <3> QED
      BY <1>2, <1>3, <3>3, <3>4
  <2>2. ASSUME NEW k \in DOMAIN js
        PROVE  /\ IsRoot(tree, js[k]) => k = Len(js)
               /\ IsOf(tree, js[k], {"Root"}) => k = 1
    BY <1>7, <1>8, <1>9, <1>10 DEF IsRoot, IsOf
  <2> QED
    BY <1>3, <2>1, <2>2 DEF Linked
<1>13. todo' \in Seq(Jobs(tree'))
  BY <1>1, <1>2, <1>3, <1>4, SeqOf
<1>14. UNCHANGED <<values, functions, blocks, insertBlock, allocated>>
  BY <1>1 DEF generated
<1>15. TodoInv(tree', functions', blocks', todo', Len(values'))
  BY <1>1, <1>3, <1>4, <1>5, <1>11, <1>12, <1>13, <1>14 DEF TodoInv
<1>16. \A k \in DOMAIN values' : Operand(values'[k])
  BY <1>1, <1>5, <1>14, AtJob
<1> QED
  BY <1>1, <1>14, <1>15, <1>16 DEF CodeInv, Generating

-----------------------------------------------------------------------------
(* The other steps.                                                          *)

LEMMA JobStays ==
  ASSUME Extends(blocks, blocks'), functions' = functions,
         NEW j, JobFits(tree, functions, blocks, j)
  PROVE  JobFits(tree, functions', blocks', j)
BY DEF JobFits, Extends

\* The value is replaced, and goes on to be negated as by MINUS.
LEMMA NegateKeeps ==
  ASSUME TypeOK, Generable, CodeInv, Negate
  PROVE  CodeInv'
<1> DEFINE zero == Zero(top.type)
           built == Build("EQ", "i1", top, zero)
           x == Step("MINUS")
           js == <<x>>
           c == Len(values)
           e == <<c>>
<1>1. /\ Running /\ tree' = tree /\ job.do = "NOT"
      /\ Use(1, built.value) /\ Emit(built.code) /\ Then(js)
      /\ UNCHANGED <<functions, insertBlock, allocated>>
  BY Doing DEF Negate
<1>2. Len(values) > 0 /\ ~TakesResult(job) /\ Gain(tree, job) = 0 /\ c \in Nat
  BY <1>1, AtJob DEF DepthFits, TakesResult, Jumps, Gain
<1>3. 1 \in 0 .. Len(values)
  BY <1>2
<1>4. /\ IsValue(top, blocks) /\ top.type \in ValueTypes
      /\ blocks = <<>> => top.is = "constant"
  BY <1>1, <1>2, TopFits DEF Operand
<1>5. IsValue(zero, blocks) /\ zero.is = "constant"
  BY <1>4, ConstantFits DEF Zero
<1>6. /\ Place(functions, blocks, insertBlock)
      /\ allocated \in [DOMAIN tree -> 0 .. Len(functions)]
  BY DEF CodeInv
<1>7. Fitting(built) /\ Operand(built.value)
  <2> HIDE DEF zero
  <2>1. built = Build("EQ", "i1", top, zero)
    OBVIOUS
  <2>2. "i1" \in ValueTypes
    BY DEF ValueTypes
  <2> HIDE DEF built
  <2>3. Fitting(built)
    BY <1>4, <1>5, <1>6, <2>1, <2>2, BuildFits
  <2>4. Operand(built.value)
    BY <1>4, <1>5, <1>6, <2>1, <2>2, BuildFits
  <2> QED
    BY <2>3, <2>4
<1> HIDE DEF built
<1>8. Place(functions, blocks', insertBlock) /\ Extends(blocks, blocks')
  BY <1>1, <1>3, <1>7, ResultPut
<1>9. ValuesInv(blocks', values') /\ Len(values') = c
  <2>1. ValuesInv(blocks', values') /\ Len(values') = Len(values) - 1 + 1
    BY <1>1, <1>3, <1>7, ResultPut
  <2> QED
    BY <1>2, <2>1
<1>10. \A k \in DOMAIN values' : Operand(values'[k])
  <2>1. \A k \in DOMAIN values' : \/ values'[k] = built.value
                                  \/ k \in DOMAIN values /\ values'[k] = values[k]
    BY <1>1, <1>3, <1>7, ResultPut
  <2> QED
    BY <1>1, <1>2, <1>7, <2>1, AtJob
<1>11. /\ Plain(x) /\ ~LeavesResult(tree, x) /\ Gain(tree, x) = 0
       /\ \A d \in Nat : d > 0 => DepthFits(tree, x, d)
  <2>1. here.kind = "PrefixExpr"
    BY <1>1, AtJob DEF JobFits, About, here
  <2> QED
    BY <1>1, <2>1, OperatorStep
<1> HIDE DEF x
<1>12. js \in Seq(Jobs(tree)) /\ js # <<>> /\ Len(js) = 1 /\ DOMAIN js = 1 .. 1 /\ js[1] = x
  BY <1>11 DEF Plain
<1> HIDE DEF js
<1>13. Replaces(tree, js, job)
  BY <1>11, <1>12 DEF Replaces, Plain
<1>14. Depths(tree, js, e, c)
  <2>1. e \in [1 .. 1 -> Nat] /\ e[1] = c
    BY <1>2
  <2> HIDE DEF e
  <2>2. DepthFits(tree, x, c)
    BY <1>2, <1>11
  <2> QED
    BY <1>12, <2>1, <2>2 DEF Depths
<1>15. Balanced(tree, js, e, job, c)
  BY <1>2, <1>11, <1>12 DEF Balanced
<1>16. \A k \in DOMAIN js : JobFits(tree, functions', blocks', js[k])
  <2>1. JobFits(tree, functions', blocks', x)
    BY <1>1, <1>8, <1>11, JobStays DEF Plain
  <2> QED
    BY <1>12, <2>1
<1>17. \A k \in DOMAIN todo : k > 1 => JobFits(tree, functions', blocks', todo[k])
  BY <1>1, <1>8, JobsStay
<1>18. /\ Place(functions', blocks', insertBlock')
       /\ allocated' \in [DOMAIN tree -> 0 .. Len(functions')]
  BY <1>1, <1>6, <1>8
<1>19. Depths(tree, js, e, Len(values'))
  BY <1>9, <1>14
<1> HIDE DEF e
<1> QED
  BY <1>1, <1>9, <1>10, <1>12, <1>13, <1>15, <1>16, <1>17, <1>18, <1>19, GoesOnWith

\* Values that no instruction takes away.
LEMMA ValuesThere ==
  ASSUME Place(functions, blocks, insertBlock), Extends(blocks, blocks'),
         NEW bs, NEW vs, ValuesInv(blocks, vs)
  PROVE  ValuesInv(blocks', vs)
<1>1. blocks' = <<>> => blocks = <<>>
  <2>1. ASSUME blocks # <<>> PROVE blocks' # <<>>
    <3>1. insertBlock # 0 /\ insertBlock \in DOMAIN blocks
      BY <2>1, PlaceFacts
    <3>2. insertBlock \in DOMAIN blocks'
      BY <3>1 DEF Extends
    <3> QED
      BY <3>2
  <2> QED
    BY <2>1
<1> QED
  BY <1>1, ValuesStay

LEMMA DeclareKeeps ==
  ASSUME TypeOK, Generable, CodeInv, Declare
  PROVE  CodeInv'
<1> DEFINE instruction == store(top, job.node)
           code == <<instruction>>
           built == [value |-> top, code |-> code]
<1>1. /\ Running /\ tree' = tree /\ job.do = "VarDecl" /\ insertBlock # 0
      /\ allocated' = recorded(job.node) /\ Emit(code) /\ Then(<<>>)
      /\ UNCHANGED <<values, functions, insertBlock>>
  BY Doing DEF Declare
<1>2. /\ Place(functions, blocks, insertBlock) /\ ValuesInv(blocks, values)
      /\ allocated \in [DOMAIN tree -> 0 .. Len(functions)]
  BY DEF CodeInv
<1>3. Len(values) = 1 /\ LeavesResult(tree, job) /\ Gain(tree, job) = 0
  BY <1>1, AtJob DEF DepthFits, LeavesResult, Gain
<1>4. IsValue(top, blocks)
  BY <1>1, <1>3, TopFits
<1>5. Fitting(built)
  <2>1. instruction.args = <<top>>
    BY DEF store, Instruction
  <2> HIDE DEF instruction
  <2> QED
    BY <1>1, <1>2, <1>4, <2>1, UseFits
<1> HIDE DEF instruction
<1>6. /\ IsSeq(code) /\ CodeFits(blocks, code)
      /\ code # <<>> => insertBlock \in DOMAIN blocks
  BY <1>5 DEF Fitting
<1> HIDE DEF code
<1>7. Place(functions, blocks', insertBlock) /\ Extends(blocks, blocks')
  BY <1>1, <1>2, <1>6, EmitFits
<1>8. allocated' \in [DOMAIN tree -> 0 .. Len(functions')]
  <2>1. blocks[insertBlock].fn = Len(functions) /\ Len(functions) \in 0 .. Len(functions)
    BY <1>1, <1>2, PlaceFacts DEF Place
  <2>2. job.node \in DOMAIN tree
    BY <1>1, AtJob
  <2>3. allocated' = [allocated EXCEPT ![job.node] = Len(functions)]
    BY <1>1, <2>1 DEF recorded
  <2> QED
    BY <1>1, <1>2, <2>1, <2>2, <2>3
<1>9. ValuesInv(blocks', values')
  BY <1>1, <1>2, <1>7, ValuesThere
<1>10. \A k \in DOMAIN todo : k > 1 => JobFits(tree, functions', blocks', todo[k])
  BY <1>1, <1>7, JobsStay
<1>11. Len(values') = Len(values) + Gain(tree, job)
  BY <1>1, <1>3
<1>12. Place(functions', blocks', insertBlock')
  BY <1>1, <1>7
<1> QED
  BY <1>1, <1>3, <1>8, <1>9, <1>10, <1>11, <1>12, Returns

\* The only value is used up.
LEMMA OneDropped ==
  ASSUME ValuesInv(blocks, values), Len(values) = 1,
         NEW us, us = SubSeq(values, 1, Len(values) - 1)
  PROVE  ValuesInv(blocks, us) /\ Len(us) = 0 /\ DOMAIN us = {}
<1>1. Len(values) - 1 = 0 /\ 0 \in 0 .. Len(values)
  OBVIOUS
<1>2. us = SubSeq(values, 1, 0)
  BY <1>1
<1>3. ValuesInv(blocks, us)
  BY <1>1, <1>2, ValuesDropped
<1>4. Len(us) = 0
  BY <1>1, <1>2, ValuesDropped
<1>5. DOMAIN us = 1 .. 0
  BY <1>3, <1>4, SeqFacts DEF ValuesInv
<1> QED
  BY <1>3, <1>4, <1>5

LEMMA StatementKeeps ==
  ASSUME TypeOK, Generable, CodeInv, Statement
  PROVE  CodeInv'
<1>1. /\ Running /\ tree' = tree /\ job.do = "statement" /\ Then(<<>>)
      /\ values' = SubSeq(values, 1, Len(values) - 1)
      /\ UNCHANGED <<functions, blocks, insertBlock, allocated>>
  BY Doing DEF Statement, generated
<1>2. /\ Place(functions, blocks, insertBlock) /\ ValuesInv(blocks, values)
      /\ allocated \in [DOMAIN tree -> 0 .. Len(functions)]
  BY DEF CodeInv
<1>3. Len(values) = 1 /\ Gain(tree, job) = -1
  BY <1>1, AtJob DEF DepthFits, Gain
<1>4. ValuesInv(blocks, values') /\ Len(values') = 0 /\ DOMAIN values' = {}
  BY <1>1, <1>2, <1>3, OneDropped
<1>5. Len(values') = Len(values) + Gain(tree, job)
  BY <1>3, <1>4
<1>6. \A k \in DOMAIN todo : k > 1 => JobFits(tree, functions', blocks', todo[k])
  BY <1>1 DEF Running, CodeInv, Generating, TodoInv
<1>7. /\ Place(functions', blocks', insertBlock') /\ ValuesInv(blocks', values')
      /\ allocated' \in [DOMAIN tree -> 0 .. Len(functions')]
  BY <1>1, <1>2, <1>4
<1>8. \A k \in DOMAIN values' : Operand(values'[k])
  BY <1>4
<1> QED
  BY <1>1, <1>5, <1>6, <1>7, <1>8, Returns

\* The jump goes to a block of the function that is generated.
LEMMA MergeKeeps ==
  ASSUME TypeOK, Generable, CodeInv, Merge
  PROVE  CodeInv'
<1> DEFINE code == <<Instruction("br", "none", <<>>, <<job.target>>)>>
           kept == SubSeq(values, 1, Len(values) - 1)
           v == Label(job.goOnIn)
<1>1. /\ Running /\ tree' = tree /\ job.do \in Jumps
      /\ Emit(code) /\ insertBlock' = job.goOnIn /\ Then(<<>>)
      /\ values' = IF job.do = "else" THEN kept ELSE Append(kept, v)
      /\ UNCHANGED <<functions, allocated>>
  BY Doing DEF Merge, Jumps, Use
<1>2. /\ Place(functions, blocks, insertBlock) /\ ValuesInv(blocks, values)
      /\ allocated \in [DOMAIN tree -> 0 .. Len(functions)]
  BY DEF CodeInv
<1>3. /\ Len(values) = 1 /\ Gain(tree, job) = IF job.do = "else" THEN -1 ELSE 0
      /\ job.do = "merge" => LeavesResult(tree, job)
  BY <1>1, AtJob DEF DepthFits, Gain, Jumps, LeavesResult
<1>4. /\ job.goOnIn \in DOMAIN blocks /\ blocks[job.goOnIn].fn = Len(functions)
      /\ functions # <<>>
  BY <1>1, AtJob DEF JobFits, Early, Jumps
<1>5. insertBlock \in DOMAIN blocks /\ job.goOnIn # 0 /\ job.goOnIn \in 1 .. Len(blocks)
  BY <1>2, <1>4, PlaceFacts DEF Place
<1>6. IsSeq(code) /\ CodeFits(blocks, code)
  <2> DEFINE instruction == Instruction("br", "none", <<>>, <<job.target>>)
  <2>1. instruction.args = <<>>
    BY DEF Instruction
  <2> HIDE DEF instruction
  <2>2. code \in Seq({instruction}) /\ \A i \in DOMAIN code : code[i] = instruction
    BY DEF instruction
  <2> HIDE DEF code
  <2> QED
    BY <2>1, <2>2, IsSeqOf DEF CodeFits
<1> HIDE DEF code
<1>7. Place(functions, blocks', insertBlock) /\ Extends(blocks, blocks')
  BY <1>1, <1>2, <1>5, <1>6, EmitFits
<1>8. Place(functions', blocks', insertBlock')
  <2>1. job.goOnIn \in DOMAIN blocks' /\ blocks'[job.goOnIn].fn = Len(functions)
    BY <1>4, <1>7 DEF Extends
  <2>2. IsSeq(blocks')
    BY <1>7 DEF Place, BlocksInv
  <2>3. job.goOnIn \in 1 .. Len(blocks') /\ Len(blocks') \in Nat
    BY <2>1, <2>2, SeqFacts
  <2> QED
    BY <1>1, <1>4, <1>5, <1>7, <2>1, <2>3 DEF Place
<1>9. ValuesInv(blocks, kept) /\ Len(kept) = 0 /\ DOMAIN kept = {}
  BY <1>2, <1>3, OneDropped
<1> HIDE DEF kept, v
<1>10. ValuesInv(blocks', kept)
  BY <1>2, <1>7, <1>9, ValuesThere
<1>11. CASE job.do = "else"
  <2>1. values' = kept
    BY <1>1, <1>11
  <2>2. Len(values') = Len(values) + Gain(tree, job)
    BY <1>3, <1>9, <1>11, <2>1
  <2>3. \A k \in DOMAIN values' : Operand(values'[k])
    BY <1>9, <2>1
  <2>4. ValuesInv(blocks', values')
    BY <1>10, <2>1
  <2>5. \A k \in DOMAIN todo : k > 1 => JobFits(tree, functions', blocks', todo[k])
    BY <1>1, <1>7, JobsStay
  <2>6. allocated' \in [DOMAIN tree -> 0 .. Len(functions')]
    BY <1>1, <1>2
  <2> QED
    BY <1>1, <1>8, <2>2, <2>3, <2>4, <2>5, <2>6, Returns
<1>12. CASE job.do = "merge"
  <2>1. values' = Append(kept, v)
    BY <1>1, <1>12
  <2>2. IsValue(v, blocks') /\ blocks' # <<>>
    <3>1. job.goOnIn \in DOMAIN blocks'
      BY <1>4, <1>7 DEF Extends
    <3> QED
      BY <3>1 DEF v, Label, IsValue
  <2>3. ValuesInv(blocks', values')
    BY <1>10, <2>1, <2>2, ValuesPut
  <2>4. Len(values') = Len(kept) + 1
    BY <1>10, <2>1, <2>2, ValuesPut
  <2>5. Len(values') = Len(values) + Gain(tree, job)
    BY <1>3, <1>9, <1>12, <2>4
  <2>6. \A k \in DOMAIN todo : k > 1 => JobFits(tree, functions', blocks', todo[k])
    BY <1>1, <1>7, JobsStay
  <2>7. allocated' \in [DOMAIN tree -> 0 .. Len(functions')]
    BY <1>1, <1>2
  <2> QED
    BY <1>1, <1>3, <1>8, <1>12, <2>3, <2>5, <2>6, <2>7, Returns
<1> QED
  BY <1>1, <1>11, <1>12 DEF Jumps

-----------------------------------------------------------------------------
(* A branch: the condition, the jump to one of two new blocks, and the block *)
(* where they come together.                                                 *)

\* More instructions are put behind the same ones.
LEMMA EmittedMore ==
  ASSUME NEW bs, NEW total, BlocksInv(bs, total), NEW b, b \in DOMAIN bs,
         NEW code, IsSeq(code), NEW even, IsSeq(even), even # <<>>,
         \A k \in DOMAIN code : k \in DOMAIN even /\ even[k] = code[k]
  PROVE  Extends(Emitted(bs, b, code), Emitted(bs, b, even))
<1> DEFINE less == Emitted(bs, b, code)
           more == Emitted(bs, b, even)
           was == Len(bs[b].code)
           count == Len(code)
           size == Len(even)
<1>1. less = Emitted(bs, b, code) /\ more = Emitted(bs, b, even)
  OBVIOUS
<1>2. count \in Nat /\ DOMAIN code = 1 .. count /\ size \in Nat /\ DOMAIN even = 1 .. size
  BY SeqFacts
<1> HIDE DEF less, more
<1>3. DOMAIN more = DOMAIN bs
  BY <1>1, EmittedFacts
<1>4. \A x \in DOMAIN bs : /\ more[x] = [fn |-> bs[x].fn, code |-> more[x].code]
                           /\ more[x].fn = bs[x].fn
                           /\ IsSeq(more[x].code)
                           /\ x # b => more[x] = bs[x]
  BY <1>1, EmittedFacts
<1>5. DOMAIN more[b].code = 1 .. was + size
  BY <1>1, EmittedFacts
<1>6. \A i \in 1 .. was + size :
        more[b].code[i] = IF i <= was THEN bs[b].code[i] ELSE even[i - was]
  BY <1>1, EmittedCode
<1>7. CASE code = <<>>
  <2>1. less = bs
    BY <1>1, <1>7 DEF Emitted
  <2>2. Extends(bs, more)
    BY <1>1, EmittedFacts
  <2> QED
    BY <2>1, <2>2 DEF less, more
<1>8. CASE code # <<>>
  <2>1. DOMAIN less = DOMAIN bs
    BY <1>1, EmittedFacts
  <2>2. \A x \in DOMAIN bs : /\ less[x] = [fn |-> bs[x].fn, code |-> less[x].code]
                             /\ less[x].fn = bs[x].fn
                             /\ IsSeq(less[x].code)
                             /\ x # b => less[x] = bs[x]
    BY <1>1, EmittedFacts
  <2>3. DOMAIN less[b].code = 1 .. was + count /\ was \in Nat
    <3>1. DOMAIN less[b].code = 1 .. was + count
      BY <1>1, <1>8, EmittedFacts
    <3>2. was \in Nat
      BY SeqFacts DEF BlocksInv
    <3> QED
      BY <3>1, <3>2
  <2>4. \A i \in 1 .. was + count :
          less[b].code[i] = IF i <= was THEN bs[b].code[i] ELSE code[i - was]
    BY <1>1, <1>8, EmittedCode
  <2>5. \A x \in DOMAIN bs : more[x].fn = less[x].fn
    BY <1>4, <2>2
  <2>6. \A x \in DOMAIN bs : x # b => more[x] = less[x]
    BY <1>4, <2>2
  <2> HIDE DEF was, count, size
  <2>7. ASSUME NEW i \in 1 .. was + count
        PROVE  i \in 1 .. was + size /\ more[b].code[i] = less[b].code[i]
    <3>1. CASE i <= was
      <4>1. i \in 1 .. was + size
        BY <1>2, <2>3, <3>1
      <4> QED
        BY <1>6, <2>4, <3>1, <4>1
    <3>2. CASE ~(i <= was)
      <4>1. i - was \in 1 .. count
        BY <1>2, <2>3, <3>2
      <4>2. i - was \in 1 .. size /\ even[i - was] = code[i - was]
        BY <1>2, <4>1
      <4>3. i \in 1 .. was + size
        BY <1>2, <2>3, <3>2, <4>2
      <4> QED
        BY <1>6, <2>4, <3>2, <4>2, <4>3
    <3> QED
      BY <3>1, <3>2
  <2>8. Extends(less, more)
    BY <1>3, <1>5, <2>1, <2>3, <2>5, <2>6, <2>7 DEF Extends
  <2> QED
    BY <2>8 DEF less, more
<1> QED
  BY <1>7, <1>8

LEMMA Behind ==
  ASSUME NEW s, IsSeq(s), NEW t, IsSeq(t), NEW u, u = s \o t, NEW x \in DOMAIN t
  PROVE  Len(s) + x \in DOMAIN u /\ u[Len(s) + x] = t[x]
<1> DEFINE was == Len(s)
           count == Len(t)
           v == u
<1>1. was \in Nat /\ count \in Nat /\ DOMAIN t = 1 .. count
  BY SeqFacts
<1>2. DOMAIN v = 1 .. was + count
  BY Concatenated
<1>3. \A k \in DOMAIN v : v[k] = IF k <= was THEN s[k] ELSE t[k - was]
  BY Concatenated
<1> HIDE DEF was, count, v
<1>4. was + x \in 1 .. was + count /\ ~(was + x <= was) /\ was + x - was = x
  BY <1>1
<1>5. was + x \in DOMAIN v /\ v[was + x] = t[x]
  BY <1>1, <1>2, <1>3, <1>4
<1> QED
  BY <1>5 DEF was, v

LEMMA BehindExtends ==
  ASSUME NEW s, IsSeq(s), NEW t, IsSeq(t), NEW u, u = s \o t
  PROVE  Extends(s, u)
<1> DEFINE was == Len(s)
           count == Len(t)
           v == u
<1>1. was \in Nat /\ count \in Nat /\ DOMAIN s = 1 .. was
  BY SeqFacts
<1>2. DOMAIN v = 1 .. was + count
  BY Concatenated
<1>3. \A k \in DOMAIN v : v[k] = IF k <= was THEN s[k] ELSE t[k - was]
  BY Concatenated
<1> HIDE DEF was, count, v
<1>4. \A k \in 1 .. was : k \in 1 .. was + count /\ k <= was
  BY <1>1
<1>5. \A k \in DOMAIN s : k \in DOMAIN v /\ v[k] = s[k]
  BY <1>1, <1>2, <1>3, <1>4
<1>6. Extends(s, v)
  BY <1>5 DEF Extends
<1> QED
  BY <1>6 DEF v

\* Three new blocks of the function, and the branch to two of them.
Branched(code, more) ==
  more = [blocks EXCEPT ![insertBlock].code = @ \o code]
         \o [k \in 1 .. 3 |-> EmptyBlock(blocks[insertBlock].fn)]

LEMMA BranchBlocks ==
  ASSUME Place(functions, blocks, insertBlock), insertBlock # 0,
         NEW code, IsSeq(code), code # <<>>,
         CodeFits(Emitted(blocks, insertBlock, code), code),
         NEW more, Branched(code, more)
  PROVE  /\ BlocksInv(more, Len(functions)) /\ Extends(blocks, more)
         /\ Len(more) = Len(blocks) + 3
         /\ \A k \in 1 .. 3 : /\ Len(blocks) + k \in DOMAIN more
                              /\ more[Len(blocks) + k].fn = Len(functions)
<1> DEFINE mid == Emitted(blocks, insertBlock, code)
           fn == blocks[insertBlock].fn
           new == [k \in 1 .. 3 |-> EmptyBlock(fn)]
           total == Len(functions)
<1>1. /\ total \in Nat /\ Len(blocks) \in Nat /\ BlocksInv(blocks, total)
      /\ insertBlock \in DOMAIN blocks /\ total \in 1 .. total /\ fn = total
  BY PlaceFacts DEF Place
<1>2. more = mid \o new
  BY DEF Emitted, Branched
<1>3. mid = Emitted(blocks, insertBlock, code)
  OBVIOUS
<1> HIDE DEF mid
<1>4. Len(mid) = Len(blocks)
  BY <1>1, <1>3, EmittedFacts
<1>5. Extends(blocks, mid)
  BY <1>1, <1>3, EmittedFacts
<1>6. BlocksInv(mid, total)
  BY <1>1, <1>3, EmittedFits
<1>7. IsSeq(new) /\ Len(new) = 3
  <2>1. DOMAIN new = 1 .. 3 /\ new = [k \in 1 .. 3 |-> new[k]] /\ 3 \in Nat
    OBVIOUS
  <2> HIDE DEF new
  <2> QED
    BY <2>1, SeqFromFunction
<1>8. \A k \in DOMAIN new : new[k].fn = total
  BY <1>1 DEF EmptyBlock
<1>9. \A k \in DOMAIN new : /\ new[k] = [fn |-> new[k].fn, code |-> new[k].code]
                            /\ new[k].fn \in 1 .. total
                            /\ IsSeq(new[k].code)
                            /\ CodeFits(more, new[k].code)
  <2>1. IsSeq(<<>>)
    BY EmptySeq, IsSeqOf
  <2>3. CodeFits(more, <<>>)
    BY DEF CodeFits
  <2>2. ASSUME NEW k \in DOMAIN new
        PROVE  /\ new[k] = [fn |-> new[k].fn, code |-> new[k].code]
               /\ new[k].fn \in 1 .. total /\ new[k].code = <<>>
    <3>1. new[k] = [fn |-> fn, code |-> <<>>]
      BY DEF EmptyBlock
    <3> HIDE DEF new, fn, total
    <3> QED
      BY <1>1, <3>1
  <2> HIDE DEF new, fn, total
  <2> QED
    BY <2>1, <2>2, <2>3
<1> HIDE DEF new, fn, total
<1>10. IsSeq(new) /\ more = mid \o new
  BY <1>2, <1>7
<1>11. total \in Nat /\ total <= total
  BY <1>1
<1>12. BlocksInv(more, total)
  BY <1>6, <1>9, <1>10, <1>11, BlocksAdded
<1>13. Extends(mid, more)
  BY <1>6, <1>9, <1>10, <1>11, BlocksAdded
<1>14. Len(more) = Len(mid) + Len(new)
  BY <1>6, <1>9, <1>10, <1>11, BlocksAdded
<1>15. \A x \in DOMAIN new : /\ Len(mid) + x \in DOMAIN more
                             /\ more[Len(mid) + x] = new[x]
  <2>1. IsSeq(mid) /\ IsSeq(more)
    BY <1>6, <1>12 DEF BlocksInv
  <2> QED
    BY <1>10, <2>1, Behind
<1>16. Extends(blocks, more)
  BY <1>5, <1>13 DEF Extends
<1>17. DOMAIN new = 1 .. 3
  BY <1>7, SeqFacts
<1> QED
  BY <1>4, <1>7, <1>8, <1>12, <1>14, <1>15, <1>16, <1>17 DEF total
\* The condition is a value where the branch stands.
LEMMA ForkFits ==
  ASSUME Place(functions, blocks, insertBlock), insertBlock # 0,
         NEW condition, Fitting(condition), NEW fork, fork.args = <<condition.value>>,
         NEW code, code = Append(condition.code, fork)
  PROVE  /\ IsSeq(code) /\ code # <<>>
         /\ CodeFits(Emitted(blocks, insertBlock, code), code)
<1> DEFINE first == condition.code
           count == Len(first)
           less == Emitted(blocks, insertBlock, first)
           more == Emitted(blocks, insertBlock, code)
<1>1. insertBlock \in DOMAIN blocks /\ BlocksInv(blocks, Len(functions))
  BY PlaceFacts
<1>2. IsSeq(first) /\ CodeFits(blocks, first) /\ IsValue(condition.value, less)
  BY DEF Fitting
<1>3. count \in Nat /\ DOMAIN first = 1 .. count
  BY <1>2, SeqFacts
<1>4. IsSeq(code) /\ DOMAIN code = 1 .. count + 1
  BY <1>2, Appended
<1>5. \A k \in DOMAIN first : code[k] = first[k]
  BY <1>2, Appended
<1>6. code[count + 1] = fork
  BY <1>2, Appended
<1> HIDE DEF count
<1>7. code # <<>>
  <2>1. 1 \in DOMAIN code
    BY <1>3, <1>4
  <2> QED
    BY <2>1
<1>8. \A k \in DOMAIN first : k \in DOMAIN code
  BY <1>3, <1>4
<1> HIDE DEF first
<1>9. Extends(less, more)
  BY <1>1, <1>2, <1>4, <1>5, <1>7, <1>8, EmittedMore
<1>10. Extends(blocks, more)
  <2>1. more = Emitted(blocks, insertBlock, code)
    OBVIOUS
  <2> HIDE DEF more
  <2> QED
    BY <1>1, <1>4, <2>1, EmittedFacts
<1> HIDE DEF less, more
<1>11. IsValue(condition.value, more)
  BY <1>2, <1>9, ValueKept
<1>12. CodeFits(more, first)
  BY <1>2, <1>10, ValuesKept
<1>13. ASSUME NEW i \in DOMAIN code, NEW k \in DOMAIN code[i].args
       PROVE  IsValue(code[i].args[k], more)
  <2>1. CASE i = count + 1
    <3>1. code[i].args = <<condition.value>>
      BY <1>6, <2>1
    <3>2. code[i].args[k] = condition.value
      BY <1>13, <3>1
    <3> QED
      BY <1>11, <3>2
  <2>2. CASE i # count + 1
    <3>1. i \in DOMAIN first
      BY <1>3, <1>4, <2>2
    <3>2. code[i] = first[i]
      BY <1>5, <3>1
    <3> QED
      BY <1>12, <1>13, <3>1, <3>2 DEF CodeFits
  <2> QED
    BY <2>1, <2>2
<1> QED
  BY <1>4, <1>7, <1>13 DEF CodeFits, more

BranchStep(j, second, third) ==
  \/ Plain(j) /\ j.do \notin Jumps
  \/ j.do = "else" /\ j.goOnIn = second /\ tree[j.node].kind = "IfSt"
  \/ j.do = "merge" /\ j.goOnIn = third /\ tree[j.node].kind = "IfSt"

\* The steps of a branch: the two parts, and a jump behind each.
LEMMA BranchSteps ==
  ASSUME Running, job.do = "IfSt",
         NEW first \in Nat, NEW second \in Nat, NEW third \in Nat, NEW js,
         js = <<codegen(kid(2)), Jump("else", third, second),
                codegen(kid(3)), Jump("merge", third, third)>>,
         NEW e, e = <<0, 1, 0, 1>>
  PROVE  /\ js \in Seq(Jobs(tree)) /\ js # <<>> /\ Len(js) = 4 /\ DOMAIN js = 1 .. 4
         /\ Replaces(tree, js, job)
         /\ Depths(tree, js, e, 0)
         /\ Balanced(tree, js, e, job, 1)
         /\ \A k \in DOMAIN js : BranchStep(js[k], second, third)
<1> DEFINE x == codegen(kid(2))
           y == Jump("else", third, second)
           z == codegen(kid(3))
           w == Jump("merge", third, third)
<1>1. functions # <<>> /\ here.kind = "IfSt"
  BY AtJob DEF JobFits, About, Early, here
<1>2. /\ kid(2) \in DOMAIN tree /\ tree[kid(2)].kind = "Block"
      /\ kid(3) \in DOMAIN tree /\ tree[kid(3)].kind \notin {"Root", "FnDef"}
  <2>1. CanBeGenerated(tree, job.node) /\ DOMAIN here.kids = 1 .. Len(here.kids)
    BY Here
  <2>2. Len(here.kids) = 3
    BY <1>1, AtJob DEF Running, TypeOK, WellFormed, HasParts, here
  <2>3. kid(2) \in DOMAIN tree /\ kid(3) \in DOMAIN tree
    BY <2>1, <2>2, Here
  <2>4. tree[kid(2)].kind = "Block" /\ tree[kid(3)].kind \notin {"Root", "FnDef"}
    BY <1>1, <2>1 DEF CanBeGenerated, here, kid
  <2> QED
    BY <2>3, <2>4
<1>3. /\ Plain(x) /\ Gain(tree, x) = 1 /\ DepthFits(tree, x, 0) /\ x.do = "generate"
      /\ Plain(z) /\ Gain(tree, z) = 1 /\ DepthFits(tree, z, 0) /\ z.do = "generate"
  <2>1. Plain(x) /\ Gain(tree, x) = 1 /\ DepthFits(tree, x, 0)
    BY <1>1, <1>2, StatementStep
  <2>2. Plain(z) /\ Gain(tree, z) = 1 /\ DepthFits(tree, z, 0)
    BY <1>1, <1>2, StatementStep
  <2> QED
    BY <2>1, <2>2 DEF codegen
<1>4. /\ y \in Jobs(tree) /\ y.do = "else" /\ y.goOnIn = second
      /\ w \in Jobs(tree) /\ w.do = "merge" /\ w.goOnIn = third
      /\ tree[y.node].kind = "IfSt" /\ tree[w.node].kind = "IfSt"
  BY <1>1, AtJob DEF Jump, Jobs, Jumps, here
<1> HIDE DEF x, y, z, w
<1>5. /\ Gain(tree, y) = -1 /\ DepthFits(tree, y, 1) /\ TakesResult(y)
      /\ ~LeavesResult(tree, y) /\ ~IsRoot(tree, y) /\ ~IsOf(tree, y, {"FnDef"})
  BY <1>4 DEF Gain, DepthFits, TakesResult, LeavesResult, IsRoot, IsOf, Jumps
<1>6. /\ Gain(tree, w) = 0 /\ DepthFits(tree, w, 1) /\ TakesResult(w)
      /\ ~IsRoot(tree, w) /\ ~IsOf(tree, w, {"FnDef"})
  BY <1>4 DEF Gain, DepthFits, TakesResult, IsRoot, IsOf, Jumps
<1>7. LeavesResult(tree, job) /\ Gain(tree, job) = 0
  BY DEF LeavesResult, Gain
<1>8. js = <<x, y, z, w>>
  BY DEF x, y, z, w
<1>9. js \in Seq(Jobs(tree)) /\ Len(js) = 4
  <2>1. x \in Jobs(tree) /\ z \in Jobs(tree)
    BY <1>3 DEF Plain
  <2> HIDE DEF Jobs
  <2> QED
    BY <1>4, <1>8, <2>1
<1>10. js[1] = x /\ js[2] = y /\ js[3] = z /\ js[4] = w
  BY <1>8
<1>11. DOMAIN js = 1 .. 4 /\ js # <<>>
  BY <1>9, LenProperties, EmptySeq
<1>12. e[1] = 0 /\ e[2] = 1 /\ e[3] = 0 /\ e[4] = 1 /\ e \in [1 .. 4 -> Nat]
  OBVIOUS
<1>13. \A k \in 1 .. 4 : k = 1 \/ k = 2 \/ k = 3 \/ k = 4
  OBVIOUS
<1>14. Replaces(tree, js, job)
  <2>1. ASSUME NEW k \in 1 .. 4
        PROVE  /\ ~IsRoot(tree, js[k]) /\ ~IsOf(tree, js[k], {"FnDef"})
               /\ LeavesResult(tree, js[k]) =>
                    IF k = 4 THEN LeavesResult(tree, job) ELSE TakesResult(js[k + 1])
    BY <1>3, <1>5, <1>6, <1>7, <1>10, <1>13 DEF Plain
  <2> QED
    BY <1>9, <1>11, <2>1 DEF Replaces
<1>15. Depths(tree, js, e, 0)
  <2>1. ASSUME NEW k \in 1 .. 4
        PROVE  /\ DepthFits(tree, js[k], e[k])
               /\ k + 1 \in 1 .. 4 => e[k + 1] = e[k] + Gain(tree, js[k])
    BY <1>3, <1>5, <1>6, <1>10, <1>12, <1>13
  <2> QED
    BY <1>11, <1>12, <2>1 DEF Depths
<1>16. Balanced(tree, js, e, job, 1)
  BY <1>6, <1>7, <1>9, <1>10, <1>12 DEF Balanced
<1>17. ASSUME NEW k \in 1 .. 4
       PROVE  BranchStep(js[k], second, third)
  BY <1>3, <1>4, <1>10, <1>13 DEF BranchStep, Jumps
<1> QED
  BY <1>9, <1>11, <1>14, <1>15, <1>16, <1>17

LEMMA BranchKeeps ==
  ASSUME TypeOK, Generable, CodeInv, Branch
  PROVE  CodeInv'
<1> DEFINE zero == Zero(top.type)
           condition == Build("NE", "i1", top, zero)
           fork == Instruction("condbr", "i1", <<condition.value>>,
                               <<newBlock(1), newBlock(2)>>)
           code == Append(condition.code, fork)
           first == Len(blocks) + 1
           second == Len(blocks) + 2
           third == Len(blocks) + 3
           js == <<codegen(kid(2)), Jump("else", third, second),
                   codegen(kid(3)), Jump("merge", third, third)>>
           e == <<0, 1, 0, 1>>
<1>1. /\ Running /\ tree' = tree /\ job.do = "IfSt"
      /\ Branched(code, blocks') /\ insertBlock' = first
      /\ values' = SubSeq(values, 1, Len(values) - 1)
      /\ Then(js) /\ UNCHANGED <<functions, allocated>>
  BY Doing DEF Branch, Branched, newBlock
<1>2. /\ Place(functions, blocks, insertBlock) /\ ValuesInv(blocks, values)
      /\ allocated \in [DOMAIN tree -> 0 .. Len(functions)]
  BY DEF CodeInv
<1>3. Len(values) = 1 /\ ~TakesResult(job)
  BY <1>1, AtJob DEF DepthFits, TakesResult, Jumps
<1>4. functions # <<>> /\ insertBlock # 0
  BY <1>1, <1>2, AtJob, PlaceFacts DEF JobFits, Early
<1>5. IsValue(top, blocks) /\ top.type \in ValueTypes /\ blocks # <<>>
  BY <1>1, <1>2, <1>3, <1>4, TopFits, PlaceFacts
<1>6. IsValue(zero, blocks)
  BY <1>5, ConstantFits DEF Zero
<1>7. Fitting(condition)
  <2> HIDE DEF zero
  <2>1. condition = Build("NE", "i1", top, zero)
    OBVIOUS
  <2>2. "i1" \in ValueTypes
    BY DEF ValueTypes
  <2> HIDE DEF condition
  <2> QED
    BY <1>2, <1>5, <1>6, <2>1, <2>2, BuildFits
<1> HIDE DEF condition
<1>8. fork.args = <<condition.value>>
  BY DEF Instruction
<1> HIDE DEF fork
<1>9. /\ IsSeq(code) /\ code # <<>>
      /\ CodeFits(Emitted(blocks, insertBlock, code), code)
  BY <1>2, <1>4, <1>7, <1>8, ForkFits
<1> HIDE DEF code
<1>10. BlocksInv(blocks', Len(functions)) /\ Extends(blocks, blocks')
  BY <1>1, <1>2, <1>4, <1>9, BranchBlocks
<1>11. \A k \in 1 .. 3 : /\ Len(blocks) + k \in DOMAIN blocks'
                         /\ blocks'[Len(blocks) + k].fn = Len(functions)
  BY <1>1, <1>2, <1>4, <1>9, BranchBlocks
<1>12. /\ Len(blocks) \in Nat /\ first \in Nat \ {0} /\ second \in Nat /\ third \in Nat
       /\ first \in DOMAIN blocks' /\ blocks'[first].fn = Len(functions)
       /\ second \in DOMAIN blocks' /\ blocks'[second].fn = Len(functions)
       /\ third \in DOMAIN blocks' /\ blocks'[third].fn = Len(functions)
  <2>1. Len(blocks) \in Nat
    BY <1>2, PlaceFacts
  <2> QED
    BY <1>11, <2>1
<1> HIDE DEF first, second, third
<1>13. Place(functions', blocks', insertBlock')
  <2>1. first \in 0 .. Len(blocks') /\ first # 0
    <3>1. IsSeq(blocks')
      BY <1>10 DEF BlocksInv
    <3> QED
      BY <1>12, <3>1, SeqFacts
  <2> QED
    BY <1>1, <1>2, <1>4, <1>10, <1>12, <2>1 DEF Place
<1>14. ValuesInv(blocks', values') /\ Len(values') = 0 /\ DOMAIN values' = {}
  <2>1. ValuesInv(blocks, values') /\ Len(values') = 0 /\ DOMAIN values' = {}
    BY <1>1, <1>2, <1>3, OneDropped
  <2> QED
    BY <1>2, <1>10, <2>1, ValuesThere
<1>15. js \in Seq(Jobs(tree)) /\ js # <<>> /\ Replaces(tree, js, job)
  BY <1>1, <1>12, BranchSteps
<1>16. Depths(tree, js, e, 0)
  BY <1>1, <1>12, BranchSteps
<1>17. Balanced(tree, js, e, job, 1)
  BY <1>1, <1>12, BranchSteps
<1>18. \A k \in DOMAIN js : BranchStep(js[k], second, third)
  BY <1>1, <1>12, BranchSteps
<1> HIDE DEF js, e
<1>19. \A k \in DOMAIN js : JobFits(tree, functions', blocks', js[k])
  <2>1. ASSUME NEW k \in DOMAIN js PROVE JobFits(tree, functions', blocks', js[k])
    <3>1. CASE Plain(js[k])
      BY <1>1, <1>10, <3>1, JobStays DEF Plain
    <3>2. CASE js[k].do = "else" /\ js[k].goOnIn = second /\ tree[js[k].node].kind = "IfSt"
      BY <1>1, <1>4, <1>12, <3>2 DEF JobFits, About, Jumps
    <3>3. CASE js[k].do = "merge" /\ js[k].goOnIn = third /\ tree[js[k].node].kind = "IfSt"
      BY <1>1, <1>4, <1>12, <3>3 DEF JobFits, About, Jumps
    <3> QED
      BY <1>18, <3>1, <3>2, <3>3 DEF BranchStep
  <2> QED
    BY <2>1
<1>20. \A k \in DOMAIN todo : k > 1 => JobFits(tree, functions', blocks', todo[k])
  BY <1>1, <1>10, JobsStay
<1>21. allocated' \in [DOMAIN tree -> 0 .. Len(functions')]
  BY <1>1, <1>2
<1>22. Depths(tree, js, e, Len(values')) /\ Balanced(tree, js, e, job, Len(values))
  BY <1>3, <1>14, <1>16, <1>17
<1>23. \A k \in DOMAIN values' : Operand(values'[k])
  BY <1>14
<1>24. Running /\ tree' = tree /\ Then(js)
  BY <1>1
<1>25. ValuesInv(blocks', values')
  BY <1>14
<1> QED
  BY <1>13, <1>15, <1>19, <1>20, <1>21, <1>22, <1>23, <1>24, <1>25, GoesOnWith
-----------------------------------------------------------------------------
(* The start of a function.                                                  *)

EntryParts(params, types, code) ==
  /\ params = SubSeq(here.kids, 1, Len(here.kids) - 1)
  /\ types = [k \in DOMAIN params |-> toLLVMType(tree[params[k]].typeName)]
  /\ code = [k \in DOMAIN params |-> store(Argument(types[k], k), params[k])]

\* Its type is a list of the types of the parameters, and its entry block stores
\* the arguments.
LEMMA Entry ==
  ASSUME Running, here.kind = "FnDef", NEW params, NEW types, NEW code,
         EntryParts(params, types, code), NEW bs
  PROVE  /\ types \in Seq({"i32", "f32"})
         /\ IsSeq(code) /\ CodeFits(bs, code)
         /\ Len(here.kids) \in DOMAIN here.kids
<1> DEFINE whole == Len(here.kids)
           count == whole - 1
<1>1. whole \in Nat \ {0} /\ DOMAIN here.kids = 1 .. whole /\ IsSeq(here.kids)
  <2>1. /\ here.kids \in Seq(Nat) /\ Len(here.kids) \in Nat
        /\ DOMAIN here.kids = 1 .. Len(here.kids)
    BY Here
  <2>2. Len(here.kids) > 0
    BY AtJob DEF Running, TypeOK, WellFormed, HasParts, here
  <2> QED
    BY <2>1, <2>2, IsSeqOf
<1>2. count \in 0 .. whole /\ count \in Nat
  <2> HIDE DEF whole
  <2> QED
    BY <1>1
<1>3. DOMAIN params = 1 .. count
  <2> DEFINE kids == here.kids
  <2>1. IsSeq(kids) /\ count \in 0 .. Len(kids) /\ params = SubSeq(kids, 1, count)
    BY <1>1, <1>2 DEF EntryParts
  <2> HIDE DEF kids, count
  <2> QED
    BY <2>1, FirstOf
<1> HIDE DEF count
<1>4. DOMAIN types = 1 .. count /\ types = [k \in 1 .. count |-> types[k]]
  BY <1>3 DEF EntryParts
<1>5. \A k \in 1 .. count : types[k] \in {"i32", "f32"}
  BY <1>3, LLVMTypes DEF EntryParts
<1>6. types \in Seq({"i32", "f32"})
  <2>1. IsSeq(types)
    BY <1>2, <1>4, SeqFromFunction
  <2>2. DOMAIN types = 1 .. count
    BY <1>4
  <2> QED
    BY <1>5, <2>1, <2>2, SeqOf
<1>7. DOMAIN code = 1 .. count /\ code = [k \in 1 .. count |-> code[k]]
  BY <1>3 DEF EntryParts
<1>8. IsSeq(code)
  BY <1>2, <1>7, SeqFromFunction
<1>9. ASSUME NEW i \in DOMAIN code, NEW k \in DOMAIN code[i].args
      PROVE  IsValue(code[i].args[k], bs)
  <2> DEFINE v == Argument(types[i], i)
             args == code[i].args
  <2>1. i \in 1 .. count
    BY <1>7
  <2>2. args = <<v>>
    <3>1. code[i] = store(v, params[i])
      BY <1>3, <2>1 DEF EntryParts
    <3> QED
      BY <3>1 DEF store, Instruction
  <2>3. types[i] \in ValueTypes /\ i \in Nat
    BY <1>2, <1>5, <2>1 DEF ValueTypes
  <2>4. IsValue(v, bs)
    BY <2>3 DEF Argument, IsValue
  <2>5. k \in DOMAIN args
    BY <1>9
  <2>6. args[k] = v
    <3> HIDE DEF v, args
    <3> QED
      BY <2>2, <2>5
  <2> QED
    BY <2>4, <2>6
<1>10. whole \in DOMAIN here.kids
  <2> HIDE DEF whole
  <2> QED
    BY <1>1
<1> QED
  BY <1>6, <1>8, <1>9, <1>10 DEF CodeFits

AddsFunction(f, b) ==
  /\ functions' = Append(functions, f)
  /\ blocks' = Append(blocks, b)

\* The function is the last one, with a block of its own.
LEMMA FunctionBegins ==
  ASSUME Place(functions, blocks, insertBlock),
         NEW f \in [name : Names, params : Seq({"i32", "f32"}), type : {"i32", "f32"}],
         NEW b, b = [fn |-> Len(functions) + 1, code |-> b.code],
         IsSeq(b.code), CodeFits(blocks', b.code), AddsFunction(f, b)
  PROVE  /\ Place(functions', blocks', Len(blocks) + 1)
         /\ Extends(blocks, blocks') /\ blocks' # <<>>
         /\ Len(functions') = Len(functions) + 1 /\ functions' # <<>>
         /\ \A g \in DOMAIN functions :
              g \in DOMAIN functions' /\ functions'[g] = functions[g]
<1> DEFINE total == Len(functions)
           was == Len(blocks)
           sum == total + 1
           new == <<b>>
           fs == functions'
           more == blocks'
<1>1. /\ total \in Nat /\ was \in Nat /\ BlocksInv(blocks, total)
      /\ DOMAIN functions = 1 .. total
  BY PlaceFacts
<1>2. sum \in Nat /\ total <= sum /\ sum \in 1 .. sum
  <2> HIDE DEF total
  <2> QED
    BY <1>1
<1>3. /\ fs \in FunctionList /\ Len(fs) = sum /\ fs # <<>>
      /\ \A g \in DOMAIN functions : g \in DOMAIN fs /\ fs[g] = functions[g]
  <2> DEFINE F == [name : Names, params : Seq({"i32", "f32"}), type : {"i32", "f32"}]
  <2>1. functions \in Seq(F) /\ f \in F /\ fs = Append(functions, f)
    BY DEF Place, FunctionList, AddsFunction
  <2>2. FunctionList = Seq(F)
    BY DEF FunctionList
  <2> HIDE DEF F, fs
  <2>3. fs \in Seq(F) /\ Len(fs) = total + 1
    BY <2>1, AppendProperties
  <2>4. \A g \in 1 .. total : fs[g] = functions[g]
    BY <2>1, AppendProperties
  <2>5. DOMAIN fs = 1 .. total + 1
    BY <2>3, LenProperties
  <2> HIDE DEF total
  <2>6. fs # <<>>
    BY <1>1, <2>3, EmptySeq
  <2>7. \A g \in 1 .. total : g \in 1 .. total + 1
    BY <1>1
  <2> QED
    BY <1>1, <2>2, <2>3, <2>4, <2>5, <2>6, <2>7
<1>4. IsSeq(new) /\ Len(new) = 1 /\ DOMAIN new = {1} /\ new[1] = b
  <2>1. new \in Seq({b}) /\ Len(new) = 1 /\ new[1] = b
    OBVIOUS
  <2>2. DOMAIN new = {1}
    OBVIOUS
  <2> HIDE DEF new
  <2> QED
    BY <2>1, <2>2, IsSeqOf
<1>5. more = blocks \o new
  <2> DEFINE R == {blocks[k] : k \in DOMAIN blocks} \cup {b}
  <2>1. IsSeq(blocks)
    BY <1>1 DEF BlocksInv
  <2>2. blocks \in Seq(R) /\ b \in R
    BY <2>1, SeqOf
  <2> HIDE DEF R
  <2> QED
    BY <2>2, AppendIsConcat DEF AddsFunction
<1>6. \A x \in DOMAIN new : /\ new[x] = [fn |-> new[x].fn, code |-> new[x].code]
                            /\ new[x].fn \in 1 .. sum
                            /\ IsSeq(new[x].code)
                            /\ CodeFits(more, new[x].code)
  <2>1. b = [fn |-> b.fn, code |-> b.code] /\ b.fn = sum
    OBVIOUS
  <2> HIDE DEF new, more, sum
  <2> QED
    BY <1>2, <1>4, <2>1 DEF more
<1>7. b.fn = sum
  OBVIOUS
<1>8. IsSeq(new) /\ 1 \in DOMAIN new
  BY <1>4
<1> HIDE DEF new, more, sum, fs
<1>9. BlocksInv(more, sum)
  BY <1>1, <1>2, <1>5, <1>6, <1>8, BlocksAdded
<1>10. Extends(blocks, more)
  <2>1. IsSeq(blocks)
    BY <1>1 DEF BlocksInv
  <2> QED
    BY <1>5, <1>8, <2>1, BehindExtends
<1>11. Len(more) = Len(blocks) + Len(new)
  <2>1. IsSeq(blocks)
    BY <1>1 DEF BlocksInv
  <2> QED
    BY <1>5, <1>8, <2>1, Concatenated
<1>12. was + 1 \in DOMAIN more /\ more[was + 1] = new[1]
  <2>1. IsSeq(blocks)
    BY <1>1 DEF BlocksInv
  <2> QED
    BY <1>5, <1>8, <2>1, Behind
<1>13. was + 1 \in 0 .. Len(more) /\ was + 1 # 0 /\ more # <<>> /\ more[was + 1].fn = Len(fs)
  <2> HIDE DEF was
  <2> QED
    BY <1>1, <1>3, <1>4, <1>7, <1>11, <1>12
<1>14. Place(fs, more, was + 1)
  BY <1>3, <1>9, <1>13 DEF Place
<1> QED
  BY <1>3, <1>10, <1>13, <1>14 DEF fs, more, sum
\* The body is generated into the entry block.
LEMMA FnDefKeeps ==
  ASSUME TypeOK, Generable, CodeInv, GenerateFnDef
  PROVE  CodeInv'
<1> DEFINE fn == Len(functions) + 1
           params == SubSeq(here.kids, 1, Len(here.kids) - 1)
           types == [k \in DOMAIN params |-> toLLVMType(tree[params[k]].typeName)]
           code == [k \in DOMAIN params |-> store(Argument(types[k], k), params[k])]
           f == [name |-> here.name, params |-> types, type |-> toLLVMType(here.typeName)]
           b == [fn |-> fn, code |-> code]
           m == kid(Len(here.kids))
           x == codegen(m)
           js == <<x>>
           e == <<0>>
<1>1. /\ Running /\ tree' = tree /\ job.do = "generate" /\ here.kind = "FnDef"
      /\ AddsFunction(f, b) /\ insertBlock' = Len(blocks) + 1
      /\ allocated' = [d \in DOMAIN tree |->
           IF \E k \in DOMAIN params : params[k] = d THEN fn ELSE allocated[d]]
      /\ Then(js) /\ UNCHANGED values
  BY Doing DEF GenerateFnDef, Generate, AddsFunction, entryBlock, newBlock
<1>2. /\ Place(functions, blocks, insertBlock) /\ ValuesInv(blocks, values)
      /\ allocated \in [DOMAIN tree -> 0 .. Len(functions)]
  BY DEF CodeInv
<1>3. /\ types \in Seq({"i32", "f32"})
      /\ IsSeq(code) /\ CodeFits(blocks', code)
      /\ Len(here.kids) \in DOMAIN here.kids
  <2>1. EntryParts(params, types, code)
    BY DEF EntryParts
  <2> HIDE DEF params, types, code
  <2>2. types \in Seq({"i32", "f32"})
    BY <1>1, <2>1, Entry
  <2>3. IsSeq(code) /\ CodeFits(blocks', code)
    BY <1>1, <2>1, Entry
  <2>4. Len(here.kids) \in DOMAIN here.kids
    BY <1>1, <2>1, Entry
  <2> QED
    BY <2>2, <2>3, <2>4
<1>4. /\ fn \in Nat /\ \A k \in 0 .. Len(functions) : k \in 0 .. fn
      /\ fn \in 0 .. fn
  <2> DEFINE total == Len(functions)
  <2>1. total \in Nat
    BY <1>2, PlaceFacts
  <2> HIDE DEF total
  <2>2. total + 1 \in Nat /\ total + 1 \in 0 .. total + 1
        /\ \A k \in 0 .. total : k \in 0 .. total + 1
    BY <2>1
  <2> QED
    BY <2>2 DEF total
<1>5. allocated' \in [DOMAIN tree -> 0 .. fn]
  <2> HIDE DEF fn, params
  <2> QED
    BY <1>1, <1>2, <1>4
<1>6. f \in [name : Names, params : Seq({"i32", "f32"}), type : {"i32", "f32"}]
  <2>1. here.name \in Names
    BY <1>1, Here DEF TreeNode
  <2> HIDE DEF types
  <2> QED
    BY <1>3, <2>1, LLVMTypes
<1>7. b = [fn |-> Len(functions) + 1, code |-> b.code] /\ b.code = code
  OBVIOUS
<1>8. m \in DOMAIN tree /\ tree[m].kind = "Block"
  <2>1. m \in DOMAIN tree /\ CanBeGenerated(tree, job.node) /\ Len(here.kids) \in Nat
    BY <1>1, <1>3, Here
  <2>2. tree[m].kind = "Block"
    <3> DEFINE last == Len(here.kids)
    <3>1. last \in last .. last
      BY <2>1
    <3>2. \A k \in last .. last : tree[here.kids[k]].kind \in {"Block"}
      BY <1>1, <2>1 DEF CanBeGenerated, here
    <3> HIDE DEF last
    <3>3. tree[here.kids[last]].kind = "Block"
      BY <3>1, <3>2
    <3> QED
      BY <3>3 DEF kid, last
  <2> QED
    BY <2>1, <2>2
<1>9. IsSeq(b.code) /\ CodeFits(blocks', b.code)
  BY <1>3, <1>7
<1> HIDE DEF f, b, code, types, params, m
<1>10. /\ Place(functions', blocks', Len(blocks) + 1)
       /\ Extends(blocks, blocks') /\ blocks' # <<>>
  BY <1>1, <1>2, <1>6, <1>7, <1>9, FunctionBegins
<1>11. Len(functions') = Len(functions) + 1 /\ functions' # <<>>
  BY <1>1, <1>2, <1>6, <1>7, <1>9, FunctionBegins
<1>12. \A g \in DOMAIN functions :
         g \in DOMAIN functions' /\ functions'[g] = functions[g]
  BY <1>1, <1>2, <1>6, <1>7, <1>9, FunctionBegins
<1>13. Place(functions', blocks', insertBlock')
  BY <1>1, <1>10
<1>14. allocated' \in [DOMAIN tree -> 0 .. Len(functions')]
  BY <1>5, <1>11
<1>15. ValuesInv(blocks', values')
  BY <1>1, <1>2, <1>10, ValuesStay
<1>16. Len(values) = 0 /\ LeavesResult(tree, job) /\ Gain(tree, job) = 1
  <2>1. here.kind \notin Proper \cup {"Root"}
    BY <1>1 DEF Proper, ExpressionKinds, Literals, Operations
  <2> QED
    BY <1>1, <2>1, AtJob DEF DepthFits, LeavesResult, Gain, here
<1>17. \A k \in DOMAIN values' : Operand(values'[k])
  BY <1>1, <1>16, AtJob
<1>18. /\ x \in Jobs(tree) /\ x.do = "generate" /\ ~IsRoot(tree, x)
       /\ ~IsOf(tree, x, {"FnDef"}) /\ LeavesResult(tree, x) /\ Gain(tree, x) = 1
       /\ DepthFits(tree, x, 0)
  <2>1. x.do = "generate" /\ x.node = m /\ x \in Jobs(tree)
    BY <1>8 DEF codegen, Jobs
  <2>2. ~IsRoot(tree, x) /\ ~IsOf(tree, x, {"FnDef"})
    BY <1>8, <2>1 DEF IsRoot, IsOf
  <2>3. LeavesResult(tree, x)
    BY <1>8, <2>1 DEF LeavesResult, Proper, ExpressionKinds, Literals, Operations
  <2>4. Gain(tree, x) = 1 /\ DepthFits(tree, x, 0)
    BY <1>8, <2>1 DEF Gain, DepthFits, Jumps
  <2> QED
    BY <2>1, <2>2, <2>3, <2>4
<1> HIDE DEF x
<1>19. /\ js \in Seq(Jobs(tree)) /\ js # <<>> /\ Len(js) = 1 /\ DOMAIN js = 1 .. 1
       /\ js[1] = x
  <2>1. x \in Jobs(tree)
    BY <1>18
  <2> HIDE DEF Jobs
  <2> QED
    BY <2>1
<1> HIDE DEF js
<1>20. Replaces(tree, js, job)
  BY <1>16, <1>18, <1>19 DEF Replaces
<1>21. Depths(tree, js, e, 0) /\ Balanced(tree, js, e, job, 0)
  <2>1. e \in [1 .. 1 -> Nat] /\ e[1] = 0
    OBVIOUS
  <2> HIDE DEF e
  <2>2. Depths(tree, js, e, 0)
    BY <1>18, <1>19, <2>1 DEF Depths
  <2>3. Balanced(tree, js, e, job, 0)
    BY <1>16, <1>18, <1>19, <2>1 DEF Balanced
  <2> QED
    BY <2>2, <2>3
<1> HIDE DEF e
<1>22. \A k \in DOMAIN js : JobFits(tree, functions', blocks', js[k])
  BY <1>11, <1>18, <1>19 DEF JobFits, About, Jumps
<1>23. ASSUME NEW k \in DOMAIN todo, k > 1
       PROVE  JobFits(tree, functions', blocks', todo[k])
  <2>1. JobFits(tree, functions, blocks, todo[k])
    BY <1>1 DEF Running, CodeInv, Generating, TodoInv
  <2>2. todo[k].do \notin Jumps
    <3>1. Linked(tree, todo) /\ 1 \in DOMAIN todo /\ IsOf(tree, todo[1], {"FnDef"})
      BY <1>1, AtJob DEF IsOf, here
    <3> QED
      BY <1>23, <3>1 DEF Linked
  <2> QED
    BY <1>11, <1>12, <2>1, <2>2 DEF JobFits
<1>24. Depths(tree, js, e, Len(values')) /\ Balanced(tree, js, e, job, Len(values))
  BY <1>1, <1>16, <1>21
<1>25. Running /\ tree' = tree /\ Then(js)
  BY <1>1
<1> QED
  BY <1>13, <1>14, <1>15, <1>17, <1>19, <1>20, <1>22, <1>23, <1>24, <1>25, GoesOnWith
-----------------------------------------------------------------------------
(* Where it ends and begins.                                                 *)

LEMMA StopKeeps ==
  ASSUME CodeInv, tree' = tree, NEW how, Stop(how), how # "running",
         how \in {"generated", "no_main"} => values = <<>> /\ Len(todo) = 1
  PROVE  CodeInv'
<1>1. /\ outcome' = how
      /\ UNCHANGED <<todo, values, functions, blocks, insertBlock, allocated>>
  BY DEF Stop, generated
<1>2. /\ Place(functions', blocks', insertBlock') /\ ValuesInv(blocks', values')
      /\ allocated' \in [DOMAIN tree' -> 0 .. Len(functions')]
  BY <1>1 DEF CodeInv
<1>3. outcome' \in {"generated", "no_main"} => values' = <<>> /\ Len(todo') = 1
  BY <1>1
<1> QED
  BY <1>1, <1>2, <1>3 DEF CodeInv

LEMMA FailureKeeps ==
  ASSUME TypeOK, Generable, CodeInv,
         \/ fatalCodegenError \/ AssertSymbol \/ RefuseUnallocated \/ RefuseCallee
         \/ CombineOthers \/ CreateOtherCall \/ DeclareNowhere
  PROVE  CodeInv'
<1>1. PICK how \in {"codegen_error", "assert_failed", "undefined", "crashed"} :
        Stop(how) /\ tree' = tree
  BY DEF fatalCodegenError, AssertSymbol, RefuseUnallocated, RefuseCallee,
         CombineOthers, CreateOtherCall, DeclareNowhere, Generate, Do, vars
<1> QED
  BY <1>1, StopKeeps

\* The root is the last step, and has used up the values.
LEMMA EndRootKeeps ==
  ASSUME TypeOK, Generable, CodeInv, EndRoot
  PROVE  CodeInv'
<1>1. Running /\ tree' = tree /\ job.do = "Root"
  BY Doing DEF EndRoot
<1>2. PICK how \in {"generated", "no_main"} : Stop(how)
  BY DEF EndRoot
<1>3. values = <<>>
  <2>1. Len(values) = 0
    BY <1>1, AtJob DEF DepthFits
  <2> QED
    BY <2>1, EmptySeq DEF CodeInv, ValuesInv, IsSeq
<1>4. Len(todo) = 1
  <2>1. Linked(tree, todo) /\ 1 \in DOMAIN todo /\ IsRoot(tree, todo[1])
    BY <1>1, AtJob DEF IsRoot
  <2> QED
    BY <2>1 DEF Linked
<1> QED
  BY <1>1, <1>2, <1>3, <1>4, StopKeeps

\* Every step of codegen() keeps the invariant.
LEMMA CodegenKeeps ==
  ASSUME TypeOK, Generable, SymbolsPlaced, CodeInv, CodegenNext
  PROVE  CodeInv'
<1>1. CASE \/ fatalCodegenError \/ AssertSymbol \/ RefuseUnallocated \/ RefuseCallee
           \/ CombineOthers \/ CreateOtherCall \/ DeclareNowhere
  BY <1>1, FailureKeeps
<1>2. CASE GenerateLiteral
  BY <1>2, LiteralKeeps
<1>3. CASE GenerateEmpty
  BY <1>3, EmptyKeeps
<1>4. CASE GenerateVarExpr
  BY <1>4, VarExprKeeps
<1>5. CASE GenerateChain
  BY <1>5, ChainKeeps
<1>6. CASE Combine
  BY <1>6, CombineKeeps
<1>7. CASE GeneratePrefixExpr
  BY <1>7, PrefixKeeps
<1>8. CASE Negate
  BY <1>8, NegateKeeps
<1>9. CASE Minus
  BY <1>9, MinusKeeps
<1>10. CASE GenerateFnCallExpr
  BY <1>10, FnCallKeeps
<1>11. CASE CreateCall
  BY <1>11, CallKeeps
<1>12. CASE GenerateOperand
  BY <1>12, OperandKeeps
<1>13. CASE Declare
  BY <1>13, DeclareKeeps
<1>14. CASE CreateStore
  BY <1>14, StoreKeeps
<1>15. CASE CreateRet
  BY <1>15, RetKeeps
<1>16. CASE Branch
  BY <1>16, BranchKeeps
<1>17. CASE Merge
  BY <1>17, MergeKeeps
<1>18. CASE GenerateEach
  <2>1. here.kind = "Block" \/ here.kind = "Root"
    BY <1>18 DEF GenerateEach, Generate
  <2> QED
    BY <1>18, <2>1, BlockKeeps, RootKeeps
<1>19. CASE Statement
  BY <1>19, StatementKeeps
<1>20. CASE EndBlock
  BY <1>20, EndBlockKeeps
<1>21. CASE GenerateFnDef
  BY <1>21, FnDefKeeps
<1>22. CASE EndRoot
  BY <1>22, EndRootKeeps
<1> QED
  BY <1>1, <1>2, <1>3, <1>4, <1>5, <1>6, <1>7, <1>8, <1>9, <1>10, <1>11, <1>12,
     <1>13, <1>14, <1>15, <1>16, <1>17, <1>18, <1>19, <1>20, <1>21, <1>22
     DEF CodegenNext

\* What holds from the start to the end.
GenerationInv == Generable /\ SymbolsPlaced /\ CodeInv

LEMMA GenerationBegins ==
  ASSUME TypeOK, CodegenInit
  PROVE  GenerationInv
<1> DEFINE j == [do |-> "generate", node |-> 1]
           s == <<j>>
           d == <<0>>
<1>1. tree \in Trees /\ todo = s /\ values = <<>> /\ functions = <<>> /\ blocks = <<>>
      /\ insertBlock = 0 /\ allocated = [m \in DOMAIN tree |-> 0] /\ outcome = "running"
  BY DEF CodegenInit, Init
<1>2. Generable
  BY <1>1, GenerationAssumption DEF Generable
<1>3. SymbolsPlaced
  BY DEF CodegenInit, Init, SymbolsPlaced, Placed, ScopeObject
<1>4. 1 \in DOMAIN tree /\ tree[1].kind = "Root"
  <2>1. tree \in Seq(TreeNode) /\ Len(tree) > 0
    BY DEF TypeOK, WellFormed
  <2>2. 1 \in DOMAIN tree
    BY <2>1, LenProperties
  <2> QED
    BY <2>2 DEF TypeOK, WellFormed
<1>5. j \in Jobs(tree) /\ j.do = "generate" /\ j.node = 1
  BY <1>4 DEF Jobs
<1> HIDE DEF j
<1>6. s \in Seq(Jobs(tree)) /\ Len(s) = 1 /\ DOMAIN s = 1 .. 1 /\ s[1] = j /\ s # <<>>
  <2> HIDE DEF Jobs
  <2> QED
    BY <1>5
<1> HIDE DEF s
<1>7. JobFits(tree, <<>>, <<>>, j)
  BY <1>4, <1>5 DEF JobFits, About, Early, Jumps
<1>8. Linked(tree, s)
  <2>1. ~LeavesResult(tree, j) /\ ~IsOf(tree, j, {"FnDef"})
    BY <1>4, <1>5 DEF LeavesResult, IsOf
  <2> QED
    BY <1>6, <2>1 DEF Linked
<1>9. Depths(tree, s, d, 0)
  <2>1. d \in [1 .. 1 -> Nat] /\ d[1] = 0
    OBVIOUS
  <2>2. DepthFits(tree, j, 0)
    BY <1>4, <1>5 DEF DepthFits, Jumps
  <2> HIDE DEF d
  <2> QED
    BY <1>6, <2>1, <2>2 DEF Depths
<1>10. TodoInv(tree, <<>>, <<>>, s, 0)
  BY <1>6, <1>7, <1>8, <1>9 DEF TodoInv
<1>11. Len(<<>>) = 0 /\ DOMAIN <<>> = {} /\ IsSeq(<<>>)
  <2>1. IsSeq(<<>>)
    BY EmptySeq, IsSeqOf
  <2> QED
    BY <2>1
<1>12. ValuesInv(<<>>, <<>>)
  BY <1>11 DEF ValuesInv
<1>13. Place(<<>>, <<>>, 0)
  <2>1. <<>> \in FunctionList
    BY EmptySeq DEF FunctionList
  <2>2. BlocksInv(<<>>, 0)
    BY <1>11 DEF BlocksInv
  <2> QED
    BY <1>11, <2>1, <2>2 DEF Place
<1>14. Generating(tree, <<>>, <<>>, s, <<>>)
  BY <1>10, <1>11 DEF Generating
<1>15. CodeInv
  BY <1>1, <1>11, <1>12, <1>13, <1>14 DEF CodeInv
<1> QED
  BY <1>2, <1>3, <1>15 DEF GenerationInv

LEMMA GenerationStep ==
  ASSUME TypeOK, GenerationInv, [BackendNext]_backendVars
  PROVE  GenerationInv'
<1>1. CASE Next /\ UNCHANGED <<dotVars, codegenVars>>
  <2>1. tree' = tree
    BY <1>1, NextKeepsTree
  <2>2. SymbolsPlaced'
    BY <1>1, PlacedStep DEF GenerationInv
  <2>3. CodeInv'
    BY <1>1, <2>1 DEF GenerationInv, CodeInv, codegenVars, generated
  <2> QED
    BY <2>1, <2>2, <2>3 DEF GenerationInv, Generable
<1>2. CASE CodegenNext
  <2>1. UNCHANGED vars
    BY <1>2, CodegenKeepsTree
  <2>2. CodeInv'
    BY <1>2, CodegenKeeps DEF GenerationInv
  <2> QED
    BY <2>1, <2>2 DEF GenerationInv, Generable, SymbolsPlaced, Placed, vars
<1>3. CASE UNCHANGED <<vars, codegenVars>>
  BY <1>3 DEF GenerationInv, Generable, SymbolsPlaced, Placed, CodeInv, vars,
              codegenVars, generated
<1>4. GenerateNode \/ GenerateEdge => UNCHANGED vars
  BY DEF GenerateNode, GenerateEdge
<1> QED
  BY <1>1, <1>2, <1>3, <1>4 DEF BackendNext, backendVars

\* The values in use, the functions and the blocks are those of a module of LLVM.
LEMMA CodeTypes ==
  ASSUME TypeOK, CodeInv
  PROVE  BackendTypeOK
<1>1. Place(functions, blocks, insertBlock) /\ ValuesInv(blocks, values)
  BY DEF CodeInv
<1>2. insertBlock = 0 <=> functions = <<>>
  BY <1>1, PlaceFacts
<1>3. \A b \in DOMAIN blocks : blocks[b].fn \in DOMAIN functions
  BY <1>1, PlaceFacts DEF BlocksInv
<1>4. \A b \in DOMAIN blocks : CodeFits(blocks, blocks[b].code)
  BY <1>1 DEF Place, BlocksInv
<1>5. \A i \in DOMAIN values : IsValue(values[i], blocks)
  BY <1>1 DEF ValuesInv
<1>6. insertBlock \in 0 .. Len(blocks)
  BY <1>1 DEF Place
<1>7. insertBlock # 0 => blocks[insertBlock].fn = Len(functions)
  BY <1>1 DEF Place
<1>8. allocated \in [DOMAIN tree -> 0 .. Len(functions)]
  BY DEF CodeInv
<1>9. outcome \in {"generated", "no_main"} => values = <<>> /\ Len(todo) = 1
  BY DEF CodeInv
<1> QED
  BY <1>2, <1>3, <1>4, <1>5, <1>6, <1>7, <1>8, <1>9 DEF BackendTypeOK, CodeFits

\* While code is generated for any tree, every value has its type, a register is
\* the result of an instruction that is there, instructions go to a block of the
\* last function, and in the end no value is left (codegen() in codegen.cpp).
THEOREM BackendTypeCorrect == BackendSpec => []BackendTypeOK
<1>1. TypeOK /\ BackendInit => GenerationInv
  BY GenerationBegins DEF BackendInit
<1>2. TypeOK /\ GenerationInv /\ [BackendNext]_backendVars => GenerationInv'
  BY GenerationStep
<1>3. TypeOK /\ GenerationInv => BackendTypeOK
  BY CodeTypes DEF GenerationInv
<1>4. BackendSpec => []TypeOK
  BY TreeStays
<1> QED
  BY <1>1, <1>2, <1>3, <1>4, PTL DEF BackendSpec
=============================================================================
