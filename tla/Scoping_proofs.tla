-------------------------- MODULE Scoping_proofs --------------------------
(***************************************************************************)
(* Proofs about the semantic analysis, for every set of trees and names.   *)
(* First the types and the stability of lookups; then that the one pass    *)
(* finds out what Scoping says of the tree: what numbering the nodes in    *)
(* the order of the text means for the tree, and what the scopes, the      *)
(* symbols and the calls to come are while the analysis runs.              *)
(***************************************************************************)
EXTENDS Scoping, SequenceTheorems, WellFoundedInduction, TLAPS

-----------------------------------------------------------------------------
(* Chains of scopes, symbols and lookups.                                    *)

\* A non-empty set of naturals below a bound has a greatest element.
LEMMA MaxOfBounded ==
  ASSUME NEW m \in Nat, NEW S \in SUBSET (0 .. m), S # {}
  PROVE  /\ Max(S) \in S
         /\ \A y \in S : y <= Max(S)
<1>1. \A x \in S : x \in Nat /\ x <= m
  OBVIOUS
<1> DEFINE R == OpToRel(<, Nat)
           D == {m - x : x \in S}
<1>2. D \subseteq Nat
  <2>1. SUFFICES ASSUME NEW x \in S PROVE m - x \in Nat
    OBVIOUS
  <2> QED
    BY <1>1
<1>3. \A x, y \in Nat : x < y => <<x, y>> \in R
  BY DEF OpToRel
<1>4. D # {}
  OBVIOUS
<1>5. PICK d \in D : \A e \in D : ~(<<e, d>> \in R)
  <2>1. IsWellFoundedOn(R, Nat)
    BY NatLessThanWellFounded
  <2> HIDE DEF R, D
  <2> QED
    BY <1>2, <1>4, <2>1, WFMin
<1>6. \A e \in D : d <= e
  <2> HIDE DEF R, D
  <2>1. SUFFICES ASSUME NEW e \in D PROVE d <= e
    OBVIOUS
  <2>2. d \in Nat /\ e \in Nat
    BY <1>2, <1>5
  <2>3. ~(e < d)
    BY <1>3, <1>5, <2>2
  <2> QED
    BY <2>2, <2>3
<1>7. PICK x \in S : d = m - x
  OBVIOUS
<1>8. \A y \in S : m - y \in D
  OBVIOUS
<1> HIDE DEF R, D
<1>9. \A y \in S : x >= y
  BY <1>1, <1>6, <1>7, <1>8
<1> QED
  BY <1>1, <1>9 DEF Max

\* An element that none exceeds is the greatest.
LEMMA MaxUnique ==
  ASSUME NEW S \in SUBSET Nat, NEW m \in S, \A y \in S : y <= m
  PROVE  Max(S) = m
<1>1. \A y \in S : m >= y
  OBVIOUS
<1>2. \A x \in S : (\A y \in S : x >= y) => x = m
  OBVIOUS
<1> QED
  BY <1>1, <1>2 DEF Max

-----------------------------------------------------------------------------
(* Looking names up. *)

\* The scopes of a chain exist.
LEMMA ChainBounded ==
  ASSUME TypeOK, NEW s \in DOMAIN scopes
  PROVE  /\ scopes \in [1 .. Len(scopes) -> ScopeType]
         /\ Len(scopes) \in Nat
         /\ s \in 1 .. Len(scopes)
         /\ scopes[s].chain \subseteq 1 .. s
         /\ scopes[s].chain \subseteq DOMAIN scopes
<1>1. /\ scopes \in [1 .. Len(scopes) -> ScopeType]
      /\ Len(scopes) \in Nat
      /\ DOMAIN scopes = 1 .. Len(scopes)
  BY LenProperties DEF TypeOK
<1>2. scopes[s].chain \subseteq 1 .. s
  BY DEF TypeOK, IsChain
<1> QED
  BY <1>1, <1>2

\* The symbol found is the one that the innermost scope holding the name has.
LEMMA LookupFinds ==
  ASSUME TypeOK, NEW s \in DOMAIN scopes, NEW name \in Names,
         holders(s, name) # {}
  PROVE  /\ Max(holders(s, name)) \in holders(s, name)
         /\ \A t \in holders(s, name) : t <= Max(holders(s, name))
         /\ lookupSymbol(s, name) = scopes[Max(holders(s, name))].table[name]
         /\ lookupSymbol(s, name) # NoSymbol
<1>1. holders(s, name) \in SUBSET (0 .. s) /\ s \in Nat
  BY ChainBounded DEF holders
<1>2. /\ Max(holders(s, name)) \in holders(s, name)
      /\ \A t \in holders(s, name) : t <= Max(holders(s, name))
  BY <1>1, MaxOfBounded
<1>3. lookupSymbol(s, name) = scopes[Max(holders(s, name))].table[name]
  BY DEF lookupSymbol
<1> QED
  BY <1>2, <1>3 DEF holders

\* A node without a symbol is typed like one with a symbol.
LEMMA NoSymbolType == NoSymbol \in Symbol
BY DEF NoSymbol, Symbol

\* Looking a name up yields a symbol or none.
LEMMA LookupType ==
  ASSUME TypeOK, NEW s \in DOMAIN scopes, NEW name \in Names
  PROVE  lookupSymbol(s, name) \in Symbol
<1>1. CASE holders(s, name) = {}
  BY <1>1, NoSymbolType DEF lookupSymbol
<1>2. CASE holders(s, name) # {}
  <2>1. Max(holders(s, name)) \in DOMAIN scopes
    BY <1>2, LookupFinds, ChainBounded DEF holders
  <2> QED
    BY <1>2, <2>1, LookupFinds, ChainBounded DEF ScopeType
<1> QED
  BY <1>1, <1>2

-----------------------------------------------------------------------------
(* How scopes change: what is there stays, but for a name that a scope takes *)
(* up and that meant nothing in it; a new scope continues the chain of an    *)
(* older one.                                                                *)

ChainsContinue ==
  /\ Len(scopes) <= Len(scopes')
  /\ \A s \in DOMAIN scopes : scopes'[s].chain = scopes[s].chain
  /\ \A s \in DOMAIN scopes' \ DOMAIN scopes :
       \E p \in DOMAIN scopes : scopes'[s].chain = scopes[p].chain \cup {s}

TablesKept ==
  \A s \in DOMAIN scopes : \A name \in Names :
    \/ scopes'[s].table[name] = scopes[s].table[name]
    \/ lookupSymbol(s, name) = NoSymbol

Grows == scopes' \in Seq(ScopeType) /\ ChainsContinue /\ TablesKept

\* Growing keeps the scopes a tree.
LEMMA ChainsKept ==
  ASSUME TypeOK, Grows
  PROVE  \A s \in DOMAIN scopes' : IsChain(s)'
<1>1. /\ DOMAIN scopes' = 1 .. Len(scopes')
      /\ DOMAIN scopes = 1 .. Len(scopes)
      /\ Len(scopes) \in Nat /\ Len(scopes') \in Nat
  BY LenProperties DEF TypeOK, Grows
<1>2. ASSUME NEW s \in DOMAIN scopes PROVE IsChain(s)'
  <2>1. IsChain(s) /\ scopes[s].chain \subseteq DOMAIN scopes
    BY ChainBounded DEF TypeOK
  <2>2. \A t \in scopes[s].chain : scopes'[t].chain = scopes[t].chain
    BY <2>1 DEF Grows, ChainsContinue
  <2>3. scopes'[s].chain = scopes[s].chain
    BY DEF Grows, ChainsContinue
  <2> QED
    BY <2>1, <2>2, <2>3 DEF IsChain
<1>3. ASSUME NEW s \in DOMAIN scopes' \ DOMAIN scopes PROVE IsChain(s)'
  <2>1. PICK p \in DOMAIN scopes : scopes'[s].chain = scopes[p].chain \cup {s}
    BY DEF Grows, ChainsContinue
  <2>2. /\ IsChain(p)
        /\ scopes[p].chain \subseteq DOMAIN scopes
        /\ scopes[p].chain \subseteq 1 .. p
        /\ p \in 1 .. Len(scopes)
    BY ChainBounded DEF TypeOK
  <2>3. s \in Nat /\ s > Len(scopes)
    BY <1>1
  <2>4. \A t \in scopes[p].chain :
          scopes'[t].chain = {u \in scopes[p].chain : u <= t}
    BY <2>2 DEF IsChain, Grows, ChainsContinue
  <2>5. \A t \in scopes[p].chain : ~(s <= t)
    BY <2>2, <2>3
  <2>6. \A t \in scopes[p].chain :
          scopes'[t].chain = {u \in scopes[p].chain \cup {s} : u <= t}
    BY <2>4, <2>5
  <2>7. scopes[p].chain \cup {s} = {u \in scopes[p].chain \cup {s} : u <= s}
    BY <2>2, <2>3
  <2>8. scopes[p].chain \cup {s} \subseteq 1 .. s
    BY <2>2, <2>3
  <2> QED
    BY <2>1, <2>6, <2>7, <2>8 DEF IsChain
<1> QED
  BY <1>2, <1>3

\* The heart of the matter: a name that means something in a scope is not taken
\* up by any scope of its chain further in than the one that holds it.
LEMMA MeaningKept ==
  ASSUME TypeOK, Grows, NEW s \in DOMAIN scopes, NEW name \in Names,
         lookupSymbol(s, name) # NoSymbol
  PROVE  lookupSymbol(s, name)' = lookupSymbol(s, name)
<1> DEFINE H == holders(s, name)
           m == Max(H)
<1>1. H # {}
  BY DEF lookupSymbol
<1>2. /\ m \in H
      /\ \A t \in H : t <= m
      /\ lookupSymbol(s, name) = scopes[m].table[name]
  BY <1>1, LookupFinds
<1>3. /\ scopes[s].chain \subseteq DOMAIN scopes
      /\ scopes[s].chain \subseteq Nat
      /\ scopes'[s].chain = scopes[s].chain
  BY ChainBounded DEF Grows, ChainsContinue
<1>4. \A t \in scopes[s].chain :
        scopes[t].chain = {u \in scopes[s].chain : u <= t}
  BY DEF TypeOK, IsChain
<1>5. ASSUME NEW t \in scopes[s].chain, NEW u \in H, u <= t
      PROVE  scopes'[t].table[name] = scopes[t].table[name]
  <2>1. u \in holders(t, name)
    BY <1>4, <1>5 DEF holders
  <2>2. lookupSymbol(t, name) # NoSymbol
    BY <1>3, <2>1, LookupFinds
  <2> QED
    BY <1>3, <2>2 DEF Grows, TablesKept
<1>6. H \subseteq scopes[s].chain
  BY DEF holders
<1>7. holders(s, name)' = {t \in scopes[s].chain :
                             scopes'[t].table[name] # NoSymbol}
  BY <1>3 DEF holders
<1>8. m \in holders(s, name)' /\ scopes'[m].table[name] = scopes[m].table[name]
  <2>1. m \in scopes[s].chain /\ m <= m
    BY <1>2, <1>3, <1>6
  <2>2. scopes'[m].table[name] = scopes[m].table[name]
    BY <1>2, <1>5, <2>1
  <2> QED
    BY <1>2, <1>7, <2>1, <2>2 DEF holders
<1>9. ASSUME NEW t \in holders(s, name)' PROVE t <= m
  <2>1. SUFFICES ASSUME ~(t <= m) PROVE FALSE
    OBVIOUS
  <2>2. t \in scopes[s].chain /\ t \in Nat /\ m \in Nat
    BY <1>2, <1>3, <1>6, <1>7
  <2>3. m <= t
    BY <2>1, <2>2
  <2>4. scopes'[t].table[name] = scopes[t].table[name]
    BY <1>2, <1>5, <2>2, <2>3
  <2>5. t \in H
    BY <1>7, <2>2, <2>4 DEF holders
  <2> QED
    BY <1>2, <2>1, <2>5
<1>10. holders(s, name)' \in SUBSET Nat
  BY <1>3, <1>7
<1>11. Max(holders(s, name)') = m
  <2> HIDE DEF H, m
  <2> QED
    BY <1>8, <1>9, <1>10, MaxUnique
<1>12. lookupSymbol(s, name)' = scopes'[Max(holders(s, name)')].table[name]
  BY <1>8 DEF lookupSymbol
<1> QED
  BY <1>2, <1>8, <1>11, <1>12

-----------------------------------------------------------------------------
(* Every step but the first makes the scopes grow so. *)

Calls == [node : 2 .. Len(tree), scope : DOMAIN scopes]

\* Before the root was analysed nothing else can be.
LEMMA CurrentCall ==
  ASSUME TypeOK, work # <<>>, node.kind # "Root"
  PROVE  /\ work \in Seq(Calls)
         /\ n \in 2 .. Len(tree)
         /\ n \in DOMAIN tree
         /\ node \in TreeNode
         /\ scope \in DOMAIN scopes
         /\ Tail(work) \in Seq(Calls)
<1>1. /\ tree \in Seq(TreeNode)
      /\ Len(tree) \in Nat
      /\ DOMAIN tree = 1 .. Len(tree)
      /\ tree[1].kind = "Root"
  BY LenProperties DEF TypeOK, WellFormed
<1>2. work # <<[node |-> 1, scope |-> 0]>>
  <2>1. SUFFICES ASSUME work = <<[node |-> 1, scope |-> 0]>> PROVE FALSE
    OBVIOUS
  <2>2. Head(work) = [node |-> 1, scope |-> 0]
    BY <2>1
  <2> QED
    BY <1>1, <2>2 DEF node, n
<1>3. work \in Seq(Calls)
  BY <1>2 DEF TypeOK, Calls
<1>4. Head(work) \in Calls /\ Tail(work) \in Seq(Calls)
  BY <1>3, HeadTailProperties
<1>5. n \in 2 .. Len(tree) /\ scope \in DOMAIN scopes
  BY <1>4 DEF n, scope, Calls
<1>6. n \in DOMAIN tree
  BY <1>1, <1>5
<1>7. node \in TreeNode
  BY <1>1, <1>6, ElementOfSeq DEF node
<1> QED
  BY <1>3, <1>4, <1>5, <1>6, <1>7

\* A symbol is entered where its name means nothing.
LEMMA InsertSymbol ==
  ASSUME TypeOK, NEW s \in DOMAIN scopes, NEW symbol \in Symbol,
         symbol.declaredAt \in DOMAIN tree,
         lookupSymbol(s, tree[symbol.declaredAt].name) = NoSymbol
  PROVE  LET after == insertSymbol(s, symbol)
         IN  /\ after \in Seq(ScopeType)
             /\ Len(after) = Len(scopes)
             /\ DOMAIN after = DOMAIN scopes
             /\ \A t \in DOMAIN scopes :
                  /\ after[t].chain = scopes[t].chain
                  /\ \A name \in Names :
                       \/ after[t].table[name] = scopes[t].table[name]
                       \/ lookupSymbol(t, name) = NoSymbol
<1> DEFINE d == tree[symbol.declaredAt].name
           new == IF scopes[s].table[d] = NoSymbol THEN symbol
                  ELSE scopes[s].table[d]
           changed == [scopes[s] EXCEPT !.table = [@ EXCEPT ![d] = new]]
           after == insertSymbol(s, symbol)
<1>1. /\ scopes \in [1 .. Len(scopes) -> ScopeType]
      /\ Len(scopes) \in Nat
      /\ DOMAIN scopes = 1 .. Len(scopes)
      /\ scopes[s] \in ScopeType
  BY ChainBounded
<1>2. new \in Symbol \/ d \notin Names
  BY <1>1 DEF ScopeType
<1>3. /\ changed \in ScopeType
      /\ changed.chain = scopes[s].chain
      /\ \A name \in Names \ {d} : changed.table[name] = scopes[s].table[name]
  BY <1>1, <1>2 DEF ScopeType
<1>4. after = [scopes EXCEPT ![s] = changed]
  BY <1>1 DEF insertSymbol, ScopeType
<1>5. after \in [1 .. Len(scopes) -> ScopeType]
  <2> HIDE DEF changed, after
  <2> QED
    BY <1>1, <1>3, <1>4
<1>6. after \in Seq(ScopeType) /\ Len(after) = Len(scopes)
  <2> HIDE DEF after
  <2> QED
    BY <1>1, <1>5
<1>7. ASSUME NEW t \in DOMAIN scopes
      PROVE  /\ after[t].chain = scopes[t].chain
             /\ \A name \in Names :
                  \/ after[t].table[name] = scopes[t].table[name]
                  \/ lookupSymbol(t, name) = NoSymbol
  <2>1. CASE t # s
    BY <1>1, <1>4, <2>1
  <2>2. CASE t = s
    <3>1. after[t] = changed
      BY <1>1, <1>4, <2>2
    <3> HIDE DEF changed, after
    <3> QED
      BY <1>3, <2>2, <3>1
  <2> QED
    BY <2>1, <2>2
<1>8. DOMAIN after = DOMAIN scopes
  <2> HIDE DEF after
  <2> QED
    BY <1>1, <1>5
<1> QED
  BY <1>6, <1>7, <1>8

\* A new scope is one below the scope s.
LEMMA ChildScope ==
  ASSUME TypeOK, NEW s \in DOMAIN scopes, NEW k \in Nat
  PROVE  /\ createChildScope(s, k) \in ScopeType
         /\ createChildScope(s, k).chain = scopes[s].chain \cup {next(k)}
<1>1. scopes[s].chain \subseteq Nat /\ next(k) \in Nat
  BY ChainBounded DEF next
<1> QED
  BY <1>1, NoSymbolType DEF createChildScope, ScopeObject, ScopeType

\* createSymbol() cuts the number of parameters down to its width.
LEMMA CreateSymbol ==
  ASSUME NEW m \in Nat, NEW kind \in {"Var", "Fn"}, NEW global \in BOOLEAN,
         NEW k \in Nat
  PROVE  /\ createSymbol(m, kind, global, k) \in Symbol
         /\ createSymbol(m, kind, global, k).declaredAt = m
<1>1. k % ParamValues \in Nat
  BY ParamValuesAssumption
<1> QED
  BY <1>1 DEF createSymbol, Symbol

\* The symbols of declarations.
LEMMA DeclaredSymbols ==
  ASSUME TypeOK, work # <<>>, node.kind # "Root"
  PROVE  /\ variable \in Symbol /\ variable.declaredAt = n
         /\ node.kind = "FnDef" => /\ function \in Symbol
                                   /\ function.declaredAt = n
<1>1. n \in Nat /\ scopes[scope].isGlobal \in BOOLEAN
  BY CurrentCall, ChainBounded DEF ScopeType
<1>2. variable \in Symbol /\ variable.declaredAt = n
  BY <1>1, CreateSymbol DEF variable
<1>3. ASSUME node.kind = "FnDef"
      PROVE  function \in Symbol /\ function.declaredAt = n
  <2>1. Len(node.kids) > 0
    BY <1>3, CurrentCall DEF node, TypeOK, WellFormed, HasParts
  <2>2. Len(node.kids) \in Nat
    BY CurrentCall, LenProperties DEF TreeNode
  <2>3. Len(node.kids) - 1 \in Nat
    BY <2>1, <2>2
  <2> QED
    BY <1>1, <2>3, CreateSymbol DEF function
<1> QED
  BY <1>2, <1>3

\* Entering a symbol where its name means nothing is growing.
LEMMA InsertGrows ==
  ASSUME TypeOK, NEW s \in DOMAIN scopes, NEW symbol \in Symbol,
         symbol.declaredAt \in DOMAIN tree,
         lookupSymbol(s, tree[symbol.declaredAt].name) = NoSymbol,
         scopes' = insertSymbol(s, symbol)
  PROVE  Grows /\ DOMAIN scopes' = DOMAIN scopes
<1>1. Len(scopes) \in Nat
  BY ChainBounded
<1> QED
  BY <1>1, InsertSymbol DEF Grows, ChainsContinue, TablesKept

\* Leaving the scopes alone is growing.
LEMMA SameGrows ==
  ASSUME TypeOK, UNCHANGED scopes
  PROVE  Grows /\ DOMAIN scopes' = DOMAIN scopes
<1>1. scopes \in Seq(ScopeType) /\ Len(scopes) \in Nat
  BY LenProperties DEF TypeOK
<1> QED
  BY <1>1 DEF Grows, ChainsContinue, TablesKept

\* A function enters its symbol and opens one scope.
LEMMA FnDefGrows ==
  ASSUME TypeOK, work # <<>>, AnalyzeFnDef
  PROVE  Grows /\ next(1) \in DOMAIN scopes'
<1>1. /\ node.kind # "Root"
      /\ node.kind = "FnDef"
      /\ lookupSymbol(scope, node.name) = NoSymbol
      /\ scopes' = Append(insertSymbol(scope, function), createChildScope(scope, 1))
  BY DEF AnalyzeFnDef, Analyze, CanBeDeclared
<1> DEFINE S == insertSymbol(scope, function)
           c == createChildScope(scope, 1)
<1>2. /\ scope \in DOMAIN scopes
      /\ n \in DOMAIN tree
      /\ function \in Symbol
      /\ function.declaredAt = n
  BY <1>1, CurrentCall, DeclaredSymbols
<1>3. /\ S \in Seq(ScopeType)
      /\ Len(S) = Len(scopes)
      /\ \A t \in DOMAIN scopes :
           /\ S[t].chain = scopes[t].chain
           /\ \A name \in Names :
                \/ S[t].table[name] = scopes[t].table[name]
                \/ lookupSymbol(t, name) = NoSymbol
  BY <1>1, <1>2, InsertSymbol DEF node
<1>4. /\ c \in ScopeType
      /\ c.chain = scopes[scope].chain \cup {Len(scopes) + 1}
  BY <1>2, ChildScope DEF next
<1>5. DOMAIN scopes = 1 .. Len(scopes) /\ Len(scopes) \in Nat
  BY <1>2, ChainBounded
<1> HIDE DEF S, c
<1>6. scopes' = Append(S, c)
  BY <1>1 DEF S, c
<1>7. /\ scopes' \in Seq(ScopeType)
      /\ Len(scopes') = Len(scopes) + 1
      /\ \A t \in 1 .. Len(scopes) : scopes'[t] = S[t]
      /\ scopes'[Len(scopes) + 1] = c
  BY <1>3, <1>4, <1>6, AppendProperties
<1>8. DOMAIN scopes' = 1 .. Len(scopes) + 1
  BY <1>7, LenProperties
<1> QED
  BY <1>2, <1>3, <1>4, <1>5, <1>7, <1>8 DEF Grows, ChainsContinue, TablesKept, next

\* An if statement opens two.
LEMMA IfStGrows ==
  ASSUME TypeOK, work # <<>>, AnalyzeIfSt
  PROVE  Grows /\ next(1) \in DOMAIN scopes' /\ next(2) \in DOMAIN scopes'
<1>1. /\ node.kind # "Root"
      /\ scopes' = scopes \o <<createChildScope(scope, 1),
                               createChildScope(scope, 2)>>
  BY DEF AnalyzeIfSt, Analyze
<1> DEFINE c1 == createChildScope(scope, 1)
           c2 == createChildScope(scope, 2)
<1>2. scope \in DOMAIN scopes
  BY <1>1, CurrentCall
<1>3. /\ c1 \in ScopeType /\ c2 \in ScopeType
      /\ c1.chain = scopes[scope].chain \cup {Len(scopes) + 1}
      /\ c2.chain = scopes[scope].chain \cup {Len(scopes) + 2}
  BY <1>2, ChildScope DEF next
<1>4. /\ DOMAIN scopes = 1 .. Len(scopes)
      /\ Len(scopes) \in Nat
      /\ scopes \in Seq(ScopeType)
  BY <1>2, ChainBounded DEF TypeOK
<1> HIDE DEF c1, c2
<1>5. scopes' = scopes \o <<c1, c2>>
  BY <1>1 DEF c1, c2
<1>6. /\ scopes' \in Seq(ScopeType)
      /\ Len(scopes') = Len(scopes) + 2
      /\ \A t \in 1 .. Len(scopes) : scopes'[t] = scopes[t]
      /\ scopes'[Len(scopes) + 1] = c1
      /\ scopes'[Len(scopes) + 2] = c2
  BY <1>3, <1>4, <1>5
<1>7. DOMAIN scopes' = 1 .. Len(scopes) + 2
  BY <1>6, LenProperties
<1>8. DOMAIN scopes' \ DOMAIN scopes = {Len(scopes) + 1, Len(scopes) + 2}
  BY <1>4, <1>7
<1> QED
  BY <1>2, <1>3, <1>4, <1>6, <1>7, <1>8 DEF Grows, ChainsContinue, TablesKept, next

-----------------------------------------------------------------------------
(* The calls to come have nodes below the root and scopes that exist. *)

\* As long as the root is to be analysed there are no scopes.
LEMMA RootFirst ==
  ASSUME TypeOK, work # <<>>, node.kind = "Root"
  PROVE  scopes = <<>>
<1>1. SUFFICES ASSUME work \in Seq(Calls) PROVE FALSE
  BY DEF TypeOK, Calls
<1>2. n \in 2 .. Len(tree)
  <2>1. Head(work) \in Calls
    BY <1>1, HeadTailProperties
  <2> QED
    BY <2>1 DEF n, Calls
<1>3. n \in DOMAIN tree /\ n # 1
  BY <1>2, LenProperties DEF TypeOK, WellFormed
<1> QED
  BY <1>3 DEF TypeOK, WellFormed, node

\* Calls for typed nodes in a typed scope are typed.
LEMMA InTyped ==
  ASSUME NEW N, NEW S, NEW s \in S, NEW nodes \in Seq(Nat),
         \A k \in DOMAIN nodes : nodes[k] \in 2 .. N
  PROVE  In(s, nodes) \in Seq([node : 2 .. N, scope : S])
<1>1. DOMAIN nodes = 1 .. Len(nodes) /\ Len(nodes) \in Nat
  BY LenProperties
<1> DEFINE R == [node : 2 .. N, scope : S]
<1>2. In(s, nodes) \in [1 .. Len(nodes) -> R]
  BY <1>1 DEF In
<1> HIDE DEF R
<1>3. In(s, nodes) \in Seq(R)
  BY <1>1, <1>2, SeqDef
<1> QED
  BY <1>3 DEF R

\* The children of a node are further on in the text.
LEMMA KidsTyped ==
  ASSUME TypeOK, work # <<>>, node.kind # "Root"
  PROVE  /\ node.kids \in Seq(Nat)
         /\ \A k \in DOMAIN node.kids : node.kids[k] \in 2 .. Len(tree)
<1>1. n \in 2 .. Len(tree) /\ n \in DOMAIN tree /\ Len(tree) \in Nat
  BY CurrentCall, LenProperties DEF TypeOK, WellFormed
<1>2. \A k \in DOMAIN node.kids : node.kids[k] \in n + 1 .. Len(tree)
  BY <1>1 DEF TypeOK, WellFormed, node
<1>3. \A k \in DOMAIN node.kids : node.kids[k] \in 2 .. Len(tree)
  BY <1>1, <1>2
<1> QED
  BY <1>3, CurrentCall DEF TreeNode

\* The calls for all children in one scope.
LEMMA KidsInScope ==
  ASSUME TypeOK, work # <<>>, node.kind # "Root", tree' = tree,
         NEW s \in DOMAIN scopes'
  PROVE  In(s, node.kids) \in Seq(Calls')
BY KidsTyped, InTyped DEF Calls

\* Calls that come first are added to calls that stay valid.
LEMMA WorkTyped ==
  ASSUME TypeOK, work # <<>>, node.kind # "Root", tree' = tree,
         DOMAIN scopes \subseteq DOMAIN scopes',
         NEW calls \in Seq(Calls'), AndThen(calls)
  PROVE  work' \in Seq(Calls')
<1>1. Calls \subseteq Calls'
  BY DEF Calls
<1>2. Tail(work) \in Seq(Calls)
  BY CurrentCall
<1>3. Tail(work) \in Seq(Calls')
  <2> DEFINE C == Calls
             D == Calls'
  <2> HIDE DEF C, D
  <2>1. C \subseteq D /\ Tail(work) \in Seq(C)
    BY <1>1, <1>2 DEF C, D
  <2>2. Tail(work) \in Seq(D)
    BY <2>1, SeqDef
  <2> QED
    BY <2>2 DEF D
<1> QED
  BY <1>3, ConcatProperties DEF AndThen

\* No scope is lost.
LEMMA GrowsDomain ==
  ASSUME TypeOK, Grows
  PROVE  DOMAIN scopes \subseteq DOMAIN scopes'
<1>1. /\ DOMAIN scopes' = 1 .. Len(scopes')
      /\ DOMAIN scopes = 1 .. Len(scopes)
      /\ Len(scopes) \in Nat /\ Len(scopes') \in Nat
  BY LenProperties DEF TypeOK, Grows
<1> QED
  BY <1>1 DEF Grows, ChainsContinue

\* What is left to show of a step that reports no error.
LEMMA StepTyped ==
  ASSUME TypeOK, work # <<>>, node.kind # "Root", Grows,
         UNCHANGED <<tree, errorAt, status>>,
         symbolOf' \in [DOMAIN tree -> Symbol],
         NEW calls \in Seq(Calls'), AndThen(calls)
  PROVE  TypeOK'
<1>1. work' \in Seq(Calls')
  BY GrowsDomain, WorkTyped
<1>2. \A s \in DOMAIN scopes' : IsChain(s)'
  BY ChainsKept
<1>3. scopes' \in Seq(ScopeType)
  BY DEF Grows
<1>4. (work \in Seq([node : 2 .. Len(tree), scope : DOMAIN scopes]))'
  BY <1>1 DEF Calls
<1>5. WellFormed(tree') /\ errorAt' \in 0 .. Len(tree')
      /\ symbolOf' \in [DOMAIN tree' -> Symbol]
      /\ status' \in {"running", "analysed", "semantic_error"}
  BY DEF TypeOK
<1> QED
  BY <1>2, <1>3, <1>4, <1>5 DEF TypeOK, ScopeType, Symbol

-----------------------------------------------------------------------------
(* The actions. *)

\* The analysis of the root opens the outermost scope.
LEMMA RootTyped ==
  ASSUME TypeOK, AnalyzeRoot
  PROVE  TypeOK'
<1>1. /\ work # <<>> /\ node.kind = "Root"
      /\ UNCHANGED <<tree, errorAt, status, symbolOf>>
      /\ scopes' = <<ScopeObject({1}, TRUE)>>
      /\ AndThen(In(1, node.kids))
  BY DEF AnalyzeRoot, Analyze
<1>2. scopes = <<>> /\ work = <<[node |-> 1, scope |-> 0]>>
  <2>1. scopes = <<>>
    BY <1>1, RootFirst
  <2>2. SUFFICES ASSUME work \in Seq(Calls) PROVE FALSE
    BY <2>1 DEF TypeOK, Calls
  <2>3. Head(work) \in Calls
    BY <1>1, <2>2, HeadTailProperties
  <2> QED
    BY <2>1, <2>3 DEF Calls
<1>3. n = 1 /\ Tail(work) = <<>> /\ node = tree[1]
  BY <1>2 DEF n, node
<1>4. ScopeObject({1}, TRUE) \in ScopeType
  BY NoSymbolType DEF ScopeObject, ScopeType
<1>5. scopes' \in Seq(ScopeType) /\ DOMAIN scopes' = {1}
  <2> DEFINE c == ScopeObject({1}, TRUE)
  <2>1. c \in ScopeType /\ scopes' = <<c>>
    BY <1>1, <1>4
  <2> HIDE DEF c
  <2> QED
    BY <2>1
<1>6. \A s \in DOMAIN scopes' : IsChain(s)'
  BY <1>1, <1>5 DEF ScopeObject, IsChain
<1>7. /\ node.kids \in Seq(Nat)
      /\ \A k \in DOMAIN node.kids : node.kids[k] \in 2 .. Len(tree)
  <2>1. tree \in Seq(TreeNode) /\ 1 \in DOMAIN tree
    BY LenProperties DEF TypeOK, WellFormed
  <2>2. tree[1].kids \in Seq(Nat)
    <3>1. tree[1] \in TreeNode
      BY <2>1, ElementOfSeq
    <3> QED BY <3>1 DEF TreeNode
  <2>3. \A k \in DOMAIN tree[1].kids : tree[1].kids[k] \in 2 .. Len(tree)
    BY <2>1 DEF TypeOK, WellFormed
  <2>4. node = tree[1]
    BY <1>3
  <2> QED
    BY <2>2, <2>3, <2>4
<1>8. In(1, node.kids) \in Seq(Calls')
  BY <1>1, <1>5, <1>7, InTyped DEF Calls
<1>9. work' \in Seq(Calls')
  BY <1>1, <1>3, <1>8, EmptySeq, ConcatProperties DEF AndThen
<1>10. (work \in Seq([node : 2 .. Len(tree), scope : DOMAIN scopes]))'
  BY <1>9 DEF Calls
<1> QED
  BY <1>1, <1>5, <1>6, <1>10 DEF TypeOK, ScopeType, Symbol

\* Variables and parameters: one symbol, in the scope and in the node.
LEMMA DeclarationTyped ==
  ASSUME TypeOK, AnalyzeVarDecl \/ AnalyzeFnParam
  PROVE  TypeOK' /\ Grows
<1>1. /\ work # <<>> /\ node.kind # "Root"
      /\ node.kind \in {"VarDecl", "FnParam"}
      /\ UNCHANGED <<tree, errorAt, status>>
      /\ lookupSymbol(scope, node.name) = NoSymbol
      /\ symbolOf' = [symbolOf EXCEPT ![n] = variable]
      /\ scopes' = insertSymbol(scope, variable)
      /\ AndThen(In(scope, node.kids)) \/ AndThen(<<>>)
  BY DEF AnalyzeVarDecl, AnalyzeFnParam, Analyze, CanBeDeclared
<1>2. /\ n \in DOMAIN tree /\ scope \in DOMAIN scopes
      /\ variable \in Symbol /\ variable.declaredAt = n
  BY <1>1, CurrentCall, DeclaredSymbols
<1>3. Grows /\ DOMAIN scopes' = DOMAIN scopes
  BY <1>1, <1>2, InsertGrows DEF node
<1>4. symbolOf' \in [DOMAIN tree -> Symbol]
  BY <1>1, <1>2 DEF TypeOK
<1>5. In(scope, node.kids) \in Seq(Calls') /\ <<>> \in Seq(Calls')
  BY <1>1, <1>2, <1>3, KidsInScope, EmptySeq
<1>6. TypeOK'
  BY <1>1, <1>3, <1>4, <1>5, StepTyped
<1> QED
  BY <1>3, <1>6

\* Uses of variables: the symbol found goes to the node.
LEMMA VariableTyped ==
  ASSUME TypeOK, AnalyzeVariable
  PROVE  TypeOK' /\ Grows
<1>1. /\ work # <<>> /\ node.kind # "Root"
      /\ UNCHANGED <<tree, errorAt, status, scopes>>
      /\ symbolOf' = [symbolOf EXCEPT ![n] = symbolHere]
      /\ AndThen(In(scope, node.kids))
  BY DEF AnalyzeVariable, Analyze
<1>2. n \in DOMAIN tree /\ scope \in DOMAIN scopes /\ node.name \in Names
  BY <1>1, CurrentCall DEF TreeNode
<1>3. Grows /\ DOMAIN scopes' = DOMAIN scopes
  BY <1>1, SameGrows
<1>4. symbolOf' \in [DOMAIN tree -> Symbol]
  BY <1>1, <1>2, LookupType DEF TypeOK, symbolHere
<1>5. In(scope, node.kids) \in Seq(Calls')
  BY <1>1, <1>2, <1>3, KidsInScope
<1>6. TypeOK'
  BY <1>1, <1>3, <1>4, <1>5, StepTyped
<1> QED
  BY <1>3, <1>6

\* The cases that touch neither scopes nor symbols.
LEMMA WalkTyped ==
  ASSUME TypeOK,
         \/ AnalyzeBlock \/ AnalyzeFnCallExpr
         \/ AnalyzeOperands \/ AnalyzeLiteral
  PROVE  TypeOK' /\ Grows
<1>1. /\ work # <<>> /\ node.kind # "Root"
      /\ UNCHANGED <<tree, errorAt, status, scopes, symbolOf>>
      /\ AndThen(In(scope, node.kids)) \/ AndThen(<<>>)
  BY DEF AnalyzeBlock, AnalyzeFnCallExpr, AnalyzeOperands, AnalyzeLiteral,
         Analyze, Operations, Literals
<1>2. Grows /\ DOMAIN scopes' = DOMAIN scopes
  BY <1>1, SameGrows
<1>3. In(scope, node.kids) \in Seq(Calls') /\ <<>> \in Seq(Calls')
  BY <1>1, <1>2, CurrentCall, KidsInScope, EmptySeq
<1>4. symbolOf' \in [DOMAIN tree -> Symbol]
  BY <1>1 DEF TypeOK
<1>5. TypeOK'
  BY <1>1, <1>2, <1>3, <1>4, StepTyped
<1> QED
  BY <1>2, <1>5

\* Functions: the parameters and the body are called for in the new scope.
LEMMA FnDefTyped ==
  ASSUME TypeOK, AnalyzeFnDef
  PROVE  TypeOK' /\ Grows
<1>1. /\ work # <<>> /\ node.kind # "Root"
      /\ UNCHANGED <<tree, errorAt, status, symbolOf>>
      /\ AndThen(In(next(1), node.kids))
  BY DEF AnalyzeFnDef, Analyze
<1>2. Grows /\ next(1) \in DOMAIN scopes'
  BY <1>1, FnDefGrows
<1>3. In(next(1), node.kids) \in Seq(Calls')
  BY <1>1, <1>2, KidsInScope
<1>4. symbolOf' \in [DOMAIN tree -> Symbol]
  BY <1>1 DEF TypeOK
<1>5. TypeOK'
  BY <1>1, <1>2, <1>3, <1>4, StepTyped
<1> QED
  BY <1>2, <1>5

\* If statements: the branches are called for in a scope of their own each.
LEMMA IfStTyped ==
  ASSUME TypeOK, AnalyzeIfSt
  PROVE  TypeOK' /\ Grows
<1> DEFINE calls == <<[node |-> node.kids[1], scope |-> scope],
                      [node |-> node.kids[2], scope |-> next(1)],
                      [node |-> node.kids[3], scope |-> next(2)]>>
<1>1. /\ work # <<>> /\ node.kind # "Root" /\ node.kind = "IfSt"
      /\ UNCHANGED <<tree, errorAt, status, symbolOf>>
      /\ AndThen(calls)
  BY DEF AnalyzeIfSt, Analyze
<1>2. Grows /\ next(1) \in DOMAIN scopes' /\ next(2) \in DOMAIN scopes'
  BY <1>1, IfStGrows
<1>3. scope \in DOMAIN scopes'
  BY <1>1, <1>2, CurrentCall, GrowsDomain
<1>4. \A k \in 1 .. 3 : node.kids[k] \in 2 .. Len(tree)
  <2>1. Len(node.kids) = 3
    BY <1>1, CurrentCall DEF node, TypeOK, WellFormed, HasParts
  <2>2. DOMAIN node.kids = 1 .. 3
    BY <1>1, <2>1, KidsTyped, LenProperties
  <2> QED
    BY <1>1, <2>2, KidsTyped
<1>5. /\ [node |-> node.kids[1], scope |-> scope] \in Calls'
      /\ [node |-> node.kids[2], scope |-> next(1)] \in Calls'
      /\ [node |-> node.kids[3], scope |-> next(2)] \in Calls'
  BY <1>1, <1>2, <1>3, <1>4 DEF Calls
<1>6. calls \in Seq(Calls')
  BY <1>5
<1>7. symbolOf' \in [DOMAIN tree -> Symbol]
  BY <1>1 DEF TypeOK
<1> HIDE DEF calls
<1>8. TypeOK'
  BY <1>1, <1>2, <1>6, <1>7, StepTyped
<1> QED
  BY <1>2, <1>8

\* An error, the end, or nothing.
LEMMA EndTyped ==
  ASSUME TypeOK,
         \/ RefuseDeclaration \/ RefuseVariable \/ RefuseCall
         \/ Finish \/ UNCHANGED vars
  PROVE  TypeOK' /\ Grows
<1>1. CASE RefuseDeclaration \/ RefuseVariable \/ RefuseCall
  <2>1. /\ work # <<>> /\ node.kind # "Root"
        /\ errorAt' = n /\ status' = "semantic_error"
        /\ UNCHANGED <<tree, work, scopes, symbolOf>>
    BY <1>1 DEF RefuseDeclaration, RefuseVariable, RefuseCall, fatalSemaError
  <2>2. errorAt' \in 0 .. Len(tree)
    BY <2>1, CurrentCall
  <2>3. TypeOK'
    BY <2>1, <2>2 DEF TypeOK, IsChain, ScopeType, Symbol
  <2> QED
    BY <2>1, <2>3, SameGrows
<1>2. CASE Finish \/ UNCHANGED vars
  <2>1. /\ UNCHANGED <<tree, work, scopes, symbolOf, errorAt>>
        /\ status' \in {"running", "analysed", "semantic_error"}
    BY <1>2 DEF Finish, vars, TypeOK
  <2>2. TypeOK'
    BY <2>1 DEF TypeOK, IsChain, ScopeType, Symbol
  <2> QED
    BY <2>1, <2>2, SameGrows
<1> QED
  BY <1>1, <1>2

\* After the root, scopes grow.
LEMMA StepGrows ==
  ASSUME TypeOK, [Next]_vars
  PROVE  TypeOK' /\ (scopes = <<>> \/ Grows)
<1>1. CASE AnalyzeRoot
  BY <1>1, RootTyped, RootFirst DEF AnalyzeRoot, Analyze
<1>2. CASE AnalyzeVarDecl \/ AnalyzeFnParam
  BY <1>2, DeclarationTyped
<1>3. CASE AnalyzeFnDef
  BY <1>3, FnDefTyped
<1>4. CASE AnalyzeIfSt
  BY <1>4, IfStTyped
<1>5. CASE AnalyzeVariable
  BY <1>5, VariableTyped
<1>6. CASE AnalyzeBlock \/ AnalyzeFnCallExpr \/ AnalyzeOperands \/ AnalyzeLiteral
  BY <1>6, WalkTyped
<1>7. CASE RefuseDeclaration \/ RefuseVariable \/ RefuseCall \/ Finish
           \/ UNCHANGED vars
  BY <1>7, EndTyped
<1> QED
  BY <1>1, <1>2, <1>3, <1>4, <1>5, <1>6, <1>7 DEF Next

-----------------------------------------------------------------------------
(* Theorems. *)

\* The variables of the analysis have values of their types; in particular the
\* scopes form chains that begin at the outermost one, and no node but the root
\* is analysed before it was given a scope that exists (the null pointer that
\* analyze() would dereference).
THEOREM SemaTypeCorrect == Spec => []TypeOK
<1>1. Init => TypeOK
  <2>1. SUFFICES ASSUME Init PROVE TypeOK
    OBVIOUS
  <2>2. WellFormed(tree) /\ Len(tree) \in Nat
    BY <2>1, TreesAssumption, LenProperties DEF Init, WellFormed
  <2>3. scopes \in Seq(ScopeType) /\ \A s \in DOMAIN scopes : IsChain(s)
    BY <2>1, EmptySeq DEF Init
  <2> QED
    BY <2>1, <2>2, <2>3, NoSymbolType DEF Init, TypeOK
<1>2. TypeOK /\ [Next]_vars => TypeOK'
  BY StepGrows
<1> QED
  BY <1>1, <1>2, PTL DEF Spec

\* What a name means in a scope never changes once it means something, for
\* every tree: no declaration that is analysed later captures a name that
\* lookupSymbol() has already resolved, which is what lets sema() resolve names
\* in the one pass in which it also declares them.
THEOREM LookupStability == Spec => LookupsStable
<1> DEFINE Stable == \A s \in DOMAIN scopes : \A name \in Names :
                       lookupSymbol(s, name) # NoSymbol
                         => lookupSymbol(s, name)' = lookupSymbol(s, name)
<1>1. TypeOK /\ [Next]_vars => Stable
  <2>1. SUFFICES ASSUME TypeOK, [Next]_vars PROVE Stable
    OBVIOUS
  <2>2. CASE scopes = <<>>
    BY <2>2
  <2>3. CASE Grows
    BY <2>1, <2>3, MeaningKept
  <2> QED
    BY <2>1, <2>2, <2>3, StepGrows
<1> QED
  BY <1>1, SemaTypeCorrect, PTL DEF Spec, LookupsStable

-----------------------------------------------------------------------------
(* The numbers of the nodes.                                                 *)

\* A non-empty set of naturals has a least element.
LEMMA LeastOfNaturals ==
  ASSUME NEW S \in SUBSET Nat, S # {}
  PROVE  \E m \in S : \A k \in S : m <= k
<1> DEFINE R == OpToRel(<, Nat)
<1>1. \A j, k \in Nat : j < k => <<j, k>> \in R
  BY DEF OpToRel
<1>2. PICK m \in S : \A k \in S : ~(<<k, m>> \in R)
  <2>1. IsWellFoundedOn(R, Nat)
    BY NatLessThanWellFounded
  <2> HIDE DEF R
  <2> QED
    BY <2>1, WFMin
<1> HIDE DEF R
<1>3. ASSUME NEW k \in S PROVE m <= k
  <2>1. m \in Nat /\ k \in Nat /\ ~(k < m)
    BY <1>1, <1>2
  <2> QED
    BY <2>1
<1> QED
  BY <1>3

-----------------------------------------------------------------------------
(* The tree. *)

Parent(m) == ParentOf(tree, m)

LEMMA TreeShape ==
  ASSUME WellFormed(tree)
  PROVE  /\ Len(tree) \in Nat
         /\ DOMAIN tree = 1 .. Len(tree)
         /\ 1 \in DOMAIN tree
         /\ \A m \in DOMAIN tree : tree[m] \in TreeNode
         /\ \A m \in DOMAIN tree : tree[m].kind = "Root" <=> m = 1
         /\ \A m \in DOMAIN tree : \A k \in Kids(m) : /\ k \in m + 1 .. Len(tree)
                                                      /\ Parent(k) = m
         /\ \A m \in 2 .. Len(tree) : Parent(m) \in 1 .. m - 1 /\ m \in Kids(Parent(m))
         /\ \A m \in 2 .. Len(tree) : \A k \in Parent(m) + 1 .. m :
              Parent(k) >= Parent(m)
<1>1. /\ tree \in Seq(TreeNode) /\ Len(tree) \in Nat /\ Len(tree) > 0
      /\ DOMAIN tree = 1 .. Len(tree)
  BY LenProperties DEF WellFormed
<1>2. \A m \in DOMAIN tree : tree[m] \in TreeNode
  BY <1>1, ElementOfSeq
<1>3. \A m \in DOMAIN tree : tree[m].kind = "Root" <=> m = 1
  BY DEF WellFormed
<1>4. \A m \in DOMAIN tree : \A k \in Kids(m) : /\ k \in m + 1 .. Len(tree)
                                                /\ Parent(k) = m
  BY DEF WellFormed, Kids, ChildrenOf, Parent
<1>5. \A m \in 2 .. Len(tree) :
        /\ Parent(m) \in DOMAIN tree
        /\ m \in Kids(Parent(m))
        /\ \A k \in Parent(m) + 1 .. m : Parent(k) >= Parent(m)
  BY DEF WellFormed, Kids, Parent
<1>6. \A m \in 2 .. Len(tree) : Parent(m) \in 1 .. m - 1
  <2>1. SUFFICES ASSUME NEW m \in 2 .. Len(tree) PROVE Parent(m) \in 1 .. m - 1
    OBVIOUS
  <2>2. Parent(m) \in 1 .. Len(tree) /\ m \in Parent(m) + 1 .. Len(tree)
    BY <1>1, <1>4, <1>5
  <2> QED
    BY <1>1, <2>2
<1> QED
  BY <1>1, <1>2, <1>3, <1>4, <1>5, <1>6

\* A node is below m when no node from m to it has a parent before m.
LEMMA InSubtree ==
  ASSUME WellFormed(tree), NEW m \in DOMAIN tree, NEW k
  PROVE  k \in Subtree(m) <=> /\ k \in m .. Len(tree)
                              /\ \A j \in m + 1 .. k : Parent(j) >= m
<1> DEFINE others == UNION {Kids(a) : a \in 1 .. m - 1}
<1>1. m \in 1 .. Len(tree) /\ Len(tree) \in Nat
  BY TreeShape
<1>2. ASSUME NEW j \in m + 1 .. Len(tree)
      PROVE  j \in others <=> ~(Parent(j) >= m)
  <2>1. j \in 2 .. Len(tree) /\ Parent(j) \in 1 .. j - 1 /\ j \in Kids(Parent(j))
    BY <1>1, TreeShape
  <2>2. ASSUME NEW a \in 1 .. m - 1, j \in Kids(a) PROVE Parent(j) = a
    <3>1. a \in DOMAIN tree
      BY <1>1, TreeShape
    <3> QED
      BY <2>2, <3>1, TreeShape
  <2>3. ASSUME Parent(j) < m PROVE j \in others
    <3>1. Parent(j) \in 1 .. m - 1
      BY <1>1, <2>1, <2>3
    <3> QED
      BY <2>1, <3>1
  <2>4. ASSUME j \in others PROVE ~(Parent(j) >= m)
    <3>1. PICK a \in 1 .. m - 1 : j \in Kids(a)
      BY <2>4
    <3> QED
      BY <1>1, <2>2, <3>1
  <2> QED
    BY <1>1, <2>1, <2>3, <2>4
<1> HIDE DEF others
<1>3. Subtree(m) = {l \in m .. Len(tree) : others \cap m + 1 .. l = {}}
  BY DEF Subtree, others
<1>4. ASSUME NEW l \in m .. Len(tree)
      PROVE  others \cap m + 1 .. l = {} <=> \A j \in m + 1 .. l : Parent(j) >= m
  <2>1. \A j \in m + 1 .. l : j \in m + 1 .. Len(tree)
    BY <1>1
  <2> QED
    BY <1>2, <2>1
<1> QED
  BY <1>3, <1>4

\* The order of the text: subtrees are stretches of it, nested in each other.
LEMMA SubtreeOrder ==
  ASSUME WellFormed(tree), NEW m \in DOMAIN tree
  PROVE  /\ m \in Subtree(m)
         /\ Subtree(m) \subseteq m .. Len(tree)
         /\ Subtree(m) \subseteq DOMAIN tree
         /\ \A k \in Subtree(m) : \A j \in m .. k : j \in Subtree(m)
         /\ \A k \in Subtree(m) : k # m => Parent(k) \in Subtree(m)
         /\ \A k \in Kids(m) : k \in Subtree(m)
         /\ \A k \in Subtree(m) : Subtree(k) \subseteq Subtree(m)
<1>1. /\ m \in 1 .. Len(tree) /\ Len(tree) \in Nat /\ m \in Nat
      /\ DOMAIN tree = 1 .. Len(tree)
  BY TreeShape
<1>2. \A k : k \in Subtree(m) <=> /\ k \in m .. Len(tree)
                                  /\ \A j \in m + 1 .. k : Parent(j) >= m
  BY InSubtree
<1>3. m \in Subtree(m) /\ Subtree(m) \subseteq m .. Len(tree)
  BY <1>1, <1>2
<1>4. Subtree(m) \subseteq DOMAIN tree
  BY <1>1, <1>3
<1>5. ASSUME NEW k \in Subtree(m), NEW j \in m .. k PROVE j \in Subtree(m)
  <2>1. k \in m .. Len(tree) /\ \A l \in m + 1 .. k : Parent(l) >= m
    BY <1>2
  <2>2. j \in m .. Len(tree) /\ \A l \in m + 1 .. j : l \in m + 1 .. k
    BY <1>1, <2>1
  <2> QED
    BY <1>2, <2>1, <2>2
<1>6. ASSUME NEW k \in Subtree(m), k # m PROVE Parent(k) \in Subtree(m)
  <2>1. k \in m + 1 .. Len(tree) /\ Parent(k) >= m
    BY <1>1, <1>2, <1>6
  <2>2. Parent(k) \in 1 .. k - 1
    BY <1>1, <2>1, TreeShape
  <2>3. Parent(k) \in m .. k
    BY <1>1, <2>1, <2>2
  <2> QED
    BY <1>5, <2>3
<1>7. ASSUME NEW k \in Kids(m) PROVE k \in Subtree(m)
  <2>1. k \in m + 1 .. Len(tree) /\ Parent(k) = m
    BY TreeShape
  <2>2. k \in 2 .. Len(tree)
    BY <1>1, <2>1
  <2>3. \A j \in m + 1 .. k : Parent(j) >= m
    BY <2>1, <2>2, TreeShape
  <2>4. k \in m .. Len(tree)
    BY <1>1, <2>1
  <2> QED
    BY <1>2, <2>3, <2>4
<1>8. ASSUME NEW k \in Subtree(m), NEW l \in Subtree(k) PROVE l \in Subtree(m)
  <2>1. k \in m .. Len(tree) /\ \A j \in m + 1 .. k : Parent(j) >= m
    BY <1>2
  <2>2. k \in DOMAIN tree
    BY <1>4
  <2>3. l \in k .. Len(tree) /\ \A j \in k + 1 .. l : Parent(j) >= k
    BY <2>2, InSubtree
  <2>4. ASSUME NEW j \in m + 1 .. l PROVE Parent(j) >= m
    <3>1. CASE j \in m + 1 .. k
      BY <2>1, <3>1
    <3>2. CASE j \in k + 1 .. l
      <4>1. Parent(j) >= k /\ k >= m /\ j \in 2 .. Len(tree)
        BY <1>1, <2>1, <2>3, <3>2
      <4>2. Parent(j) \in 1 .. j - 1
        BY <4>1, TreeShape
      <4> QED
        BY <1>1, <2>1, <4>1, <4>2
    <3> QED
      BY <1>1, <2>1, <2>3, <2>4, <3>1, <3>2
  <2>5. l \in m .. Len(tree)
    BY <1>1, <2>1, <2>3
  <2> QED
    BY <1>2, <2>4, <2>5
<1> QED
  BY <1>3, <1>4, <1>5, <1>6, <1>7, <1>8

-----------------------------------------------------------------------------
(* Bounds, declarations and arguments. *)

IsFn(m) == tree[m].kind = "FnDef"

\* The bounds that a declaration at m would be in.
Enclosing(m) == {b \in Bounds : m \in Subtree(b) /\ ~(b = m /\ IsFn(m))}

Branches ==
  UNION {{tree[m].kids[2], tree[m].kids[3]} :
           m \in {m \in DOMAIN tree : tree[m].kind = "IfSt"}}

LEMMA Bounding ==
  ASSUME WellFormed(tree)
  PROVE  /\ Bounds = {m \in DOMAIN tree : m = 1 \/ IsFn(m)} \cup Branches
         /\ \A b \in Branches : /\ b \in 2 .. Len(tree)
                                /\ tree[Parent(b)].kind = "IfSt"
                                /\ ~IsFn(b)
         /\ \A m \in DOMAIN tree : IsFn(m) => Parent(m) = 1
         /\ Bounds \subseteq DOMAIN tree
<1>1. Bounds = {m \in DOMAIN tree : m = 1 \/ IsFn(m)} \cup Branches
  <2>1. \A m \in DOMAIN tree :
          tree[m].kind \in {"Root", "FnDef"} <=> (m = 1 \/ IsFn(m))
    BY TreeShape DEF IsFn
  <2> QED
    BY <2>1 DEF Bounds, Branches
<1>2. \A m \in DOMAIN tree : IsFn(m) => Parent(m) = 1
  <2>1. SUFFICES ASSUME NEW m \in DOMAIN tree, IsFn(m) PROVE Parent(m) = 1
    OBVIOUS
  <2>2. m \in 2 .. Len(tree)
    BY <2>1, TreeShape DEF IsFn
  <2>3. Parent(m) \in DOMAIN tree /\ m \in Kids(Parent(m))
    BY <2>2, TreeShape
  <2>4. HasParts(tree, Parent(m))
    BY <2>3 DEF WellFormed
  <2>5. "FnDef" \in {tree[k].kind : k \in ChildrenOf(tree, Parent(m))}
    BY <2>1, <2>3 DEF Kids, IsFn
  <2>6. tree[Parent(m)].kind = "Root"
    BY <2>4, <2>5 DEF HasParts
  <2> QED
    BY <2>3, <2>6, TreeShape
<1>3. ASSUME NEW b \in Branches
      PROVE  /\ b \in 2 .. Len(tree)
             /\ tree[Parent(b)].kind = "IfSt"
             /\ ~IsFn(b)
  <2>1. PICK m \in DOMAIN tree :
          tree[m].kind = "IfSt" /\ b \in {tree[m].kids[2], tree[m].kids[3]}
    BY DEF Branches
  <2>2. Len(tree[m].kids) = 3
    BY <2>1 DEF WellFormed, HasParts
  <2>3. tree[m].kids \in Seq(Nat)
    BY TreeShape DEF TreeNode
  <2>4. DOMAIN tree[m].kids = 1 .. 3
    BY <2>2, <2>3, LenProperties
  <2>5. b \in Kids(m)
    BY <2>1, <2>4 DEF Kids, ChildrenOf
  <2>6. b \in m + 1 .. Len(tree) /\ Parent(b) = m
    BY <2>5, TreeShape
  <2>7. b \in 2 .. Len(tree) /\ b \in DOMAIN tree
    BY <2>6, TreeShape
  <2>8. m # 1
    BY <2>1, TreeShape
  <2> QED
    BY <1>2, <2>1, <2>6, <2>7, <2>8
<1>4. Bounds \subseteq DOMAIN tree
  BY <1>1, <1>3, TreeShape
<1> QED
  BY <1>1, <1>2, <1>3, <1>4

\* The innermost bound exists, since the root bounds everything.
LEMMA OwnerIsInnermost ==
  ASSUME WellFormed(tree), NEW m \in DOMAIN tree
  PROVE  /\ Owner(m) \in Enclosing(m)
         /\ \A b \in Enclosing(m) : b <= Owner(m)
         /\ Enclosing(m) \subseteq 1 .. m
<1>1. 1 \in Enclosing(m)
  <2>1. m \in 1 .. Len(tree) /\ Len(tree) \in Nat /\ 1 \in DOMAIN tree
    BY TreeShape
  <2>2. \A j \in 1 + 1 .. m : Parent(j) >= 1
    <3>1. \A j \in 1 + 1 .. m : j \in 2 .. Len(tree)
      BY <2>1
    <3>2. \A j \in 2 .. Len(tree) : Parent(j) \in 1 .. j - 1
      BY TreeShape
    <3> QED
      BY <3>1, <3>2
  <2>3. m \in Subtree(1)
    BY <2>1, <2>2, InSubtree
  <2>4. ~IsFn(1)
    BY <2>1, TreeShape DEF IsFn
  <2>5. 1 \in Bounds
    BY <2>1, Bounding
  <2> QED
    BY <2>3, <2>4, <2>5 DEF Enclosing
<1>2. Enclosing(m) \subseteq 1 .. m
  <2>1. SUFFICES ASSUME NEW b \in Enclosing(m) PROVE b \in 1 .. m
    OBVIOUS
  <2>2. b \in DOMAIN tree /\ m \in Subtree(b)
    BY Bounding DEF Enclosing
  <2>3. b \in 1 .. Len(tree) /\ m \in b .. Len(tree) /\ Len(tree) \in Nat
    BY <2>2, TreeShape, SubtreeOrder
  <2> QED
    BY <2>3
<1>3. Enclosing(m) \in SUBSET (0 .. m) /\ m \in Nat
  BY <1>2, TreeShape
<1>4. /\ Max(Enclosing(m)) \in Enclosing(m)
      /\ \A b \in Enclosing(m) : b <= Max(Enclosing(m))
  BY <1>1, <1>3, MaxOfBounded
<1>5. Owner(m) = Max(Enclosing(m))
  <2>1. {b \in Bounds : m \in Subtree(b) /\ ~(b = m /\ tree[m].kind = "FnDef")}
          = Enclosing(m)
    BY DEF Enclosing, IsFn
  <2> QED
    BY <2>1 DEF Owner
<1> QED
  BY <1>2, <1>4, <1>5

\* The bounds of a child are those of its parent, the parent if it is a
\* function, and the child if it is a branch.
LEMMA EnclosingKid ==
  ASSUME WellFormed(tree), NEW m \in DOMAIN tree, NEW k \in Kids(m)
  PROVE  Enclosing(k) = Enclosing(m) \cup {b \in {m} : IsFn(m)}
                                     \cup ({k} \cap Branches)
<1>1. k \in DOMAIN tree /\ k # m /\ Parent(k) = m /\ k \in Subtree(m) /\ k # 1
  <2>1. k \in m + 1 .. Len(tree) /\ Parent(k) = m /\ m \in 1 .. Len(tree)
        /\ Len(tree) \in Nat /\ DOMAIN tree = 1 .. Len(tree)
    BY TreeShape
  <2> QED
    BY <2>1, SubtreeOrder
<1>2. ASSUME NEW b \in Bounds, b # k
      PROVE  k \in Subtree(b) <=> m \in Subtree(b)
  <2>1. b \in DOMAIN tree
    BY Bounding
  <2>2. k \in Subtree(b) => m \in Subtree(b)
    BY <1>1, <1>2, <2>1, SubtreeOrder
  <2>3. m \in Subtree(b) => k \in Subtree(b)
    BY <1>1, <2>1, SubtreeOrder
  <2> QED
    BY <2>2, <2>3
<1>3. m \notin Subtree(k)
  <2>1. m \in 1 .. Len(tree) /\ k \in m + 1 .. Len(tree) /\ Len(tree) \in Nat
    BY TreeShape
  <2>2. Subtree(k) \subseteq k .. Len(tree)
    BY <1>1, SubtreeOrder
  <2> QED
    BY <2>1, <2>2
<1>4. k \in Subtree(k) /\ m \in Subtree(m)
  BY <1>1, SubtreeOrder
<1>5. k \in Bounds <=> IsFn(k) \/ k \in Branches
  BY <1>1, Bounding
<1>6. k \in Branches => ~IsFn(k)
  BY Bounding
<1>7. IsFn(m) => m \in Bounds
  BY Bounding
<1>8. \A b : b \in Enclosing(k) <=>
        \/ b \in Bounds /\ b # k /\ m \in Subtree(b)
        \/ b = k /\ k \in Branches
  BY <1>2, <1>4, <1>5, <1>6 DEF Enclosing
<1>9. \A b : b \in Enclosing(m) <=>
        b \in Bounds /\ m \in Subtree(b) /\ ~(b = m /\ IsFn(m))
  BY DEF Enclosing
<1> QED
  BY <1>1, <1>3, <1>4, <1>7, <1>8, <1>9

\* There are no declarations among the arguments of calls.
LEMMA ArgumentsDeclareNothing ==
  ASSUME WellFormed(tree)
  PROVE  Declarations \cap Arguments = {}
<1>1. SUFFICES ASSUME NEW c \in DOMAIN tree, tree[c].kind = "FnCallExpr"
               PROVE  \A d \in Subtree(c) : tree[d].kind \in ExpressionKinds
  <2>1. \A d \in Arguments : \E c \in DOMAIN tree :
          tree[c].kind = "FnCallExpr" /\ d \in Subtree(c)
    BY DEF Arguments
  <2>2. \A d \in Declarations : tree[d].kind \notin ExpressionKinds
    BY DEF Declarations, ExpressionKinds, Literals, Operations
  <2> QED
    BY <1>1, <2>1, <2>2
<1>2. SUFFICES ASSUME NEW W, W = {d \in Subtree(c) : tree[d].kind \notin ExpressionKinds},
                      W # {}
               PROVE  FALSE
  OBVIOUS
<1>3. c \in 1 .. Len(tree) /\ Len(tree) \in Nat /\ DOMAIN tree = 1 .. Len(tree)
  BY TreeShape
<1>4. W \subseteq Subtree(c) /\ Subtree(c) \subseteq c .. Len(tree)
  BY <1>2, SubtreeOrder
<1>5. W \in SUBSET Nat
  BY <1>3, <1>4
<1>6. PICK d \in W : \A e \in W : d <= e
  BY <1>2, <1>5, LeastOfNaturals
<1>7. d # c
  BY <1>1, <1>2 DEF ExpressionKinds
<1>8. Parent(d) \in Subtree(c) /\ d \in 2 .. Len(tree)
  BY <1>3, <1>4, <1>7, SubtreeOrder
<1>9. Parent(d) \in 1 .. d - 1 /\ d \in Kids(Parent(d))
  BY <1>8, TreeShape
<1>10. Parent(d) \notin W
  <2>1. ~(d <= Parent(d))
    BY <1>8, <1>9
  <2> QED
    BY <1>6, <2>1
<1>11. tree[Parent(d)].kind \in ExpressionKinds /\ Parent(d) \in DOMAIN tree
  BY <1>2, <1>3, <1>4, <1>8, <1>10
<1>12. tree[d].kind \in ExpressionKinds
  <2>1. HasParts(tree, Parent(d))
    BY <1>11 DEF WellFormed
  <2> QED
    BY <1>9, <1>11, <2>1 DEF HasParts, Kids
<1> QED
  BY <1>2, <1>12

\* An argument is below a call; a child of a node that is neither is none.
LEMMA ArgumentsBelowCalls ==
  ASSUME WellFormed(tree), NEW m \in DOMAIN tree
  PROVE  /\ tree[m].kind = "FnCallExpr" => Subtree(m) \ {m} \subseteq Arguments
         /\ \A k \in Kids(m) :
              tree[m].kind # "FnCallExpr" /\ m \notin Arguments => k \notin Arguments
<1>1. tree[m].kind = "FnCallExpr" => Subtree(m) \ {m} \subseteq Arguments
  BY DEF Arguments
<1>2. ASSUME NEW k \in Kids(m), k \in Arguments, tree[m].kind # "FnCallExpr"
      PROVE  m \in Arguments
  <2>1. PICK c \in DOMAIN tree :
          tree[c].kind = "FnCallExpr" /\ k \in Subtree(c) /\ k # c
    BY <1>2 DEF Arguments
  <2>2. Parent(k) = m
    BY TreeShape
  <2>3. m \in Subtree(c) /\ m # c
    BY <1>2, <2>1, <2>2, SubtreeOrder
  <2> QED
    BY <2>1, <2>3 DEF Arguments
<1> QED
  BY <1>1, <1>2

-----------------------------------------------------------------------------
(* The invariant.  The scope s has been opened for the bound B[s]; the        *)
(* analysis is at node p, and the calls to come are w.                        *)

\* The symbol of a declaration.
Sym(d) ==
  createSymbol(d, IF IsFn(d) THEN "Fn" ELSE "Var", Owner(d) = 1,
               IF IsFn(d) THEN Len(tree[d].kids) - 1 ELSE 0)

Opened(B, p, s) == B[s] < p \/ (B[s] \in Branches /\ Parent(B[s]) < p)

OpensBounds(B, p, sc) ==
  /\ B \in [DOMAIN sc -> Bounds]
  /\ \A s, t \in DOMAIN sc : B[s] = B[t] => s = t
  /\ \A s \in DOMAIN sc :
       /\ Opened(B, p, s)
       /\ sc[s].isGlobal <=> B[s] = 1
       /\ sc[s].chain \subseteq DOMAIN sc
       /\ \A t \in sc[s].chain : B[t] <= B[s]

\* The scopes hold what was declared in their bounds before p.
HoldDeclared(B, p, sc) ==
  \A s \in DOMAIN sc :
    /\ \A name \in Names :
         sc[s].table[name] # NoSymbol =>
           \E d \in Declarations : /\ d < p
                                   /\ tree[d].name = name
                                   /\ Owner(d) = B[s]
                                   /\ sc[s].table[name] = Sym(d)
    /\ \A d \in Declarations :
         d < p /\ Owner(d) = B[s] => sc[s].table[tree[d].name] = Sym(d)

CallsOf(w) == {w[k] : k \in DOMAIN w}

\* A call has the scopes of the bounds around its node.
InScope(B, sc, call) ==
  /\ call.scope \in DOMAIN sc
  /\ {B[t] : t \in sc[call.scope].chain} = Enclosing(call.node)

Position(w) == IF w = <<>> THEN Len(tree) + 1 ELSE Head(w).node

\* The nodes to come whose parents were analysed.
Ahead(p) == {m \in p .. Len(tree) : Parent(m) < p}

Ordered(w) == \A j, k \in DOMAIN w : j < k => w[j].node < w[k].node

CallsAhead(w) ==
  /\ w \in Seq([node : 2 .. Len(tree), scope : Nat])
  /\ Ordered(w)
  /\ {call.node : call \in CallsOf(w)} = Ahead(Position(w))
  /\ \A call \in CallsOf(w) : call.node \notin Arguments

\* What has been found out about m.
Settled(m, sy) ==
  /\ Correct(m)
  /\ tree[m].kind \in {"AssignSt", "VarExpr"} =>
       /\ Variables(m) = {sy[m].declaredAt}
       /\ sy[m].isGlobal <=> Owner(sy[m].declaredAt) = 1

SettledBefore(p, sy) ==
  \A m \in 2 .. p - 1 : m \notin Arguments => Settled(m, sy)

UnderWay(B, w, sc, sy) ==
  /\ OpensBounds(B, Position(w), sc)
  /\ HoldDeclared(B, Position(w), sc)
  /\ CallsAhead(w)
  /\ \A call \in CallsOf(w) : InScope(B, sc, call)
  /\ SettledBefore(Position(w), sy)

ScopingInv ==
  /\ tree \in Trees
  /\ \/ scopes = <<>> /\ work # <<>> /\ status = "running"
     \/ scopes # <<>> /\ \E B : UnderWay(B, work, scopes, symbolOf)
  /\ status = "analysed" => work = <<>> /\ scopes # <<>>
  /\ status = "semantic_error" =>
       work # <<>> /\ scopes # <<>> /\ errorAt = n /\ ~Correct(n)

-----------------------------------------------------------------------------
(* What the analysis finds at the node n. *)

\* The current call has the invariant's facts.
LEMMA AtNode ==
  ASSUME TypeOK, scopes # <<>>, work # <<>>, NEW B,
         UnderWay(B, work, scopes, symbolOf)
  PROVE  /\ WellFormed(tree)
         /\ n \in 2 .. Len(tree) /\ n \in DOMAIN tree /\ n \in Nat
         /\ n \notin Arguments
         /\ node = tree[n] /\ node \in TreeNode /\ node.kind # "Root"
         /\ node.name \in Names
         /\ scope \in DOMAIN scopes
         /\ Position(work) = n
         /\ {B[t] : t \in scopes[scope].chain} = Enclosing(n)
         /\ B[scope] = Owner(n)
<1>1. WellFormed(tree)
  BY DEF TypeOK
<1>2. work \in Seq([node : 2 .. Len(tree), scope : Nat])
  BY DEF UnderWay, CallsAhead
<1>3. Head(work) \in [node : 2 .. Len(tree), scope : Nat]
        /\ Head(work) = work[1] /\ 1 \in DOMAIN work
  <2> DEFINE R == [node : 2 .. Len(tree), scope : Nat]
  <2>1. work \in Seq(R)
    BY <1>2
  <2> HIDE DEF R
  <2>2. Head(work) \in R /\ Head(work) = work[1] /\ 1 \in DOMAIN work
    BY <2>1, LenProperties, HeadTailProperties, EmptySeq
  <2> QED
    BY <2>2 DEF R
<1>4. n \in 2 .. Len(tree)
  BY <1>3 DEF n
<1>5. n \in DOMAIN tree /\ n \in Nat
  BY <1>1, <1>4, TreeShape
<1>6. Head(work) \in CallsOf(work)
  BY <1>3 DEF CallsOf
<1>7. /\ n \notin Arguments
      /\ InScope(B, scopes, Head(work))
  BY <1>6 DEF UnderWay, CallsAhead, n
<1>8. /\ scope \in DOMAIN scopes
      /\ {B[t] : t \in scopes[scope].chain} = Enclosing(n)
  BY <1>7 DEF InScope, n, scope
<1>9. Position(work) = n
  BY DEF Position, n
<1>10. node = tree[n] /\ node \in TreeNode /\ node.kind # "Root"
  BY <1>1, <1>4, <1>5, TreeShape DEF node
<1>11. B[scope] = Owner(n)
  <2>1. IsChain(scope)
    BY <1>8 DEF TypeOK
  <2>2. scope \in scopes[scope].chain
    BY <2>1 DEF IsChain
  <2>3. B[scope] \in Enclosing(n)
    BY <1>8, <2>2
  <2>4. /\ Owner(n) \in Enclosing(n)
        /\ \A b \in Enclosing(n) : b <= Owner(n)
        /\ Enclosing(n) \subseteq 1 .. n
    BY <1>1, <1>5, OwnerIsInnermost
  <2>5. PICK t \in scopes[scope].chain : B[t] = Owner(n)
    BY <1>8, <2>4
  <2>6. B[t] <= B[scope]
    BY <1>8 DEF UnderWay, OpensBounds
  <2>7. B[scope] <= Owner(n) /\ Owner(n) <= B[scope]
    BY <2>3, <2>4, <2>5, <2>6
  <2>8. B[scope] \in Nat /\ Owner(n) \in Nat
    BY <1>5, <2>3, <2>4
  <2> QED
    BY <2>7, <2>8
<1> QED
  BY <1>1, <1>4, <1>5, <1>7, <1>8, <1>9, <1>10, <1>11 DEF TreeNode

\* A declaration before n that bounds n is bounded by a bound around n.
LEMMA VisibleFrom ==
  ASSUME WellFormed(tree), NEW m \in DOMAIN tree,
         NEW d \in Declarations, d < m
  PROVE  m \in Subtree(Owner(d)) <=> Owner(d) \in Enclosing(m)
<1>1. d \in DOMAIN tree
  BY DEF Declarations
<1>2. Owner(d) \in Enclosing(d) /\ Enclosing(d) \subseteq 1 .. d
  BY <1>1, OwnerIsInnermost
<1>3. Owner(d) \in Bounds
  BY <1>2 DEF Enclosing
<1>4. Owner(d) # m
  BY <1>1, <1>2, TreeShape
<1> QED
  BY <1>3, <1>4 DEF Enclosing

\* Declarations that were settled do not see each other.
LEMMA OneVisible ==
  ASSUME WellFormed(tree), NEW m \in DOMAIN tree, NEW sy, SettledBefore(m, sy),
         NEW d \in Visible(m), NEW e \in Visible(m)
  PROVE  d = e
<1>1. /\ d \in Declarations /\ d \in DOMAIN tree /\ d < m
      /\ e \in Declarations /\ e \in DOMAIN tree /\ e < m
      /\ tree[d].name = tree[e].name
      /\ m \in Subtree(Owner(d)) /\ m \in Subtree(Owner(e))
  BY DEF Visible, Declarations
<1>2. /\ m \in 1 .. Len(tree) /\ d \in 1 .. Len(tree) /\ e \in 1 .. Len(tree)
      /\ Len(tree) \in Nat
  BY <1>1, TreeShape
<1>3. ASSUME NEW a \in {d, e}, NEW b \in {d, e}, a < b
      PROVE  FALSE
  <2>1. Owner(a) \in Enclosing(a) /\ Enclosing(a) \subseteq 1 .. a
    BY <1>1, OwnerIsInnermost
  <2>2. Owner(a) \in DOMAIN tree
    BY <2>1, Bounding DEF Enclosing
  <2>3. b \in Owner(a) .. m
    BY <1>1, <1>2, <1>3, <2>1
  <2>4. b \in Subtree(Owner(a))
    BY <1>1, <2>2, <2>3, SubtreeOrder
  <2>5. a \in Visible(b)
    BY <1>1, <1>3, <2>4 DEF Visible
  <2>6. b \in 2 .. m - 1
    BY <1>1, <1>2, <1>3
  <2>7. b \notin Arguments
    BY <1>1, ArgumentsDeclareNothing
  <2>8. Correct(b)
    BY <2>6, <2>7 DEF SettledBefore, Settled
  <2>9. b \in Declarations
    BY <1>1
  <2>10. tree[b].kind \in {"VarDecl", "FnParam", "FnDef"}
    BY <2>9 DEF Declarations
  <2> QED
    BY <2>5, <2>8, <2>9, <2>10 DEF Correct
<1> QED
  BY <1>2, <1>3

\* Looking the name of n up in its scope finds the declaration it can see.
LEMMA LookupSeesVisible ==
  ASSUME TypeOK, scopes # <<>>, work # <<>>, NEW B,
         UnderWay(B, work, scopes, symbolOf)
  PROVE  \/ Visible(n) = {} /\ lookupSymbol(scope, node.name) = NoSymbol
         \/ \E d \in DOMAIN tree : /\ Visible(n) = {d}
                                   /\ d \in Declarations
                                   /\ lookupSymbol(scope, node.name) = Sym(d)
                                   /\ lookupSymbol(scope, node.name) # NoSymbol
<1>1. /\ WellFormed(tree) /\ n \in DOMAIN tree /\ node = tree[n]
      /\ node.name \in Names /\ scope \in DOMAIN scopes
      /\ Position(work) = n
      /\ {B[t] : t \in scopes[scope].chain} = Enclosing(n)
  BY AtNode
<1>2. SettledBefore(n, symbolOf) /\ HoldDeclared(B, n, scopes)
  BY <1>1 DEF UnderWay
<1>3. scopes[scope].chain \subseteq DOMAIN scopes
  BY <1>1, ChainBounded
<1>4. ASSUME NEW d \in Visible(n)
      PROVE  \E t \in holders(scope, node.name) : scopes[t].table[node.name] = Sym(d)
  <2>1. /\ d \in Declarations /\ d < n /\ tree[d].name = node.name
        /\ n \in Subtree(Owner(d))
    BY <1>1 DEF Visible
  <2>2. Owner(d) \in Enclosing(n)
    BY <1>1, <2>1, VisibleFrom
  <2>3. PICK t \in scopes[scope].chain : B[t] = Owner(d)
    BY <1>1, <2>2
  <2>4. scopes[t].table[node.name] = Sym(d)
    BY <1>2, <1>3, <2>1, <2>3 DEF HoldDeclared
  <2>5. Sym(d) # NoSymbol
    BY DEF Sym, createSymbol, NoSymbol
  <2> QED
    BY <2>3, <2>4, <2>5 DEF holders
<1>5. ASSUME NEW t \in holders(scope, node.name)
      PROVE  \E d \in Visible(n) : scopes[t].table[node.name] = Sym(d)
  <2>1. t \in scopes[scope].chain /\ scopes[t].table[node.name] # NoSymbol
    BY DEF holders
  <2>2. PICK d \in Declarations : /\ d < n /\ tree[d].name = node.name
                                  /\ Owner(d) = B[t]
                                  /\ scopes[t].table[node.name] = Sym(d)
    BY <1>1, <1>2, <1>3, <2>1 DEF HoldDeclared
  <2>3. Owner(d) \in Enclosing(n)
    BY <1>1, <2>1, <2>2
  <2>4. n \in Subtree(Owner(d))
    BY <1>1, <2>2, <2>3, VisibleFrom
  <2> QED
    BY <1>1, <2>2, <2>4 DEF Visible
<1>6. CASE Visible(n) = {}
  <2>1. holders(scope, node.name) = {}
    BY <1>5, <1>6
  <2> QED
    BY <1>6, <2>1 DEF lookupSymbol
<1>7. CASE Visible(n) # {}
  <2>1. PICK d \in Visible(n) : TRUE
    BY <1>7
  <2>2. Visible(n) = {d}
    BY <1>1, <1>2, <2>1, OneVisible
  <2>3. holders(scope, node.name) # {}
    BY <1>4, <2>1
  <2>4. /\ Max(holders(scope, node.name)) \in holders(scope, node.name)
        /\ lookupSymbol(scope, node.name)
             = scopes[Max(holders(scope, node.name))].table[node.name]
        /\ lookupSymbol(scope, node.name) # NoSymbol
    BY <1>1, <2>3, LookupFinds
  <2>5. lookupSymbol(scope, node.name) = Sym(d)
    BY <1>5, <2>2, <2>4
  <2>6. d \in Declarations /\ d \in DOMAIN tree
    BY <2>1 DEF Visible, Declarations
  <2> QED
    BY <2>2, <2>4, <2>5, <2>6
<1> QED
  BY <1>6, <1>7

-----------------------------------------------------------------------------
(* The verdict on n. *)

LEMMA DeclarationVerdict ==
  ASSUME TypeOK, scopes # <<>>, work # <<>>, NEW B,
         UnderWay(B, work, scopes, symbolOf),
         node.kind \in {"VarDecl", "FnParam", "FnDef"}
  PROVE  CanBeDeclared <=> Correct(n)
<1>1. n \in DOMAIN tree /\ node = tree[n]
  BY AtNode
<1>2. n \in Declarations
  BY <1>1 DEF Declarations
<1>3. Correct(n) <=> Visible(n) = {} /\ node.typeName \in Types
  BY <1>1, <1>2 DEF Correct
<1> QED
  BY <1>3, LookupSeesVisible DEF CanBeDeclared

LEMMA VariableVerdict ==
  ASSUME TypeOK, scopes # <<>>, work # <<>>, NEW B,
         UnderWay(B, work, scopes, symbolOf),
         node.kind \in {"AssignSt", "VarExpr"}
  PROVE  /\ symbolHere.symbolType = "Var" <=> Correct(n)
         /\ symbolHere.symbolType = "Var" =>
              /\ Variables(n) = {symbolHere.declaredAt}
              /\ symbolHere.isGlobal <=> Owner(symbolHere.declaredAt) = 1
<1>1. n \in DOMAIN tree /\ node = tree[n]
  BY AtNode
<1>2. n \notin Declarations
  BY <1>1 DEF Declarations
<1>3. Correct(n) <=> Variables(n) # {}
  BY <1>1, <1>2 DEF Correct
<1>4. symbolHere = lookupSymbol(scope, node.name)
  BY DEF symbolHere
<1>5. CASE Visible(n) = {} /\ symbolHere = NoSymbol
  BY <1>3, <1>5 DEF Variables, NoSymbol
<1>6. CASE \E d \in DOMAIN tree : Visible(n) = {d} /\ symbolHere = Sym(d)
  <2>1. PICK d \in DOMAIN tree : Visible(n) = {d} /\ symbolHere = Sym(d)
    BY <1>6
  <2>2. /\ symbolHere.symbolType = "Var" <=> ~IsFn(d)
        /\ symbolHere.declaredAt = d
        /\ symbolHere.isGlobal = (Owner(d) = 1)
    BY <2>1 DEF Sym, createSymbol
  <2>3. Variables(n) = IF IsFn(d) THEN {} ELSE {d}
    BY <2>1 DEF Variables, IsFn
  <2> QED
    BY <1>3, <2>2, <2>3
<1> QED
  BY <1>4, <1>5, <1>6, LookupSeesVisible

\* The number of parameters is right as long as it fits into the symbol.
LEMMA CallVerdict ==
  ASSUME TypeOK, scopes # <<>>, work # <<>>, NEW B,
         UnderWay(B, work, scopes, symbolOf),
         tree \in Trees, ParametersFit, node.kind = "FnCallExpr"
  PROVE  RightArguments <=> Correct(n)
<1>1. n \in DOMAIN tree /\ node = tree[n] /\ node \in TreeNode /\ WellFormed(tree)
  BY AtNode
<1>2. n \notin Declarations
  BY <1>1 DEF Declarations
<1>3. Correct(n) <=> \E d \in Functions(n) : Len(tree[d].kids) = Len(node.kids) + 1
  BY <1>1, <1>2 DEF Correct
<1>4. symbolHere = lookupSymbol(scope, node.name)
  BY DEF symbolHere
<1>5. CASE Visible(n) = {} /\ symbolHere = NoSymbol
  BY <1>3, <1>5 DEF Functions, NoSymbol, RightArguments
<1>6. CASE \E d \in DOMAIN tree : Visible(n) = {d} /\ symbolHere = Sym(d)
  <2>1. PICK d \in DOMAIN tree : Visible(n) = {d} /\ symbolHere = Sym(d)
    BY <1>6
  <2>2. symbolHere.symbolType = "Fn" <=> IsFn(d)
    BY <2>1 DEF Sym, createSymbol
  <2>3. Functions(n) = IF IsFn(d) THEN {d} ELSE {}
    BY <2>1 DEF Functions, Variables, IsFn
  <2>4. CASE IsFn(d)
    <3> DEFINE count == Len(tree[d].kids)
               given == Len(node.kids)
    <3>1. tree[d] \in TreeNode
      BY <1>1, TreeShape
    <3>2. count \in Nat /\ given \in Nat
      BY <1>1, <3>1, LenProperties DEF TreeNode
    <3>3. count > 0 /\ count <= ParamValues
      BY <1>1, <2>4 DEF IsFn, WellFormed, HasParts, ParametersFit
    <3>4. symbolHere.param_num = (count - 1) % ParamValues
      BY <2>1, <2>4 DEF Sym, createSymbol
    <3> HIDE DEF count, given
    <3>5. (count - 1) % ParamValues = count - 1
      BY <3>2, <3>3, ParamValuesAssumption
    <3>6. symbolHere.param_num = given <=> count = given + 1
      BY <3>2, <3>4, <3>5
    <3> QED
      BY <1>3, <2>2, <2>3, <2>4, <3>6 DEF RightArguments, count, given
  <2>5. CASE ~IsFn(d)
    BY <1>3, <2>2, <2>3, <2>5 DEF RightArguments
  <2> QED
    BY <2>4, <2>5
<1> QED
  BY <1>4, <1>5, <1>6, LookupSeesVisible

\* Any other node is right.
LEMMA OtherVerdict ==
  ASSUME NEW m \in DOMAIN tree,
         tree[m].kind \notin {"VarDecl", "FnParam", "FnDef", "AssignSt", "VarExpr",
                              "FnCallExpr"}
  PROVE  Correct(m)
BY DEF Correct, Declarations

-----------------------------------------------------------------------------
(* The calls to come. *)

LEMMA HeadAndTail ==
  ASSUME NEW R, NEW w \in Seq(R), w # <<>>, Ordered(w)
  PROVE  /\ Tail(w) \in Seq(R) /\ Ordered(Tail(w))
         /\ Head(w) \in CallsOf(w) /\ Head(w) \in R
         /\ CallsOf(Tail(w)) \subseteq CallsOf(w)
         /\ \A call \in CallsOf(w) : call = Head(w) \/ call \in CallsOf(Tail(w))
         /\ \A call \in CallsOf(Tail(w)) : Head(w).node < call.node
<1> DEFINE size == Len(w)
<1>1. /\ size \in Nat /\ size > 0 /\ DOMAIN w = 1 .. size /\ Head(w) = w[1]
      /\ Tail(w) \in Seq(R) /\ Head(w) \in R
  BY LenProperties, HeadTailProperties, EmptySeq
<1>2. /\ DOMAIN Tail(w) = 1 .. size - 1
      /\ \A k \in 1 .. size - 1 : Tail(w)[k] = w[k + 1]
  <2>1. /\ Len(Tail(w)) = size - 1
        /\ \A k \in 1 .. Len(Tail(w)) : Tail(w)[k] = w[k + 1]
    BY HeadTailProperties
  <2> QED
    BY <1>1, <2>1, LenProperties
<1> HIDE DEF size
<1>3. \A k \in 1 .. size - 1 : k + 1 \in 1 .. size
  BY <1>1
<1>4. \A k \in 1 .. size : k = 1 \/ (k - 1 \in 1 .. size - 1 /\ (k - 1) + 1 = k)
  BY <1>1
<1>5. \A j, k \in 1 .. size : j < k => w[j].node < w[k].node
  BY <1>1 DEF Ordered
<1>6. Ordered(Tail(w))
  <2>1. \A j, k \in 1 .. size - 1 : j < k => w[j + 1].node < w[k + 1].node
    BY <1>1, <1>3, <1>5
  <2> QED
    BY <1>2, <2>1 DEF Ordered
<1>7. CallsOf(w) = {w[k] : k \in 1 .. size}
        /\ CallsOf(Tail(w)) = {w[k + 1] : k \in 1 .. size - 1}
  BY <1>1, <1>2 DEF CallsOf
<1>8. Head(w) \in CallsOf(w) /\ CallsOf(Tail(w)) \subseteq CallsOf(w)
  BY <1>1, <1>3, <1>7
<1>9. ASSUME NEW call \in CallsOf(w) PROVE call = Head(w) \/ call \in CallsOf(Tail(w))
  BY <1>1, <1>4, <1>7
<1>10. ASSUME NEW call \in CallsOf(Tail(w)) PROVE Head(w).node < call.node
  <2>1. PICK k \in 1 .. size - 1 : call = w[k + 1]
    BY <1>7
  <2>2. 1 \in 1 .. size /\ k + 1 \in 1 .. size /\ 1 < k + 1
    BY <1>1, <2>1
  <2> QED
    BY <1>1, <1>5, <2>1, <2>2
<1> QED
  BY <1>1, <1>6, <1>8, <1>9, <1>10

LEMMA OrderedConcat ==
  ASSUME NEW R, NEW v \in Seq(R), NEW w \in Seq(R), Ordered(v), Ordered(w),
         \A b \in CallsOf(v) : \A c \in CallsOf(w) : b.node < c.node
  PROVE  /\ v \o w \in Seq(R) /\ Ordered(v \o w)
         /\ CallsOf(v \o w) = CallsOf(v) \cup CallsOf(w)
<1> DEFINE i == Len(v)
           j == Len(w)
           all == v \o w
<1>1. /\ i \in Nat /\ j \in Nat /\ DOMAIN v = 1 .. i /\ DOMAIN w = 1 .. j
      /\ all \in Seq(R) /\ DOMAIN all = 1 .. i + j
      /\ \A k \in 1 .. i + j : all[k] = IF k <= i THEN v[k] ELSE w[k - i]
  BY LenProperties, ConcatProperties
<1> HIDE DEF i, j, all
<1>2. \A k \in 1 .. i + j : k <= i => k \in 1 .. i /\ all[k] = v[k]
  BY <1>1
<1>3. \A k \in 1 .. i + j : ~(k <= i) => k - i \in 1 .. j /\ all[k] = w[k - i]
  BY <1>1
<1>4. Ordered(all)
  <2>0. /\ \A k, l \in 1 .. i : k < l => v[k].node < v[l].node
        /\ \A k, l \in 1 .. j : k < l => w[k].node < w[l].node
    BY <1>1 DEF Ordered
  <2>1. SUFFICES ASSUME NEW k \in 1 .. i + j, NEW l \in 1 .. i + j, k < l
                 PROVE  all[k].node < all[l].node
    BY <1>1 DEF Ordered
  <2>2. CASE l <= i
    <3>1. k <= i
      BY <1>1, <2>1, <2>2
    <3> QED
      BY <1>2, <2>0, <2>1, <2>2, <3>1
  <2>3. CASE k <= i /\ ~(l <= i)
    BY <1>1, <1>2, <1>3, <2>3 DEF CallsOf
  <2>4. CASE ~(k <= i)
    <3>1. ~(l <= i) /\ k - i < l - i
      BY <1>1, <2>1, <2>4
    <3> QED
      BY <1>1, <1>3, <2>0, <2>4, <3>1
  <2> QED
    BY <2>2, <2>3, <2>4
<1>5. CallsOf(all) = CallsOf(v) \cup CallsOf(w)
  <2>1. ASSUME NEW k \in 1 .. i PROVE k \in 1 .. i + j /\ all[k] = v[k]
    BY <1>1, <1>2
  <2>2. ASSUME NEW k \in 1 .. j PROVE k + i \in 1 .. i + j /\ all[k + i] = w[k]
    <3>1. k + i \in 1 .. i + j /\ ~(k + i <= i) /\ (k + i) - i = k
      BY <1>1
    <3> QED
      BY <1>3, <3>1
  <2>3. /\ CallsOf(all) = {all[k] : k \in 1 .. i + j}
        /\ CallsOf(v) = {v[k] : k \in 1 .. i}
        /\ CallsOf(w) = {w[k] : k \in 1 .. j}
    BY <1>1 DEF CallsOf
  <2>4. CallsOf(v) \cup CallsOf(w) \subseteq CallsOf(all)
    BY <2>1, <2>2, <2>3
  <2>5. ASSUME NEW k \in 1 .. i + j PROVE all[k] \in CallsOf(v) \cup CallsOf(w)
    <3>1. CASE k <= i
      BY <1>2, <2>3, <3>1
    <3>2. CASE ~(k <= i)
      BY <1>3, <2>3, <3>2
    <3> QED
      BY <3>1, <3>2
  <2> QED
    BY <2>3, <2>4, <2>5
<1> QED
  BY <1>1, <1>4, <1>5 DEF all

\* The analysis is at the least node to come.
LEMMA PositionIsLeast ==
  ASSUME NEW w \in Seq([node : 2 .. Len(tree), scope : Nat]), Ordered(w),
         NEW nodes, nodes = {call.node : call \in CallsOf(w)}
  PROVE  IF nodes = {} THEN Position(w) = Len(tree) + 1
         ELSE Position(w) \in nodes /\ \A m \in nodes : Position(w) <= m
<1> DEFINE R == [node : 2 .. Len(tree), scope : Nat]
<1>1. w \in Seq(R)
  OBVIOUS
<1>2. \A call \in R : call.node \in 2 .. Len(tree)
  OBVIOUS
<1> HIDE DEF R
<1>3. CASE w = <<>>
  <2>1. CallsOf(w) = {}
    BY <1>3 DEF CallsOf
  <2> QED
    BY <1>3, <2>1 DEF Position
<1>4. CASE w # <<>>
  <2>1. /\ Head(w) \in CallsOf(w) /\ Head(w) \in R
        /\ \A call \in CallsOf(w) : call = Head(w) \/ call \in CallsOf(Tail(w))
        /\ \A call \in CallsOf(Tail(w)) : Head(w).node < call.node
        /\ CallsOf(Tail(w)) \subseteq CallsOf(w)
    BY <1>1, <1>4, HeadAndTail
  <2>2. CallsOf(w) \subseteq R
    BY <1>1, ElementOfSeq, LenProperties DEF CallsOf
  <2>3. Position(w) = Head(w).node
    BY <1>4 DEF Position
  <2>4. \A call \in CallsOf(w) : Head(w).node <= call.node
    BY <1>2, <2>1, <2>2
  <2> QED
    BY <2>1, <2>3, <2>4
<1> QED
  BY <1>3, <1>4

\* What is left of the calls when the one of m is made.
LEMMA Rest ==
  ASSUME WellFormed(tree), NEW w, CallsAhead(w), w # <<>>
  PROVE  LET m == Head(w).node
         IN  /\ m \in 2 .. Len(tree) /\ m \notin Arguments
             /\ Tail(w) \in Seq([node : 2 .. Len(tree), scope : Nat])
             /\ Ordered(Tail(w))
             /\ CallsOf(Tail(w)) \subseteq CallsOf(w)
             /\ {call.node : call \in CallsOf(Tail(w))}
                  = {k \in m + 1 .. Len(tree) : Parent(k) < m}
<1> DEFINE R == [node : 2 .. Len(tree), scope : Nat]
           m == Head(w).node
<1>1. w \in Seq(R) /\ Ordered(w)
  BY DEF CallsAhead
<1>2. \A call \in R : call.node \in 2 .. Len(tree)
  OBVIOUS
<1> HIDE DEF R
<1>3. /\ Tail(w) \in Seq(R) /\ Ordered(Tail(w))
      /\ Head(w) \in CallsOf(w) /\ Head(w) \in R
      /\ CallsOf(Tail(w)) \subseteq CallsOf(w)
      /\ \A call \in CallsOf(w) : call = Head(w) \/ call \in CallsOf(Tail(w))
      /\ \A call \in CallsOf(Tail(w)) : Head(w).node < call.node
  BY <1>1, HeadAndTail
<1>4. m \in 2 .. Len(tree) /\ m \notin Arguments
  BY <1>2, <1>3 DEF CallsAhead
<1>5. Position(w) = m
  BY DEF Position
<1>6. {call.node : call \in CallsOf(w)} = {k \in m .. Len(tree) : Parent(k) < m}
  BY <1>5 DEF CallsAhead, Ahead
<1>7. m \in Nat /\ Len(tree) \in Nat
  BY <1>4, TreeShape
<1>8. ASSUME NEW call \in CallsOf(Tail(w))
      PROVE  call.node \in {k \in m + 1 .. Len(tree) : Parent(k) < m}
  <2>1. call.node \in m .. Len(tree) /\ Parent(call.node) < m /\ m < call.node
    BY <1>3, <1>6
  <2> QED
    BY <1>7, <2>1
<1>9. ASSUME NEW k \in m + 1 .. Len(tree), Parent(k) < m
      PROVE  \E call \in CallsOf(Tail(w)) : k = call.node
  <2>1. k \in m .. Len(tree) /\ k # m
    BY <1>7
  <2>2. PICK call \in CallsOf(w) : k = call.node
    BY <1>6, <1>9, <2>1
  <2> QED
    BY <1>3, <2>1, <2>2
<1>10. {call.node : call \in CallsOf(Tail(w))}
         = {k \in m + 1 .. Len(tree) : Parent(k) < m}
  BY <1>8, <1>9
<1> QED
  BY <1>3, <1>4, <1>10 DEF R

\* The calls for the children of m come before all others, except that a call
\* of a function passes over its arguments.
LEMMA Advance ==
  ASSUME WellFormed(tree), NEW w, CallsAhead(w), w # <<>>,
         NEW calls \in Seq([node : 2 .. Len(tree), scope : Nat]), Ordered(calls),
         {call.node : call \in CallsOf(calls)}
           = IF tree[Head(w).node].kind = "FnCallExpr" THEN {}
             ELSE Kids(Head(w).node)
  PROVE  /\ CallsAhead(calls \o Tail(w))
         /\ Position(calls \o Tail(w)) \in Head(w).node + 1 .. Len(tree) + 1
         /\ CallsOf(calls \o Tail(w)) = CallsOf(calls) \cup CallsOf(Tail(w))
         /\ \A k \in Head(w).node + 1 .. Position(calls \o Tail(w)) - 1 :
              k \in Arguments
<1> DEFINE R == [node : 2 .. Len(tree), scope : Nat]
           m == Head(w).node
           v == calls \o Tail(w)
           size == Len(tree)
           rest == {k \in m + 1 .. size : Parent(k) < m}
           first == {call.node : call \in CallsOf(calls)}
           p == Position(v)
<1>1. /\ m \in 2 .. size /\ m \notin Arguments
      /\ Tail(w) \in Seq(R) /\ Ordered(Tail(w))
      /\ CallsOf(Tail(w)) \subseteq CallsOf(w)
      /\ {call.node : call \in CallsOf(Tail(w))} = rest
  BY Rest
<1>2. /\ size \in Nat /\ DOMAIN tree = 1 .. size /\ m \in DOMAIN tree /\ m \in Nat
      /\ \A k \in 2 .. size : Parent(k) \in 1 .. k - 1 /\ k \in Kids(Parent(k))
      /\ \A k \in 2 .. size : \A j \in Parent(k) + 1 .. k : Parent(j) >= Parent(k)
      /\ \A k \in Kids(m) : k \in m + 1 .. size /\ Parent(k) = m
  <2>1. size \in Nat /\ DOMAIN tree = 1 .. size
    BY TreeShape
  <2> HIDE DEF m, size
  <2>2. m \in DOMAIN tree /\ m \in Nat
    BY <1>1, <2>1
  <2>3. /\ \A k \in 2 .. size : Parent(k) \in 1 .. k - 1 /\ k \in Kids(Parent(k))
        /\ \A k \in 2 .. size : \A j \in Parent(k) + 1 .. k : Parent(j) >= Parent(k)
    BY TreeShape DEF size
  <2>4. \A k \in Kids(m) : k \in m + 1 .. size /\ Parent(k) = m
    BY <2>2, TreeShape DEF size
  <2> QED
    BY <2>1, <2>2, <2>3, <2>4
<1>3. first = IF tree[m].kind = "FnCallExpr" THEN {} ELSE Kids(m)
  OBVIOUS
<1>4. calls \in Seq(R)
  OBVIOUS
<1> HIDE DEF R, v, size
<1>5. ASSUME NEW b \in CallsOf(calls), NEW c \in CallsOf(Tail(w))
      PROVE  b.node < c.node
  <2>1. b.node \in Kids(m) /\ c.node \in rest
    BY <1>1, <1>3
  <2>2. /\ b.node \in m + 1 .. size /\ Parent(b.node) = m
        /\ c.node \in m + 1 .. size /\ Parent(c.node) < m
    BY <1>2, <2>1
  <2>3. SUFFICES ASSUME c.node <= b.node PROVE FALSE
    BY <1>2, <2>2
  <2>4. c.node \in m + 1 .. b.node /\ b.node \in 2 .. size
    BY <1>2, <2>2, <2>3
  <2>5. Parent(c.node) >= m
    BY <1>2, <2>2, <2>4
  <2>6. Parent(c.node) \in Nat
    BY <1>2, <2>2
  <2> QED
    BY <1>2, <2>2, <2>5, <2>6
<1>6. /\ v \in Seq(R) /\ Ordered(v)
      /\ CallsOf(v) = CallsOf(calls) \cup CallsOf(Tail(w))
  BY <1>1, <1>4, <1>5, OrderedConcat DEF v
<1>7. {call.node : call \in CallsOf(v)} = first \cup rest
  BY <1>1, <1>6
<1>8. IF first \cup rest = {} THEN p = size + 1
      ELSE p \in first \cup rest /\ \A k \in first \cup rest : p <= k
  BY <1>6, <1>7, PositionIsLeast DEF R, size
<1> HIDE DEF p
<1>9. \A k \in rest : k \in m + 1 .. size /\ Parent(k) < m
  OBVIOUS
<1>10. \A call \in CallsOf(v) : call.node \notin Arguments
  <2>1. \A call \in CallsOf(Tail(w)) : call.node \notin Arguments
    BY <1>1 DEF CallsAhead
  <2>2. \A call \in CallsOf(calls) : call.node \notin Arguments
    <3>1. ASSUME NEW call \in CallsOf(calls) PROVE call.node \notin Arguments
      <4>1. tree[m].kind # "FnCallExpr" /\ call.node \in Kids(m)
        BY <1>3
      <4> QED
        BY <1>1, <1>2, <4>1, ArgumentsBelowCalls
    <3> QED
      BY <3>1
  <2> QED
    BY <1>6, <2>1, <2>2
<1>11. CASE tree[m].kind # "FnCallExpr"
  <2>1. first \cup rest = {k \in m + 1 .. size : Parent(k) < m + 1}
    <3>1. first = Kids(m)
      BY <1>3, <1>11
    <3>2. ASSUME NEW k \in m + 1 .. size, Parent(k) < m + 1
          PROVE  k \in Kids(m) \/ Parent(k) < m
      <4>1. k \in 2 .. size
        BY <1>1, <1>2
      <4>2. Parent(k) \in Nat /\ k \in Kids(Parent(k))
        BY <1>2, <4>1
      <4> QED
        BY <1>2, <3>2, <4>2
    <3>3. \A k \in rest : Parent(k) < m + 1
      <4>1. SUFFICES ASSUME NEW k \in rest PROVE Parent(k) < m + 1
        OBVIOUS
      <4>2. k \in 2 .. size /\ Parent(k) < m
        BY <1>1, <1>2, <4>1
      <4>3. Parent(k) \in Nat
        BY <1>2, <4>2
      <4> QED
        BY <1>2, <4>2, <4>3
    <3>4. \A k \in Kids(m) : k \in m + 1 .. size /\ Parent(k) < m + 1
      BY <1>2
    <3>5. \A k \in rest : k \in m + 1 .. size
      OBVIOUS
    <3>6. \A k \in first \cup rest : k \in m + 1 .. size /\ Parent(k) < m + 1
      BY <3>1, <3>3, <3>4, <3>5
    <3>7. \A k \in m + 1 .. size : Parent(k) < m + 1 => k \in first \cup rest
      BY <3>1, <3>2
    <3> DEFINE low(k) == Parent(k) < m + 1
               span == m + 1 .. size
    <3>8. /\ \A k \in first \cup rest : k \in span /\ low(k)
          /\ \A k \in span : low(k) => k \in first \cup rest
      BY <3>6, <3>7
    <3> HIDE DEF first, rest, low, span
    <3>9. first \cup rest = {k \in span : low(k)}
      BY <3>8
    <3> QED
      BY <3>9 DEF low, span
  <2>2. p = m + 1
    <3>1. CASE m = size
      <4>1. first \cup rest = {}
        <5>1. m + 1 .. size = {}
          BY <1>2, <3>1
        <5> HIDE DEF first, rest
        <5> QED
          BY <2>1, <5>1
      <4> QED
        BY <1>8, <3>1, <4>1
    <3>2. CASE m < size
      <4>1. m + 1 \in 2 .. size /\ m + 1 \in m + 1 .. size
        BY <1>1, <1>2, <3>2
      <4>2. Parent(m + 1) \in 1 .. (m + 1) - 1
        BY <1>2, <4>1
      <4>3. Parent(m + 1) < m + 1
        BY <1>2, <4>2
      <4>4. m + 1 \in first \cup rest
        BY <2>1, <4>1, <4>3
      <4>5. p \in m + 1 .. size /\ p <= m + 1
        BY <1>8, <2>1, <4>4
      <4> QED
        BY <1>2, <4>5
    <3> QED
      BY <1>1, <1>2, <3>1, <3>2
  <2>3. first \cup rest = Ahead(p)
    BY <2>1, <2>2 DEF Ahead, size
  <2>4. CallsAhead(v)
    BY <1>6, <1>7, <1>10, <2>3 DEF CallsAhead, p, R, size
  <2>5. p \in m + 1 .. size + 1 /\ \A k \in m + 1 .. p - 1 : k \in Arguments
    BY <1>1, <1>2, <2>2
  <2> QED
    BY <1>6, <2>4, <2>5 DEF p, v, size
<1>12. CASE tree[m].kind = "FnCallExpr"
  <2>1. first = {}
    BY <1>3, <1>12
  <2>2. p \in m + 1 .. size + 1 /\ \A k \in rest : p <= k
    <3>1. first \cup rest = rest
      BY <2>1
    <3>2. IF rest = {} THEN p = size + 1 ELSE p \in rest /\ \A k \in rest : p <= k
      BY <1>8, <3>1
    <3>3. \A k \in rest : k \in m + 1 .. size
      BY <1>9
    <3> HIDE DEF first, rest, m
    <3>4. CASE rest = {}
      BY <1>1, <1>2, <3>2, <3>4
    <3>5. CASE rest # {}
      <4>1. p \in m + 1 .. size
        BY <3>2, <3>3, <3>5
      <4> QED
        BY <1>2, <3>2, <3>5, <4>1
    <3> QED
      BY <3>4, <3>5
  <2>3. ASSUME NEW k \in m + 1 .. p - 1 PROVE k \in Arguments
    <3>1. ASSUME NEW j \in m + 1 .. k PROVE Parent(j) >= m
      <4>1. j \in m + 1 .. size /\ j \in 2 .. size /\ ~(p <= j)
        BY <1>1, <1>2, <2>2, <2>3, <3>1
      <4>2. Parent(j) \in Nat /\ ~(Parent(j) < m)
        BY <1>2, <2>2, <4>1
      <4> QED
        BY <1>2, <4>2
    <3>2. k \in m .. size /\ k # m
      BY <1>2, <2>2, <2>3
    <3>3. k \in Subtree(m)
      BY <1>2, <3>1, <3>2, InSubtree DEF size
    <3> QED
      BY <1>2, <1>12, <3>2, <3>3, ArgumentsBelowCalls
  <2>4. rest = Ahead(p)
    <3>1. ASSUME NEW k \in rest PROVE k \in p .. size /\ Parent(k) < p
      <4>1. k \in m + 1 .. size /\ k \in 2 .. size /\ Parent(k) < m /\ p <= k
        BY <1>1, <1>2, <2>2
      <4>2. Parent(k) \in Nat
        BY <1>2, <4>1
      <4> QED
        BY <1>2, <2>2, <4>1, <4>2
    <3>2. ASSUME NEW k \in p .. size, Parent(k) < p PROVE k \in rest
      <4>1. k \in m + 1 .. size /\ k \in 2 .. size /\ p <= size /\ p <= k /\ p \in Nat
        BY <1>1, <1>2, <2>2, <3>2
      <4>2. p \in rest
        <5>1. p # size + 1
          BY <1>2, <4>1
        <5> QED
          BY <1>8, <2>1, <5>1
      <4>3. p \in m + 1 .. size /\ p \in 2 .. size /\ Parent(p) < m
        BY <1>1, <1>2, <4>2
      <4>4. Parent(k) \in Nat /\ Parent(p) \in Nat
        BY <1>2, <4>1, <4>3
      <4>5. SUFFICES ASSUME ~(Parent(k) < m) PROVE FALSE
        BY <4>1
      <4>6. p \in Parent(k) + 1 .. k
        BY <1>2, <3>2, <4>1, <4>4
      <4>7. Parent(p) >= Parent(k)
        BY <1>2, <4>1, <4>6
      <4> QED
        BY <1>2, <4>3, <4>4, <4>5, <4>7
    <3> QED
      BY <1>2, <3>1, <3>2 DEF Ahead, size
  <2>5. CallsAhead(v)
    BY <1>6, <1>7, <1>10, <2>1, <2>4 DEF CallsAhead, p, R, size
  <2> QED
    BY <1>6, <2>2, <2>3, <2>5 DEF p, v, size
<1> QED
  BY <1>11, <1>12

-----------------------------------------------------------------------------
(* What a step does to the scopes. *)

\* Between n and n + 1 nothing but n is declared.
LEMMA Later ==
  ASSUME WellFormed(tree), NEW m \in DOMAIN tree, NEW B, NEW sc,
         OpensBounds(B, m, sc), HoldDeclared(B, m, sc)
  PROVE  /\ OpensBounds(B, m + 1, sc)
         /\ m \notin Declarations => HoldDeclared(B, m + 1, sc)
<1>1. DOMAIN tree = 1 .. Len(tree) /\ Len(tree) \in Nat /\ m \in Nat
  BY TreeShape
<1>2. \A b \in Bounds : b \in Nat
  BY <1>1, Bounding
<1>3. \A b \in Branches : b \in 2 .. Len(tree) /\ Parent(b) \in Nat
  <2>1. SUFFICES ASSUME NEW b \in Branches
                 PROVE  b \in 2 .. Len(tree) /\ Parent(b) \in Nat
    OBVIOUS
  <2>2. b \in 2 .. Len(tree)
    BY Bounding
  <2>3. Parent(b) \in 1 .. b - 1
    BY <2>2, TreeShape
  <2> QED
    BY <2>2, <2>3
<1>4. \A s \in DOMAIN sc : Opened(B, m + 1, s)
  <2>1. SUFFICES ASSUME NEW s \in DOMAIN sc PROVE Opened(B, m + 1, s)
    OBVIOUS
  <2>2. B[s] \in Bounds /\ Opened(B, m, s)
    BY DEF OpensBounds
  <2>3. B[s] \in Nat
    BY <1>2, <2>2
  <2>4. CASE B[s] < m
    BY <1>1, <2>3, <2>4 DEF Opened
  <2>5. CASE B[s] \in Branches /\ Parent(B[s]) < m
    <3>1. Parent(B[s]) \in Nat
      BY <1>3, <2>5
    <3>2. Parent(B[s]) < m + 1
      BY <1>1, <2>5, <3>1
    <3> QED
      BY <2>5, <3>2 DEF Opened
  <2> QED
    BY <2>2, <2>4, <2>5 DEF Opened
<1>5. OpensBounds(B, m + 1, sc)
  BY <1>4 DEF OpensBounds
<1>6. ASSUME m \notin Declarations PROVE HoldDeclared(B, m + 1, sc)
  <2>1. \A d \in Declarations : d < m + 1 <=> d < m
    <3>1. SUFFICES ASSUME NEW d \in Declarations PROVE d < m + 1 <=> d < m
      OBVIOUS
    <3>2. d \in Nat /\ d # m
      BY <1>1, <1>6 DEF Declarations
    <3> QED
      BY <1>1, <3>2
  <2> QED
    BY <2>1 DEF HoldDeclared
<1> QED
  BY <1>5, <1>6

\* The symbols the analysis makes.
LEMMA SymbolMade ==
  ASSUME TypeOK, scopes # <<>>, work # <<>>, NEW B,
         UnderWay(B, work, scopes, symbolOf)
  PROVE  /\ node.kind \in {"VarDecl", "FnParam"} => variable = Sym(n)
         /\ node.kind = "FnDef" => function = Sym(n)
         /\ Sym(n) # NoSymbol
         /\ Sym(n).declaredAt = n
<1>1. /\ WellFormed(tree) /\ n \in DOMAIN tree /\ n \in 2 .. Len(tree)
      /\ node = tree[n]
      /\ scope \in DOMAIN scopes /\ B[scope] = Owner(n)
      /\ Position(work) = n
  BY AtNode
<1>2. scopes[scope].isGlobal <=> Owner(n) = 1
  BY <1>1 DEF UnderWay, OpensBounds
<1>3. scopes[scope].isGlobal \in BOOLEAN
  BY <1>1, ChainBounded DEF ScopeType
<1>4. scopes[scope].isGlobal = (Owner(n) = 1)
  BY <1>2, <1>3
<1>5. n # 0
  BY <1>1, TreeShape
<1> QED
  BY <1>1, <1>4, <1>5 DEF Sym, createSymbol, variable, function, IsFn, NoSymbol

\* A declaration that is not refused enters its symbol into its scope, where its
\* name has meant nothing.
LEMMA DeclareName ==
  ASSUME TypeOK, scopes # <<>>, work # <<>>, NEW B,
         UnderWay(B, work, scopes, symbolOf),
         node.kind \in {"VarDecl", "FnParam", "FnDef"}, CanBeDeclared
  PROVE  LET after == insertSymbol(scope, Sym(n))
         IN  /\ after \in Seq(ScopeType)
             /\ Len(after) = Len(scopes) /\ DOMAIN after = DOMAIN scopes
             /\ \A t \in DOMAIN scopes : after[t].chain = scopes[t].chain
             /\ OpensBounds(B, n + 1, after)
             /\ HoldDeclared(B, n + 1, after)
<1> DEFINE after == insertSymbol(scope, Sym(n))
           before == scopes[scope].table
           changed == [scopes[scope] EXCEPT !.table = [@ EXCEPT ![node.name] = Sym(n)]]
<1>1. /\ WellFormed(tree) /\ n \in DOMAIN tree /\ n \in Nat
      /\ node = tree[n] /\ node.name \in Names
      /\ scope \in DOMAIN scopes /\ B[scope] = Owner(n)
      /\ Position(work) = n /\ node.kind # "Root"
  BY AtNode
<1>2. Sym(n) # NoSymbol /\ Sym(n).declaredAt = n /\ Sym(n) \in Symbol
  <2>1. /\ node.kind \in {"VarDecl", "FnParam"} => variable = Sym(n)
        /\ node.kind = "FnDef" => function = Sym(n)
        /\ Sym(n) # NoSymbol
        /\ Sym(n).declaredAt = n
    BY SymbolMade
  <2>2. variable \in Symbol /\ (node.kind = "FnDef" => function \in Symbol)
    BY <1>1, DeclaredSymbols
  <2> QED
    BY <2>1, <2>2
<1>3. n \in Declarations
  BY <1>1 DEF Declarations
<1>4. Visible(n) = {}
  <2>1. Correct(n)
    BY DeclarationVerdict
  <2> QED
    BY <1>1, <1>3, <2>1 DEF Correct
<1>5. lookupSymbol(scope, node.name) = NoSymbol
  BY DEF CanBeDeclared
<1>6. /\ OpensBounds(B, n, scopes) /\ HoldDeclared(B, n, scopes)
      /\ OpensBounds(B, n + 1, scopes)
  <2>1. OpensBounds(B, n, scopes) /\ HoldDeclared(B, n, scopes)
    BY <1>1 DEF UnderWay
  <2> QED
    BY <1>1, <2>1, Later
\* Nothing of the name was declared in the bound of n.
<1>7. \A d \in Declarations :
        d < n /\ tree[d].name = node.name => Owner(d) # B[scope]
  <2>1. SUFFICES ASSUME NEW d \in Declarations, d < n, tree[d].name = node.name,
                        Owner(d) = Owner(n)
                 PROVE  FALSE
    BY <1>1
  <2>2. Owner(d) \in Enclosing(n)
    BY <1>1, <2>1, OwnerIsInnermost
  <2>3. n \in Subtree(Owner(d))
    BY <1>1, <2>1, <2>2, VisibleFrom
  <2> QED
    BY <1>1, <1>4, <2>1, <2>3 DEF Visible
<1>8. before[node.name] = NoSymbol
  BY <1>1, <1>6, <1>7 DEF HoldDeclared
<1>9. /\ after \in Seq(ScopeType)
      /\ Len(after) = Len(scopes) /\ DOMAIN after = DOMAIN scopes
      /\ \A t \in DOMAIN scopes : after[t].chain = scopes[t].chain
  BY <1>1, <1>2, <1>5, InsertSymbol
<1>10. /\ scopes \in [1 .. Len(scopes) -> ScopeType]
       /\ DOMAIN scopes = 1 .. Len(scopes)
       /\ scopes[scope] \in ScopeType
  BY <1>1, ChainBounded
<1>11. /\ changed.isGlobal = scopes[scope].isGlobal
       /\ changed.table[node.name] = Sym(n)
       /\ \A name \in Names \ {node.name} : changed.table[name] = before[name]
  BY <1>1, <1>10 DEF ScopeType
<1>12. after = [scopes EXCEPT ![scope] = changed]
  <2>1. tree[Sym(n).declaredAt].name = node.name
    BY <1>1, <1>2
  <2> HIDE DEF Sym
  <2> QED
    BY <1>8, <1>10, <2>1 DEF insertSymbol, ScopeType
<1> HIDE DEF after, changed, before
<1>13. /\ after[scope] = changed
       /\ \A t \in DOMAIN scopes \ {scope} : after[t] = scopes[t]
  BY <1>1, <1>10, <1>12
<1>14. OpensBounds(B, n + 1, after)
  <2>1. \A t \in DOMAIN scopes : after[t].isGlobal = scopes[t].isGlobal
    BY <1>11, <1>13
  <2> QED
    BY <1>6, <1>9, <2>1 DEF OpensBounds, Opened
<1>15. ASSUME NEW s \in DOMAIN scopes
       PROVE  /\ \A name \in Names :
                   after[s].table[name] # NoSymbol =>
                     \E d \in Declarations : /\ d < n + 1
                                             /\ tree[d].name = name
                                             /\ Owner(d) = B[s]
                                             /\ after[s].table[name] = Sym(d)
              /\ \A d \in Declarations :
                   d < n + 1 /\ Owner(d) = B[s]
                     => after[s].table[tree[d].name] = Sym(d)
  <2>1. \A d \in Declarations : d \in Nat /\ tree[d].name \in Names
    BY <1>1, TreeShape DEF Declarations, TreeNode
  <2>2. \A d \in Declarations : d < n + 1 <=> d < n \/ d = n
    BY <1>1, <2>1
  <2>3. /\ \A name \in Names :
             scopes[s].table[name] # NoSymbol =>
               \E d \in Declarations : /\ d < n
                                       /\ tree[d].name = name
                                       /\ Owner(d) = B[s]
                                       /\ scopes[s].table[name] = Sym(d)
        /\ \A d \in Declarations :
             d < n /\ Owner(d) = B[s] => scopes[s].table[tree[d].name] = Sym(d)
    BY <1>6 DEF HoldDeclared
  <2> HIDE DEF Sym
  <2>4. CASE s # scope
    <3>1. after[s] = scopes[s] /\ B[s] # Owner(n)
      BY <1>1, <1>6, <1>13, <2>4 DEF OpensBounds
    <3> QED
      BY <2>2, <2>3, <3>1
  <2>5. CASE s = scope
    <3>1. after[s].table[node.name] = Sym(n)
      BY <1>11, <1>13, <2>5
    <3>2. \A name \in Names \ {node.name} : after[s].table[name] = scopes[s].table[name]
      BY <1>11, <1>13, <2>5 DEF before
    <3>3. ASSUME NEW name \in Names, after[s].table[name] # NoSymbol
          PROVE  \E d \in Declarations : /\ d < n + 1
                                         /\ tree[d].name = name
                                         /\ Owner(d) = B[s]
                                         /\ after[s].table[name] = Sym(d)
      <4>1. CASE name = node.name
        BY <1>1, <1>3, <2>2, <2>5, <3>1, <4>1
      <4>2. CASE name # node.name
        BY <2>2, <2>3, <3>2, <3>3, <4>2
      <4> QED
        BY <4>1, <4>2
    <3>4. ASSUME NEW d \in Declarations, d < n + 1, Owner(d) = B[s]
          PROVE  after[s].table[tree[d].name] = Sym(d)
      <4>1. CASE d = n
        BY <1>1, <3>1, <4>1
      <4>2. CASE d < n
        <5>1. tree[d].name # node.name
          BY <1>7, <2>5, <3>4, <4>2
        <5> QED
          BY <2>1, <2>3, <3>2, <3>4, <4>2, <5>1
      <4> QED
        BY <2>2, <3>4, <4>1, <4>2
    <3> QED
      BY <3>3, <3>4
  <2> QED
    BY <2>4, <2>5
<1>16. HoldDeclared(B, n + 1, after)
  BY <1>9, <1>15 DEF HoldDeclared
<1> QED
  BY <1>9, <1>14, <1>16 DEF after

\* A sequence with one more element.
More(f, size, e) == [t \in 1 .. size + 1 |-> IF t = size + 1 THEN e ELSE f[t]]

LEMMA AppendIsMore ==
  ASSUME NEW R, NEW f \in Seq(R), NEW e \in R
  PROVE  Append(f, e) = More(f, Len(f), e)
<1> DEFINE long == Append(f, e)
           size == Len(f)
           last == size + 1
           all == 1 .. last
<1>1. /\ long \in Seq(R) /\ Len(long) = size + 1
      /\ \A i \in 1 .. size : long[i] = f[i]
      /\ long[size + 1] = e
  BY AppendProperties
<1>2. size \in Nat
  BY LenProperties
<1> HIDE DEF long, size
<1>3. DOMAIN long = all
  BY <1>1, <1>2, LenProperties
<1>4. \A t \in all : t = last \/ t \in 1 .. size
  BY <1>2
<1>5. long = [t \in DOMAIN long |-> long[t]]
  BY <1>1
<1> HIDE DEF last, all
<1>6. last = size + 1
  BY DEF last
<1>7. \A t \in all : long[t] = IF t = last THEN e ELSE f[t]
  BY <1>1, <1>4, <1>6
<1>8. long = [t \in all |-> IF t = last THEN e ELSE f[t]]
  BY <1>3, <1>5, <1>7
<1> QED
  BY <1>8 DEF More, long, last, all, size

LEMMA PairIsMore ==
  ASSUME NEW R, NEW f \in Seq(R), NEW d \in R, NEW e \in R
  PROVE  f \o <<d, e>> = More(More(f, Len(f), d), Len(f) + 1, e)
<1> DEFINE pair == <<d, e>>
           long == f \o pair
           size == Len(f)
           all == 1 .. (size + 1) + 1
<1>1. pair \in Seq(R) /\ Len(pair) = 2 /\ pair[1] = d /\ pair[2] = e
  OBVIOUS
<1> HIDE DEF pair
<1>2. /\ long \in Seq(R) /\ Len(long) = size + 2
      /\ \A i \in 1 .. size + 2 : long[i] = IF i <= size THEN f[i] ELSE pair[i - size]
  <2>1. /\ long \in Seq(R) /\ Len(long) = size + Len(pair)
        /\ \A i \in 1 .. size + Len(pair) :
             long[i] = IF i <= size THEN f[i] ELSE pair[i - size]
    BY <1>1, ConcatProperties
  <2> HIDE DEF long, size
  <2> QED
    BY <1>1, <2>1
<1>3. size \in Nat
  BY LenProperties
<1> HIDE DEF long, size
<1>4. DOMAIN long = all
  <2>1. DOMAIN long = 1 .. size + 2
    BY <1>2, LenProperties
  <2>2. 1 .. size + 2 = all
    BY <1>3
  <2> QED
    BY <2>1, <2>2
<1>5. \A t \in all : long[t] = IF t = (size + 1) + 1 THEN e
                                ELSE IF t = size + 1 THEN d ELSE f[t]
  <2>1. SUFFICES ASSUME NEW t \in all
                 PROVE  long[t] = IF t = (size + 1) + 1 THEN e
                                  ELSE IF t = size + 1 THEN d ELSE f[t]
    OBVIOUS
  <2>2. long[t] = IF t <= size THEN f[t] ELSE pair[t - size]
    BY <1>2, <1>3
  <2>3. CASE t <= size
    BY <1>3, <2>2, <2>3
  <2>4. CASE t = size + 1
    <3>1. t - size = 1 /\ ~(t <= size) /\ t # (size + 1) + 1
      BY <1>3, <2>4
    <3> QED
      BY <1>1, <2>2, <2>4, <3>1
  <2>5. CASE t = (size + 1) + 1
    <3>1. t - size = 2 /\ ~(t <= size)
      BY <1>3, <2>5
    <3> QED
      BY <1>1, <2>2, <2>5, <3>1
  <2> QED
    BY <1>3, <2>3, <2>4, <2>5
<1>6. \A t \in all : t # (size + 1) + 1 => t \in 1 .. size + 1
  BY <1>3
<1>7. long = [t \in DOMAIN long |-> long[t]]
  BY <1>2
<1> DEFINE one == More(f, size, d)
<1>8. \A t \in 1 .. size + 1 : one[t] = IF t = size + 1 THEN d ELSE f[t]
  BY DEF More
<1> HIDE DEF one
<1>9. \A t \in all : long[t] = IF t = (size + 1) + 1 THEN e ELSE one[t]
  BY <1>5, <1>6, <1>8
<1> HIDE DEF all
<1>10. long = [t \in all |-> IF t = (size + 1) + 1 THEN e ELSE one[t]]
  BY <1>4, <1>7, <1>9
<1> QED
  BY <1>10 DEF More, long, pair, one, size, all

\* The bound b may be opened below the scope s: it has not been, and nothing was
\* declared in it so far.
CanOpen(B, p, size, sc, s, b) ==
  /\ p \in Nat /\ size \in Nat /\ DOMAIN sc = 1 .. size /\ s \in 1 .. size
  /\ OpensBounds(B, p, sc) /\ HoldDeclared(B, p, sc)
  /\ b \in Bounds /\ b # 1
  /\ b < p \/ (b \in Branches /\ Parent(b) < p)
  /\ \A t \in 1 .. size : B[t] # b
  /\ \A t \in sc[s].chain : B[t] <= b
  /\ \A d \in Declarations : d < p => Owner(d) # b

\* The bounds of the scopes on a chain.
BoundsAlong(B, sc, s) == {B[t] : t \in sc[s].chain}

\* The scope t is below the scope s and opens b.
OpensBelow(C, more, t, B, sc, s, b) ==
  BoundsAlong(C, more, t) = BoundsAlong(B, sc, s) \cup {b}

LEMMA Open ==
  ASSUME WellFormed(tree), NEW p \in Nat, NEW size \in Nat, NEW sc, NEW B, NEW s, NEW b,
         CanOpen(B, p, size, sc, s, b)
  PROVE  LET more == More(sc, size,
                          ScopeObject(sc[s].chain \cup {size + 1}, FALSE))
             C == More(B, size, b)
         IN  /\ OpensBounds(C, p, more)
             /\ HoldDeclared(C, p, more)
             /\ \A call : InScope(B, sc, call) => InScope(C, more, call)
             /\ OpensBelow(C, more, size + 1, B, sc, s, b)
<1> DEFINE new == ScopeObject(sc[s].chain \cup {size + 1}, FALSE)
           more == More(sc, size, new)
           C == More(B, size, b)
<1>0. /\ p \in Nat /\ size \in Nat /\ DOMAIN sc = 1 .. size /\ s \in 1 .. size
      /\ OpensBounds(B, p, sc) /\ HoldDeclared(B, p, sc)
      /\ b \in Bounds /\ b # 1
      /\ b < p \/ (b \in Branches /\ Parent(b) < p)
      /\ \A t \in 1 .. size : B[t] # b
      /\ \A t \in sc[s].chain : B[t] <= b
      /\ \A d \in Declarations : d < p => Owner(d) # b
  BY DEF CanOpen
<1> USE <1>0
<1>1. /\ DOMAIN more = 1 .. size + 1
      /\ \A t \in 1 .. size : more[t] = sc[t] /\ t \in 1 .. size + 1 /\ t # size + 1
      /\ more[size + 1] = new
      /\ C[size + 1] = b
      /\ \A t \in 1 .. size : C[t] = B[t]
      /\ \A t \in 1 .. size + 1 : t \in 1 .. size \/ t = size + 1
      /\ size + 1 \in 1 .. size + 1
  <2>1. /\ \A t \in 1 .. size : t \in 1 .. size + 1 /\ t # size + 1
        /\ \A t \in 1 .. size + 1 : t \in 1 .. size \/ t = size + 1
        /\ size + 1 \in 1 .. size + 1
    OBVIOUS
  <2> HIDE DEF new
  <2>2. /\ more = [t \in 1 .. size + 1 |-> IF t = size + 1 THEN new ELSE sc[t]]
        /\ C = [t \in 1 .. size + 1 |-> IF t = size + 1 THEN b ELSE B[t]]
    BY DEF More
  <2> HIDE DEF more, C
  <2>3. /\ DOMAIN more = 1 .. size + 1
        /\ \A t \in 1 .. size + 1 :
             /\ more[t] = IF t = size + 1 THEN new ELSE sc[t]
             /\ C[t] = IF t = size + 1 THEN b ELSE B[t]
    BY <2>2
  <2> QED
    BY <2>1, <2>3
<1>2. /\ new.chain = sc[s].chain \cup {size + 1}
      /\ new.isGlobal = FALSE
      /\ \A name \in Names : new.table[name] = NoSymbol
  BY DEF ScopeObject
<1>3. \A t \in 1 .. size : /\ B[t] \in Bounds
                           /\ Opened(B, p, t)
                           /\ sc[t].isGlobal <=> B[t] = 1
                           /\ sc[t].chain \subseteq 1 .. size
                           /\ \A u \in sc[t].chain : B[u] <= B[t]
  BY DEF OpensBounds
<1>4. C \in [DOMAIN more -> Bounds]
  BY <1>1, <1>3 DEF More
<1> HIDE DEF new, more, C
<1>5. ASSUME NEW t \in DOMAIN more, NEW u \in DOMAIN more, C[t] = C[u]
      PROVE  t = u
  <2> DEFINE old == 1 .. size
             last == size + 1
  <2>1. \A v \in DOMAIN more : \/ v \in old /\ C[v] = B[v]
                               \/ v = last /\ C[v] = b
    BY <1>1
  <2>2. /\ \A v, w \in old : B[v] = B[w] => v = w
        /\ \A v \in old : B[v] # b
    BY DEF OpensBounds
  <2> HIDE DEF more, C, old, last
  <2> QED
    BY <1>5, <2>1, <2>2
<1>6. b \in Nat
  BY Bounding, TreeShape
<1>7. ASSUME NEW t \in DOMAIN more
      PROVE  /\ Opened(C, p, t)
             /\ more[t].isGlobal <=> C[t] = 1
             /\ more[t].chain \subseteq DOMAIN more
             /\ \A u \in more[t].chain : C[u] <= C[t]
  <2>1. CASE t \in 1 .. size
    <3>1. /\ more[t] = sc[t] /\ C[t] = B[t]
          /\ sc[t].chain \subseteq 1 .. size
      BY <1>1, <1>3, <2>1
    <3>2. \A u \in sc[t].chain : C[u] = B[u] /\ u \in DOMAIN more
      BY <1>1, <3>1
    <3> QED
      BY <1>3, <2>1, <3>1, <3>2 DEF Opened
  <2>2. CASE t = size + 1
    <3>1. more[t] = new /\ C[t] = b
      BY <1>1, <2>2
    <3>2. \A u \in sc[s].chain : u \in 1 .. size /\ C[u] = B[u]
      BY <1>1, <1>3
    <3>3. \A u \in new.chain : u \in DOMAIN more /\ C[u] <= b
      BY <1>1, <1>2, <1>6, <3>2
    <3> QED
      BY <1>2, <3>1, <3>3 DEF Opened
  <2> QED
    BY <1>1, <2>1, <2>2
<1>8. OpensBounds(C, p, more)
  BY <1>4, <1>5, <1>7 DEF OpensBounds
<1>9. HoldDeclared(C, p, more)
  <2>1. \A d \in Declarations : tree[d].name \in Names
    BY TreeShape DEF Declarations, TreeNode
  <2> SUFFICES ASSUME NEW t \in DOMAIN more
               PROVE  /\ \A name \in Names :
                           more[t].table[name] # NoSymbol =>
                             \E d \in Declarations :
                               /\ d < p
                               /\ tree[d].name = name
                               /\ Owner(d) = C[t]
                               /\ more[t].table[name] = Sym(d)
                      /\ \A d \in Declarations :
                           d < p /\ Owner(d) = C[t]
                             => more[t].table[tree[d].name] = Sym(d)
    BY DEF HoldDeclared
  <2>2. CASE t \in 1 .. size
    <3>1. more[t] = sc[t] /\ C[t] = B[t] /\ t \in DOMAIN sc
      BY <1>1, <2>2
    <3> QED
      BY <3>1 DEF HoldDeclared
  <2>3. CASE t = size + 1
    <3>1. more[t] = new /\ C[t] = b
      BY <1>1, <2>3
    <3> QED
      BY <1>2, <3>1
  <2> QED
    BY <1>1, <2>2, <2>3
<1>10. ASSUME NEW call, InScope(B, sc, call) PROVE InScope(C, more, call)
  <2>1. /\ call.scope \in 1 .. size
        /\ {B[t] : t \in sc[call.scope].chain} = Enclosing(call.node)
    BY <1>10 DEF InScope
  <2>2. more[call.scope] = sc[call.scope] /\ call.scope \in DOMAIN more
    BY <1>1, <2>1
  <2>3. \A t \in sc[call.scope].chain : C[t] = B[t]
    BY <1>1, <1>3, <2>1
  <2>4. {C[t] : t \in sc[call.scope].chain} = {B[t] : t \in sc[call.scope].chain}
    BY <2>3
  <2> QED
    BY <2>1, <2>2, <2>4 DEF InScope
<1>11. OpensBelow(C, more, size + 1, B, sc, s, b)
  <2>1. \A t \in sc[s].chain : C[t] = B[t]
    BY <1>1, <1>3
  <2>2. more[size + 1].chain = sc[s].chain \cup {size + 1} /\ C[size + 1] = b
    BY <1>1, <1>2
  <2> QED
    BY <2>1, <2>2 DEF BoundsAlong, OpensBelow
<1> QED
  BY <1>8, <1>9, <1>10, <1>11 DEF more, C, new
-----------------------------------------------------------------------------
(* A step of the analysis. *)

\* The calls for the children of m, all with the scope s.
LEMMA CallsForKids ==
  ASSUME WellFormed(tree), NEW m \in DOMAIN tree, NEW s \in Nat
  PROVE  LET calls == In(s, tree[m].kids)
         IN  /\ calls \in Seq([node : 2 .. Len(tree), scope : Nat])
             /\ Ordered(calls)
             /\ {call.node : call \in CallsOf(calls)} = Kids(m)
             /\ \A call \in CallsOf(calls) : call.scope = s /\ call.node \in Kids(m)
<1> DEFINE kids == tree[m].kids
           calls == In(s, kids)
<1>1. kids \in Seq(Nat)
  BY TreeShape DEF TreeNode
<1>2. \A k \in DOMAIN kids : kids[k] \in 2 .. Len(tree) /\ kids[k] \in Kids(m)
  <2>1. SUFFICES ASSUME NEW k \in DOMAIN kids
                 PROVE  kids[k] \in 2 .. Len(tree) /\ kids[k] \in Kids(m)
    OBVIOUS
  <2>2. kids[k] \in Kids(m)
    BY DEF Kids, ChildrenOf
  <2>3. kids[k] \in m + 1 .. Len(tree) /\ m \in 1 .. Len(tree) /\ Len(tree) \in Nat
    BY <2>2, TreeShape
  <2> QED
    BY <2>2, <2>3
<1>3. \A j, k \in DOMAIN kids : j < k => kids[j] < kids[k]
  <2>1. SUFFICES ASSUME NEW j \in DOMAIN kids, NEW k \in DOMAIN kids, j < k
                 PROVE  kids[j] < kids[k]
    OBVIOUS
  <2>2. DOMAIN kids = 1 .. Len(kids) /\ Len(kids) \in Nat
    BY <1>1, LenProperties
  <2>3. j \in 1 .. k - 1
    BY <2>1, <2>2
  <2> QED
    BY <2>3 DEF WellFormed
<1>4. Kids(m) = {kids[k] : k \in DOMAIN kids}
  BY DEF Kids, ChildrenOf
<1> HIDE DEF kids
<1>5. calls \in Seq([node : 2 .. Len(tree), scope : Nat])
  BY <1>1, <1>2, InTyped
<1>6. /\ DOMAIN calls = DOMAIN kids
      /\ \A k \in DOMAIN kids : calls[k] = [node |-> kids[k], scope |-> s]
  BY DEF In
<1> HIDE DEF calls
<1>7. \A call \in CallsOf(calls) : \E k \in DOMAIN kids :
        call.node = kids[k] /\ call.scope = s
  BY <1>6 DEF CallsOf
<1>8. \A k \in DOMAIN kids : \E call \in CallsOf(calls) : call.node = kids[k]
  BY <1>6 DEF CallsOf
<1>9. Ordered(calls)
  BY <1>3, <1>6 DEF Ordered
<1>10. {call.node : call \in CallsOf(calls)} = Kids(m)
  BY <1>4, <1>7, <1>8
<1> QED
  BY <1>2, <1>5, <1>7, <1>9, <1>10 DEF calls, kids

\* No calls at all.
LEMMA NoCalls ==
  /\ <<>> \in Seq([node : 2 .. Len(tree), scope : Nat])
  /\ Ordered(<<>>)
  /\ CallsOf(<<>>) = {}
<1>1. DOMAIN <<>> = {}
  OBVIOUS
<1> QED
  BY <1>1 DEF Ordered, CallsOf

\* The children of n have the bounds of n, unless n opens a scope.
LEMMA KidsEnclosed ==
  ASSUME WellFormed(tree), NEW m \in DOMAIN tree, tree[m].kind \notin {"FnDef", "IfSt"},
         NEW k \in Kids(m)
  PROVE  Enclosing(k) = Enclosing(m)
<1>1. Parent(k) = m
  BY TreeShape
<1>2. k \notin Branches
  BY <1>1, Bounding
<1> QED
  BY <1>2, EnclosingKid DEF IsFn

\* The analysis of n is right when the scopes are right for what n declares and
\* for the calls it makes, and when it has settled n.
LEMMA StepOn ==
  ASSUME TypeOK, scopes # <<>>, work # <<>>, NEW B,
         UnderWay(B, work, scopes, symbolOf),
         NEW calls \in Seq([node : 2 .. Len(tree), scope : Nat]), Ordered(calls),
         {call.node : call \in CallsOf(calls)}
           = IF node.kind = "FnCallExpr" THEN {} ELSE Kids(n),
         NEW C, NEW sc, NEW sy,
         OpensBounds(C, n + 1, sc), HoldDeclared(C, n + 1, sc),
         \A call \in CallsOf(calls) : InScope(C, sc, call),
         \A call \in CallsOf(work) : InScope(B, scopes, call) => InScope(C, sc, call),
         \A m \in DOMAIN tree \ {n} : sy[m] = symbolOf[m],
         Settled(n, sy)
  PROVE  UnderWay(C, calls \o Tail(work), sc, sy)
<1> DEFINE w == calls \o Tail(work)
           p == Position(w)
           size == Len(tree)
<1>1. /\ WellFormed(tree) /\ n \in 2 .. size /\ n \in DOMAIN tree /\ n \in Nat
      /\ node = tree[n] /\ Position(work) = n
  BY AtNode
<1>2. size \in Nat /\ DOMAIN tree = 1 .. size
  BY <1>1, TreeShape
<1>3. /\ CallsAhead(w)
      /\ p \in n + 1 .. size + 1
      /\ CallsOf(w) = CallsOf(calls) \cup CallsOf(Tail(work))
      /\ \A k \in n + 1 .. p - 1 : k \in Arguments
  <2>1. CallsAhead(work)
    BY DEF UnderWay
  <2>2. Head(work).node = n /\ tree[Head(work).node].kind = node.kind
    BY <1>1 DEF n
  <2> QED
    BY <1>1, <2>1, <2>2, Advance
<1>4. CallsOf(Tail(work)) \subseteq CallsOf(work)
  BY <1>1, Rest DEF UnderWay
<1> HIDE DEF w, p, size
<1>5. \A call \in CallsOf(w) : InScope(C, sc, call)
  BY <1>3, <1>4 DEF UnderWay
<1>6. p \in Nat /\ n < p /\ p <= size + 1
  BY <1>1, <1>2, <1>3
<1>7. OpensBounds(C, p, sc)
  <2>1. \A b \in Bounds : b \in 1 .. size
    BY <1>1, <1>2, Bounding
  <2>2. ASSUME NEW s \in DOMAIN sc PROVE Opened(C, p, s)
    <3>1. C[s] \in Bounds /\ Opened(C, n + 1, s)
      BY <2>2 DEF OpensBounds
    <3>2. C[s] \in Nat
      BY <1>2, <2>1, <3>1
    <3>3. CASE C[s] < n + 1
      BY <1>1, <1>6, <3>2, <3>3 DEF Opened
    <3>4. CASE C[s] \in Branches /\ Parent(C[s]) < n + 1
      <4>1. C[s] \in 2 .. size
        BY <1>1, <3>4, Bounding DEF size
      <4>2. Parent(C[s]) \in 1 .. C[s] - 1
        BY <1>1, <4>1, TreeShape DEF size
      <4>3. Parent(C[s]) \in Nat
        BY <3>2, <4>2
      <4>4. Parent(C[s]) < p
        BY <1>1, <1>6, <3>4, <4>3
      <4> QED
        BY <3>4, <4>4 DEF Opened
    <3> QED
      BY <3>1, <3>3, <3>4 DEF Opened
  <2> QED
    BY <2>2 DEF OpensBounds
<1>8. HoldDeclared(C, p, sc)
  <2>1. \A d \in Declarations : d < p <=> d < n + 1
    <3>1. SUFFICES ASSUME NEW d \in Declarations PROVE d < p <=> d < n + 1
      OBVIOUS
    <3>2. d \in 1 .. size /\ d \notin Arguments
      BY <1>1, <1>2, ArgumentsDeclareNothing DEF Declarations
    <3>3. d \notin n + 1 .. p - 1
      BY <1>3, <3>2
    <3> QED
      BY <1>1, <1>2, <1>6, <3>2, <3>3
  <2> QED
    BY <2>1 DEF HoldDeclared
<1>9. SettledBefore(p, sy)
  <2>1. SUFFICES ASSUME NEW m \in 2 .. p - 1, m \notin Arguments
                 PROVE  Settled(m, sy)
    BY DEF SettledBefore
  <2>2. m \in 1 .. size /\ m \notin n + 1 .. p - 1
    BY <1>2, <1>3, <1>6, <2>1
  <2>3. CASE m = n
    BY <2>3
  <2>4. CASE m # n
    <3>1. m \in 2 .. n - 1
      BY <1>1, <1>2, <1>6, <2>1, <2>2, <2>4
    <3>2. Settled(m, symbolOf)
      BY <1>1, <2>1, <3>1 DEF UnderWay, SettledBefore
    <3>3. sy[m] = symbolOf[m]
      BY <1>2, <2>2, <2>4
    <3> QED
      BY <3>2, <3>3 DEF Settled
  <2> QED
    BY <2>3, <2>4
<1> QED
  BY <1>3, <1>5, <1>7, <1>8, <1>9 DEF UnderWay, w, p

\* The same when the scopes stay as they are.
LEMMA Walk ==
  ASSUME TypeOK, scopes # <<>>, work # <<>>, NEW B,
         UnderWay(B, work, scopes, symbolOf),
         node.kind \notin {"VarDecl", "FnParam", "FnDef", "IfSt"},
         NEW calls, calls = <<>> \/ calls = In(scope, node.kids),
         calls = <<>> => Kids(n) = {} \/ node.kind = "FnCallExpr",
         node.kind = "FnCallExpr" => calls = <<>>,
         NEW sy, \A m \in DOMAIN tree \ {n} : sy[m] = symbolOf[m],
         Settled(n, sy)
  PROVE  UnderWay(B, calls \o Tail(work), scopes, sy)
<1>1. /\ WellFormed(tree) /\ n \in DOMAIN tree /\ node = tree[n]
      /\ scope \in DOMAIN scopes /\ Position(work) = n
      /\ {B[t] : t \in scopes[scope].chain} = Enclosing(n)
  BY AtNode
<1>2. scope \in Nat
  BY <1>1, ChainBounded
<1>3. n \notin Declarations
  BY <1>1 DEF Declarations
<1>4. OpensBounds(B, n + 1, scopes) /\ HoldDeclared(B, n + 1, scopes)
  BY <1>1, <1>3, Later DEF UnderWay
<1>5. /\ calls \in Seq([node : 2 .. Len(tree), scope : Nat])
      /\ Ordered(calls)
      /\ {call.node : call \in CallsOf(calls)}
           = IF node.kind = "FnCallExpr" THEN {} ELSE Kids(n)
      /\ \A call \in CallsOf(calls) : call.scope = scope /\ call.node \in Kids(n)
  <2>1. CASE calls = <<>>
    <3>1. CallsOf(calls) = {}
      BY <2>1, NoCalls
    <3> QED
      BY <2>1, <3>1, NoCalls
  <2>2. CASE calls = In(scope, node.kids) /\ node.kind # "FnCallExpr"
    <3> DEFINE made == In(scope, tree[n].kids)
    <3>1. calls = made
      BY <1>1, <2>2
    <3>2. /\ made \in Seq([node : 2 .. Len(tree), scope : Nat])
          /\ Ordered(made)
          /\ {call.node : call \in CallsOf(made)} = Kids(n)
          /\ \A call \in CallsOf(made) : call.scope = scope /\ call.node \in Kids(n)
      BY <1>1, <1>2, CallsForKids
    <3> HIDE DEF made
    <3> QED
      BY <2>2, <3>1, <3>2
  <2> QED
    BY <2>1, <2>2
<1>6. \A call \in CallsOf(calls) : InScope(B, scopes, call)
  BY <1>1, <1>5, KidsEnclosed DEF InScope
<1> QED
  BY <1>4, <1>5, <1>6, StepOn
-----------------------------------------------------------------------------
(* The actions. *)

LEMMA Childless ==
  ASSUME WellFormed(tree), NEW m \in DOMAIN tree,
         tree[m].kind \in Literals \cup {"FnParam", "VarExpr"}
  PROVE  Kids(m) = {}
<1>1. {tree[k].kind : k \in ChildrenOf(tree, m)} = {}
  BY DEF WellFormed, HasParts
<1> QED
  BY <1>1 DEF Kids

\* The statements and expressions that leave the scopes alone.
LEMMA WalkStep ==
  ASSUME TypeOK, scopes # <<>>, NEW B, UnderWay(B, work, scopes, symbolOf),
         tree \in Trees, ParametersFit,
         \/ AnalyzeBlock \/ AnalyzeVariable \/ AnalyzeFnCallExpr
         \/ AnalyzeOperands \/ AnalyzeLiteral
  PROVE  UnderWay(B, work', scopes', symbolOf')
<1>1. work # <<>>
  BY DEF AnalyzeBlock, AnalyzeVariable, AnalyzeFnCallExpr, AnalyzeOperands,
         AnalyzeLiteral, Analyze
<1>2. /\ WellFormed(tree) /\ n \in DOMAIN tree /\ node = tree[n]
      /\ symbolOf \in [DOMAIN tree -> Symbol]
  BY <1>1, AtNode DEF TypeOK
<1>3. CASE AnalyzeVariable
  <2>1. /\ node.kind \in {"AssignSt", "VarExpr"}
        /\ symbolHere.symbolType = "Var"
        /\ symbolOf' = [symbolOf EXCEPT ![n] = symbolHere]
        /\ scopes' = scopes
        /\ work' = In(scope, node.kids) \o Tail(work)
    BY <1>3 DEF AnalyzeVariable, Analyze, AndThen
  <2>2. /\ symbolOf'[n] = symbolHere
        /\ \A m \in DOMAIN tree \ {n} : symbolOf'[m] = symbolOf[m]
    BY <1>2, <2>1
  <2>3. Settled(n, symbolOf')
    BY <1>1, <2>1, <2>2, VariableVerdict DEF Settled
  <2>4. CASE In(scope, node.kids) # <<>>
    <3> DEFINE calls == In(scope, node.kids)
    <3>1. calls # <<>> /\ calls = In(scope, node.kids)
      BY <2>4
    <3> HIDE DEF calls
    <3>2. UnderWay(B, calls \o Tail(work), scopes, symbolOf')
      BY <1>1, <2>1, <2>2, <2>3, <3>1, Walk
    <3> QED
      BY <2>1, <3>1, <3>2
  <2>5. CASE In(scope, node.kids) = <<>>
    <3>1. Kids(n) = {}
      BY <1>2, <2>5 DEF In, Kids, ChildrenOf
    <3>2. UnderWay(B, <<>> \o Tail(work), scopes, symbolOf')
      BY <1>1, <2>1, <2>2, <2>3, <3>1, Walk
    <3> QED
      BY <2>1, <2>5, <3>2
  <2> QED
    BY <2>4, <2>5
<1>4. CASE AnalyzeBlock \/ AnalyzeOperands
  <2>1. /\ node.kind \in {"Block", "ReturnSt"} \cup Operations
        /\ symbolOf' = symbolOf /\ scopes' = scopes
        /\ work' = In(scope, node.kids) \o Tail(work)
    BY <1>4 DEF AnalyzeBlock, AnalyzeOperands, Analyze, AndThen
  <2>2. node.kind \notin {"VarDecl", "FnParam", "FnDef", "IfSt", "AssignSt",
                          "VarExpr", "FnCallExpr"}
    BY <2>1 DEF Operations
  <2>3. Settled(n, symbolOf')
    BY <1>2, <2>2, OtherVerdict DEF Settled
  <2>4. CASE In(scope, node.kids) # <<>>
    <3> DEFINE calls == In(scope, node.kids)
    <3>1. calls # <<>> /\ calls = In(scope, node.kids)
      BY <2>4
    <3> HIDE DEF calls
    <3>2. UnderWay(B, calls \o Tail(work), scopes, symbolOf')
      BY <1>1, <2>1, <2>2, <2>3, <3>1, Walk
    <3> QED
      BY <2>1, <3>1, <3>2
  <2>5. CASE In(scope, node.kids) = <<>>
    <3>1. Kids(n) = {}
      BY <1>2, <2>5 DEF In, Kids, ChildrenOf
    <3>2. UnderWay(B, <<>> \o Tail(work), scopes, symbolOf')
      BY <1>1, <2>1, <2>2, <2>3, <3>1, Walk
    <3> QED
      BY <2>1, <2>5, <3>2
  <2> QED
    BY <2>4, <2>5
<1>5. CASE AnalyzeLiteral
  <2>1. /\ node.kind \in Literals
        /\ symbolOf' = symbolOf /\ scopes' = scopes
        /\ work' = <<>> \o Tail(work)
    BY <1>5 DEF AnalyzeLiteral, Analyze, AndThen
  <2>2. node.kind \notin {"VarDecl", "FnParam", "FnDef", "IfSt", "AssignSt",
                          "VarExpr", "FnCallExpr"}
    BY <2>1 DEF Literals
  <2>3. Settled(n, symbolOf')
    BY <1>2, <2>2, OtherVerdict DEF Settled
  <2>4. Kids(n) = {}
    BY <1>2, <2>1, Childless
  <2>5. UnderWay(B, <<>> \o Tail(work), scopes, symbolOf')
    BY <1>1, <2>1, <2>2, <2>3, <2>4, Walk
  <2> QED
    BY <2>1, <2>5
<1>6. CASE AnalyzeFnCallExpr
  <2>1. /\ node.kind = "FnCallExpr" /\ RightArguments
        /\ symbolOf' = symbolOf /\ scopes' = scopes
        /\ work' = <<>> \o Tail(work)
    BY <1>6 DEF AnalyzeFnCallExpr, Analyze, AndThen
  <2>2. Settled(n, symbolOf')
    BY <1>1, <1>2, <2>1, CallVerdict DEF Settled
  <2>3. UnderWay(B, <<>> \o Tail(work), scopes, symbolOf')
    BY <1>1, <2>1, <2>2, Walk
  <2> QED
    BY <2>1, <2>3
<1> QED
  BY <1>3, <1>4, <1>5, <1>6

\* The declaration of a variable or of a parameter.
LEMMA DeclareStep ==
  ASSUME TypeOK, scopes # <<>>, NEW B, UnderWay(B, work, scopes, symbolOf),
         AnalyzeVarDecl \/ AnalyzeFnParam
  PROVE  UnderWay(B, work', scopes', symbolOf')
<1>1. /\ work # <<>> /\ node.kind \in {"VarDecl", "FnParam"}
      /\ CanBeDeclared
      /\ symbolOf' = [symbolOf EXCEPT ![n] = variable]
      /\ scopes' = insertSymbol(scope, variable)
  BY DEF AnalyzeVarDecl, AnalyzeFnParam, Analyze
<1>2. /\ WellFormed(tree) /\ n \in DOMAIN tree /\ node = tree[n]
      /\ symbolOf \in [DOMAIN tree -> Symbol]
      /\ scope \in DOMAIN scopes
      /\ {B[t] : t \in scopes[scope].chain} = Enclosing(n)
  BY <1>1, AtNode DEF TypeOK
<1>3. scope \in Nat
  BY <1>2, ChainBounded
<1>4. variable = Sym(n)
  BY <1>1, SymbolMade
<1>5. /\ DOMAIN scopes' = DOMAIN scopes
      /\ \A t \in DOMAIN scopes : scopes'[t].chain = scopes[t].chain
      /\ OpensBounds(B, n + 1, scopes')
      /\ HoldDeclared(B, n + 1, scopes')
  BY <1>1, <1>4, DeclareName
<1>6. \A m \in DOMAIN tree \ {n} : symbolOf'[m] = symbolOf[m]
  BY <1>1, <1>2
<1>7. Settled(n, symbolOf')
  BY <1>1, <1>2, DeclarationVerdict DEF Settled
<1>8. \A call : InScope(B, scopes, call) => InScope(B, scopes', call)
  BY <1>5 DEF InScope
<1> DEFINE calls == IF node.kind = "FnParam" THEN <<>> ELSE In(scope, node.kids)
<1>9. /\ calls \in Seq([node : 2 .. Len(tree), scope : Nat])
      /\ Ordered(calls)
      /\ {call.node : call \in CallsOf(calls)} = Kids(n)
      /\ \A call \in CallsOf(calls) : call.scope = scope /\ call.node \in Kids(n)
  <2>1. CASE node.kind = "FnParam"
    <3>1. Kids(n) = {}
      BY <1>2, <2>1, Childless
    <3>2. calls = <<>>
      BY <2>1
    <3>3. CallsOf(calls) = {}
      BY <3>2, NoCalls
    <3> HIDE DEF calls
    <3> QED
      BY <3>1, <3>2, <3>3, NoCalls
  <2>2. CASE node.kind # "FnParam"
    <3> DEFINE made == In(scope, tree[n].kids)
    <3>1. calls = made
      BY <1>2, <2>2
    <3>2. /\ made \in Seq([node : 2 .. Len(tree), scope : Nat])
          /\ Ordered(made)
          /\ {call.node : call \in CallsOf(made)} = Kids(n)
          /\ \A call \in CallsOf(made) : call.scope = scope /\ call.node \in Kids(n)
      BY <1>2, <1>3, CallsForKids
    <3> HIDE DEF made, calls
    <3> QED
      BY <3>1, <3>2
  <2> QED
    BY <2>1, <2>2
<1>10. work' = calls \o Tail(work)
  BY <1>1 DEF AnalyzeVarDecl, AnalyzeFnParam, Analyze, AndThen
<1> HIDE DEF calls
<1>11. \A call \in CallsOf(calls) : InScope(B, scopes, call)
  BY <1>1, <1>2, <1>9, KidsEnclosed DEF InScope
<1>12. UnderWay(B, calls \o Tail(work), scopes', symbolOf')
  BY <1>1, <1>5, <1>6, <1>7, <1>8, <1>9, <1>11, StepOn
<1> QED
  BY <1>10, <1>12

\* The parameters and the body of a function are in a scope of its own, opened
\* when its name has been entered.
LEMMA FnDefStep ==
  ASSUME TypeOK, scopes # <<>>, NEW B, UnderWay(B, work, scopes, symbolOf),
         AnalyzeFnDef
  PROVE  \E C : UnderWay(C, work', scopes', symbolOf')
<1> DEFINE size == Len(scopes)
           after == insertSymbol(scope, Sym(n))
           child == createChildScope(scope, 1)
           C == More(B, size, n)
<1>1. /\ work # <<>> /\ node.kind = "FnDef" /\ CanBeDeclared
      /\ symbolOf' = symbolOf
      /\ scopes' = Append(insertSymbol(scope, function), child)
      /\ work' = In(size + 1, node.kids) \o Tail(work)
  BY DEF AnalyzeFnDef, Analyze, AndThen, next
<1>2. /\ WellFormed(tree) /\ n \in DOMAIN tree /\ n \in Nat /\ n \in 2 .. Len(tree)
      /\ node = tree[n]
      /\ scope \in DOMAIN scopes
      /\ {B[t] : t \in scopes[scope].chain} = Enclosing(n)
      /\ Position(work) = n
  BY <1>1, AtNode
<1>3. /\ DOMAIN scopes = 1 .. size /\ size \in Nat /\ scope \in 1 .. size
      /\ scopes[scope].chain \subseteq DOMAIN scopes
  BY <1>2, ChainBounded
<1>4. function = Sym(n)
  BY <1>1, SymbolMade
<1>5. /\ after \in Seq(ScopeType) /\ Len(after) = size
      /\ DOMAIN after = DOMAIN scopes
      /\ \A t \in DOMAIN scopes : after[t].chain = scopes[t].chain
      /\ OpensBounds(B, n + 1, after)
      /\ HoldDeclared(B, n + 1, after)
  BY <1>1, DeclareName
<1>6. /\ child \in ScopeType
      /\ child = ScopeObject(scopes[scope].chain \cup {size + 1}, FALSE)
  BY <1>2, ChildScope DEF createChildScope, next
<1> HIDE DEF after, child
<1>7. scopes' = More(after, size, child)
  <2>1. scopes' = Append(after, child)
    BY <1>1, <1>4 DEF after
  <2>2. Append(after, child) = More(after, Len(after), child)
    BY <1>5, <1>6, AppendIsMore
  <2> QED
    BY <1>5, <2>1, <2>2
\* The new bound.
<1>8. /\ IsFn(n) /\ n \in Bounds /\ n \notin Branches /\ n # 1
  <2>1. IsFn(n)
    BY <1>1, <1>2 DEF IsFn
  <2> QED
    BY <1>2, <2>1, Bounding
<1>9. OpensBounds(B, n, scopes)
  BY <1>2 DEF UnderWay
<1>10. \A t \in 1 .. size : B[t] # n
  BY <1>2, <1>3, <1>8, <1>9 DEF OpensBounds, Opened
<1>11. \A t \in after[scope].chain : B[t] <= n
  <2>1. SUFFICES ASSUME NEW t \in scopes[scope].chain PROVE B[t] <= n
    BY <1>2, <1>5
  <2>2. B[t] \in Enclosing(n)
    BY <1>2
  <2>3. B[t] \in 1 .. n
    BY <1>2, <2>2, OwnerIsInnermost
  <2> QED
    BY <1>2, <2>3
<1>12. \A d \in Declarations : d < n + 1 => Owner(d) # n
  <2>1. SUFFICES ASSUME NEW d \in Declarations, d < n + 1, Owner(d) = n
                 PROVE  FALSE
    OBVIOUS
  <2>2. d \in DOMAIN tree /\ d \in Nat
    BY <1>2, TreeShape DEF Declarations
  <2>3. n \in Enclosing(d) /\ Enclosing(d) \subseteq 1 .. d
    BY <1>2, <2>1, <2>2, OwnerIsInnermost
  <2>4. n = d
    BY <1>2, <2>1, <2>2, <2>3
  <2> QED
    BY <1>8, <2>3, <2>4 DEF Enclosing
<1>13. n < n + 1 /\ n + 1 \in Nat
  BY <1>2
<1>14. after[scope].chain = scopes[scope].chain
  BY <1>2, <1>5
<1>15. /\ OpensBounds(C, n + 1, scopes')
       /\ HoldDeclared(C, n + 1, scopes')
       /\ \A call : InScope(B, after, call) => InScope(C, scopes', call)
       /\ BoundsAlong(C, scopes', size + 1) = BoundsAlong(B, after, scope) \cup {n}
  <2> DEFINE new == ScopeObject(after[scope].chain \cup {size + 1}, FALSE)
             more == More(after, size, new)
  <2>1. DOMAIN after = 1 .. size
    BY <1>3, <1>5
  <2> HIDE DEF size
  <2>2. CanOpen(B, n + 1, size, after, scope, n)
    BY <1>2, <1>3, <1>5, <1>8, <1>10, <1>11, <1>12, <1>13, <2>1 DEF CanOpen
  <2>3. /\ OpensBounds(C, n + 1, more)
        /\ HoldDeclared(C, n + 1, more)
        /\ \A call : InScope(B, after, call) => InScope(C, more, call)
        /\ BoundsAlong(C, more, size + 1) = BoundsAlong(B, after, scope) \cup {n}
    <3>2. OpensBounds(C, n + 1, more)
      BY <1>2, <1>3, <1>13, <2>2, Open
    <3>3. HoldDeclared(C, n + 1, more)
      BY <1>2, <1>3, <1>13, <2>2, Open
    <3>4. \A call : InScope(B, after, call) => InScope(C, more, call)
      BY <1>2, <1>3, <1>13, <2>2, Open
    <3>5. OpensBelow(C, more, size + 1, B, after, scope, n)
      BY <1>2, <1>3, <1>13, <2>2, Open
    <3> QED
      BY <3>2, <3>3, <3>4, <3>5 DEF OpensBelow
  <2>4. more = scopes'
    BY <1>6, <1>7, <1>14 DEF size
  <2> HIDE DEF more, C
  <2> QED
    BY <2>3, <2>4 DEF size
<1>16. \A call : InScope(B, scopes, call) => InScope(C, scopes', call)
  <2>1. \A call : InScope(B, scopes, call) => InScope(B, after, call)
    BY <1>5 DEF InScope
  <2> QED
    BY <1>15, <2>1
<1> HIDE DEF C
<1>17. Settled(n, symbolOf')
  BY <1>1, <1>2, DeclarationVerdict DEF Settled
<1> DEFINE calls == In(size + 1, tree[n].kids)
<1>18. /\ calls \in Seq([node : 2 .. Len(tree), scope : Nat])
       /\ Ordered(calls)
       /\ {call.node : call \in CallsOf(calls)} = Kids(n)
       /\ \A call \in CallsOf(calls) : call.scope = size + 1 /\ call.node \in Kids(n)
  <2>1. size + 1 \in Nat
    BY <1>3
  <2> HIDE DEF size
  <2> QED
    BY <1>2, <2>1, CallsForKids
<1>19. work' = calls \o Tail(work)
  BY <1>1, <1>2
<1> HIDE DEF calls
<1>20. \A call \in CallsOf(calls) : InScope(C, scopes', call)
  <2>1. SUFFICES ASSUME NEW call \in CallsOf(calls) PROVE InScope(C, scopes', call)
    OBVIOUS
  <2>2. call.scope = size + 1 /\ call.node \in Kids(n)
    BY <1>18
  <2>3. call.scope \in DOMAIN scopes'
    BY <1>3, <1>7, <2>2 DEF More
  <2>4. call.node \notin Branches
    <3>1. Parent(call.node) = n
      BY <1>2, <2>2, TreeShape
    <3> QED
      BY <1>1, <1>2, <3>1, Bounding
  <2>5. Enclosing(call.node) = Enclosing(n) \cup {n}
    BY <1>2, <1>8, <2>2, <2>4, EnclosingKid
  <2> QED
    BY <1>2, <1>14, <1>15, <2>2, <2>3, <2>5 DEF InScope, BoundsAlong
<1>21. UnderWay(C, calls \o Tail(work), scopes', symbolOf')
  BY <1>1, <1>15, <1>16, <1>17, <1>18, <1>20, StepOn
<1> QED
  BY <1>19, <1>21
\* An if statement has a condition and two branches.
LEMMA IfStParts ==
  ASSUME WellFormed(tree), NEW m \in DOMAIN tree, tree[m].kind = "IfSt"
  PROVE  LET kids == tree[m].kids
         IN  /\ DOMAIN kids = 1 .. 3
             /\ \A k \in 1 .. 3 : kids[k] \in m + 1 .. Len(tree) /\ kids[k] \in Kids(m)
             /\ kids[1] < kids[2] /\ kids[2] < kids[3]
             /\ Kids(m) = {kids[1], kids[2], kids[3]}
             /\ kids[1] \notin Branches
             /\ \A b \in {kids[2], kids[3]} :
                  /\ b \in Branches /\ b \in Bounds
                  /\ Parent(b) = m
<1> DEFINE kids == tree[m].kids
<1>1. kids \in Seq(Nat) /\ Len(kids) = 3
  BY TreeShape DEF TreeNode, WellFormed, HasParts
<1>2. DOMAIN kids = 1 .. 3
  BY <1>1, LenProperties
<1>3. \A k \in 1 .. 3 : kids[k] \in Kids(m)
  BY <1>2 DEF Kids, ChildrenOf
<1>4. \A k \in 1 .. 3 : kids[k] \in m + 1 .. Len(tree) /\ Parent(kids[k]) = m
  BY <1>3, TreeShape
<1>5. kids[1] < kids[2] /\ kids[2] < kids[3]
  <2>1. 1 \in 1 .. 2 - 1 /\ 2 \in 1 .. 3 - 1 /\ 2 \in DOMAIN kids /\ 3 \in DOMAIN kids
    BY <1>2
  <2> QED
    BY <2>1 DEF WellFormed
<1>6. Kids(m) = {kids[1], kids[2], kids[3]}
  <2>1. 1 .. 3 = {1, 2, 3}
    OBVIOUS
  <2>2. Kids(m) = {kids[k] : k \in {1, 2, 3}}
    BY <1>2, <2>1 DEF Kids, ChildrenOf
  <2> QED
    BY <2>2
<1>7. kids[2] \in Branches /\ kids[3] \in Branches
  BY DEF Branches
<1>8. kids[1] \notin Branches
  <2>1. SUFFICES ASSUME kids[1] \in Branches PROVE FALSE
    OBVIOUS
  <2>2. PICK a \in DOMAIN tree : /\ tree[a].kind = "IfSt"
                                 /\ kids[1] \in {tree[a].kids[2], tree[a].kids[3]}
    BY <2>1 DEF Branches
  <2>3. tree[a].kids \in Seq(Nat) /\ Len(tree[a].kids) = 3
    BY <2>2, TreeShape DEF TreeNode, WellFormed, HasParts
  <2>4. kids[1] \in Kids(a)
    <3>1. 2 \in DOMAIN tree[a].kids /\ 3 \in DOMAIN tree[a].kids
      BY <2>3, LenProperties
    <3> QED
      BY <2>2, <3>1 DEF Kids, ChildrenOf
  <2>5. a = m
    BY <1>4, <2>4, TreeShape
  <2>6. kids[1] \in Nat /\ kids[2] \in Nat /\ kids[3] \in Nat
    BY <1>1, <1>2, ElementOfSeq
  <2> QED
    BY <1>5, <2>2, <2>5, <2>6
<1>9. kids[2] \in Bounds /\ kids[3] \in Bounds
  BY <1>7, Bounding
<1> HIDE DEF kids
<1>10. \A k \in 1 .. 3 : kids[k] \in m + 1 .. Len(tree) /\ kids[k] \in Kids(m)
  BY <1>3, <1>4
<1>11. Parent(kids[2]) = m /\ Parent(kids[3]) = m
  BY <1>4
<1>12. \A b \in {kids[2], kids[3]} : b \in Branches /\ b \in Bounds /\ Parent(b) = m
  BY <1>7, <1>9, <1>11
<1> QED
  BY <1>2, <1>5, <1>6, <1>8, <1>10, <1>12 DEF kids

\* A branch of n is a bound nothing has to do with yet.
LEMMA BranchIsFresh ==
  ASSUME TypeOK, scopes # <<>>, work # <<>>, NEW B,
         UnderWay(B, work, scopes, symbolOf), node.kind = "IfSt",
         NEW b \in Branches, Parent(b) = n, b \in n + 1 .. Len(tree)
  PROVE  /\ b # 1 /\ Parent(b) < n + 1
         /\ \A t \in DOMAIN scopes : B[t] # b
         /\ \A t \in scopes[scope].chain : B[t] <= b
         /\ \A d \in Declarations : d < n + 1 => Owner(d) # b
<1>1. /\ WellFormed(tree) /\ n \in 2 .. Len(tree) /\ n \in DOMAIN tree /\ n \in Nat
      /\ {B[t] : t \in scopes[scope].chain} = Enclosing(n)
      /\ Position(work) = n
  BY AtNode
<1>2. b \in Nat /\ n < b /\ b # 1 /\ n < n + 1
  BY <1>1
<1>3. \A t \in DOMAIN scopes : Opened(B, n, t)
  BY <1>1 DEF UnderWay, OpensBounds
<1>4. ASSUME NEW t \in DOMAIN scopes, B[t] = b PROVE FALSE
  <2>1. b < n \/ Parent(b) < n
    BY <1>3, <1>4 DEF Opened
  <2> QED
    BY <1>1, <1>2, <2>1
<1>5. ASSUME NEW t \in scopes[scope].chain PROVE B[t] <= b
  <2>1. B[t] \in Enclosing(n)
    BY <1>1
  <2>2. B[t] \in 1 .. n
    BY <1>1, <2>1, OwnerIsInnermost
  <2> QED
    BY <1>1, <1>2, <2>2
<1>6. ASSUME NEW d \in Declarations, d < n + 1 PROVE Owner(d) # b
  <2>1. d \in DOMAIN tree /\ d \in Nat
    BY <1>1, TreeShape DEF Declarations
  <2>2. Owner(d) \in 1 .. d
    BY <1>1, <2>1, OwnerIsInnermost
  <2> QED
    BY <1>1, <1>2, <1>6, <2>1, <2>2
<1> QED
  BY <1>1, <1>2, <1>4, <1>5, <1>6

\* The branches of an if statement are in scopes of their own.
LEMMA IfStStep ==
  ASSUME TypeOK, scopes # <<>>, NEW B, UnderWay(B, work, scopes, symbolOf),
         AnalyzeIfSt
  PROVE  \E C : UnderWay(C, work', scopes', symbolOf')
<1> DEFINE size == Len(scopes)
           kids == tree[n].kids
           child1 == createChildScope(scope, 1)
           child2 == createChildScope(scope, 2)
           calls == <<[node |-> kids[1], scope |-> scope],
                      [node |-> kids[2], scope |-> size + 1],
                      [node |-> kids[3], scope |-> size + 2]>>
<1>1. /\ WellFormed(tree) /\ n \in DOMAIN tree /\ n \in Nat /\ n \in 2 .. Len(tree)
      /\ node = tree[n]
      /\ scope \in DOMAIN scopes
      /\ {B[t] : t \in scopes[scope].chain} = Enclosing(n)
      /\ Position(work) = n
      /\ work # <<>>
  <2>1. work # <<>>
    BY DEF AnalyzeIfSt, Analyze
  <2> QED
    BY <2>1, AtNode
<1>2. /\ work # <<>> /\ node.kind = "IfSt"
      /\ symbolOf' = symbolOf
      /\ scopes' = scopes \o <<child1, child2>>
      /\ work' = calls \o Tail(work)
  BY <1>1 DEF AnalyzeIfSt, Analyze, AndThen, next
<1>3. /\ DOMAIN scopes = 1 .. size /\ size \in Nat /\ scope \in 1 .. size
      /\ scope \in Nat
      /\ scopes[scope].chain \subseteq 1 .. size
      /\ scopes \in Seq(ScopeType)
  BY <1>1, ChainBounded DEF TypeOK
<1>4. /\ DOMAIN kids = 1 .. 3
      /\ \A k \in 1 .. 3 : kids[k] \in n + 1 .. Len(tree) /\ kids[k] \in Kids(n)
      /\ kids[1] < kids[2] /\ kids[2] < kids[3]
      /\ Kids(n) = {kids[1], kids[2], kids[3]}
      /\ kids[1] \notin Branches
      /\ \A b \in {kids[2], kids[3]} : b \in Branches /\ b \in Bounds /\ Parent(b) = n
  BY <1>1, <1>2, IfStParts
<1>5. /\ child1 \in ScopeType /\ child2 \in ScopeType
      /\ child1 = ScopeObject(scopes[scope].chain \cup {size + 1}, FALSE)
      /\ child2 = ScopeObject(scopes[scope].chain \cup {size + 2}, FALSE)
  BY <1>1, ChildScope DEF createChildScope, next
<1> HIDE DEF child1, child2
<1> DEFINE one == More(scopes, size, child1)
           two == More(one, size + 1, child2)
           C == More(B, size, kids[2])
           D == More(C, size + 1, kids[3])
<1>6. scopes' = two
  <2>1. scopes \o <<child1, child2>> = More(More(scopes, size, child1), size + 1, child2)
    BY <1>3, <1>5, PairIsMore
  <2> QED
    BY <1>2, <2>1
<1> HIDE DEF size, kids
<1>7. /\ DOMAIN one = 1 .. size + 1 /\ one[scope] = scopes[scope]
      /\ \A t \in 1 .. size : C[t] = B[t]
      /\ C[size + 1] = kids[2]
  <2>1. /\ \A t \in 1 .. size : t \in 1 .. size + 1 /\ t # size + 1
        /\ size + 1 \in 1 .. size + 1
    BY <1>3
  <2> QED
    BY <1>3, <2>1 DEF More
<1>8. OpensBounds(B, n + 1, scopes) /\ HoldDeclared(B, n + 1, scopes)
  <2>1. n \notin Declarations
    BY <1>1, <1>2 DEF Declarations
  <2> QED
    BY <1>1, <2>1, Later DEF UnderWay
<1>9. /\ kids[1] \in n + 1 .. Len(tree) /\ kids[1] \in Kids(n)
      /\ kids[2] \in n + 1 .. Len(tree) /\ kids[2] \in Kids(n)
      /\ kids[3] \in n + 1 .. Len(tree) /\ kids[3] \in Kids(n)
      /\ kids[1] \in Nat /\ kids[2] \in Nat /\ kids[3] \in Nat
      /\ kids[2] # kids[3]
  <2>1. 1 \in 1 .. 3 /\ 2 \in 1 .. 3 /\ 3 \in 1 .. 3
    OBVIOUS
  <2>2. /\ kids[1] \in n + 1 .. Len(tree) /\ kids[1] \in Kids(n)
        /\ kids[2] \in n + 1 .. Len(tree) /\ kids[2] \in Kids(n)
        /\ kids[3] \in n + 1 .. Len(tree) /\ kids[3] \in Kids(n)
    BY <1>4, <2>1
  <2> QED
    BY <1>1, <1>4, <2>2
<1>10. /\ OpensBounds(C, n + 1, one) /\ HoldDeclared(C, n + 1, one)
       /\ \A call : InScope(B, scopes, call) => InScope(C, one, call)
       /\ OpensBelow(C, one, size + 1, B, scopes, scope, kids[2])
  <2>1. CanOpen(B, n + 1, size, scopes, scope, kids[2])
    <3>1. /\ kids[2] # 1 /\ Parent(kids[2]) < n + 1
          /\ \A t \in DOMAIN scopes : B[t] # kids[2]
          /\ \A t \in scopes[scope].chain : B[t] <= kids[2]
          /\ \A d \in Declarations : d < n + 1 => Owner(d) # kids[2]
      BY <1>2, <1>4, <1>9, BranchIsFresh
    <3> QED
      BY <1>1, <1>3, <1>4, <1>8, <3>1 DEF CanOpen
  <2>2. child1 = ScopeObject(scopes[scope].chain \cup {size + 1}, FALSE)
    BY <1>5 DEF size
  <2>3. n + 1 \in Nat
    BY <1>1
  <2>4. OpensBounds(C, n + 1, one)
    BY <1>1, <1>3, <2>1, <2>2, <2>3, Open
  <2>5. HoldDeclared(C, n + 1, one)
    BY <1>1, <1>3, <2>1, <2>2, <2>3, Open
  <2>6. \A call : InScope(B, scopes, call) => InScope(C, one, call)
    BY <1>1, <1>3, <2>1, <2>2, <2>3, Open
  <2>7. OpensBelow(C, one, size + 1, B, scopes, scope, kids[2])
    BY <1>1, <1>3, <2>1, <2>2, <2>3, Open
  <2> QED
    BY <2>4, <2>5, <2>6, <2>7
<1> DEFINE last == size + 1
<1>0. /\ Enclosing(kids[1]) = Enclosing(n)
      /\ Enclosing(kids[2]) = Enclosing(n) \cup {kids[2]}
      /\ Enclosing(kids[3]) = Enclosing(n) \cup {kids[3]}
  <2>1. ~IsFn(n)
    BY <1>1, <1>2 DEF IsFn
  <2>2. \A k \in Kids(n) : Enclosing(k) = Enclosing(n) \cup ({k} \cap Branches)
    <3>1. {b \in {n} : IsFn(n)} = {}
      BY <2>1
    <3>2. SUFFICES ASSUME NEW k \in Kids(n)
                   PROVE  Enclosing(k) = Enclosing(n) \cup ({k} \cap Branches)
      OBVIOUS
    <3>3. Enclosing(k) = Enclosing(n) \cup {b \in {n} : IsFn(n)} \cup ({k} \cap Branches)
      BY <1>1, <3>2, EnclosingKid
    <3> QED
      BY <3>1, <3>3
  <2>3. kids[2] \in Branches /\ kids[3] \in Branches /\ kids[1] \notin Branches
    BY <1>4
  <2>4. /\ Enclosing(kids[1]) = Enclosing(n) \cup ({kids[1]} \cap Branches)
        /\ Enclosing(kids[2]) = Enclosing(n) \cup ({kids[2]} \cap Branches)
        /\ Enclosing(kids[3]) = Enclosing(n) \cup ({kids[3]} \cap Branches)
    BY <1>9, <2>2
  <2> QED
    BY <2>3, <2>4
<1>11. /\ last \in Nat /\ size + 2 = last + 1 /\ scope \in 1 .. last
       /\ \A t \in 1 .. last : t \in 1 .. size \/ t = last
  BY <1>3
<1>12. /\ OpensBounds(D, n + 1, two) /\ HoldDeclared(D, n + 1, two)
       /\ \A call : InScope(C, one, call) => InScope(D, two, call)
       /\ OpensBelow(D, two, last + 1, C, one, scope, kids[3])
  <2>1. CanOpen(C, n + 1, last, one, scope, kids[3])
    <3>1. /\ kids[3] # 1 /\ Parent(kids[3]) < n + 1
          /\ \A t \in DOMAIN scopes : B[t] # kids[3]
          /\ \A t \in scopes[scope].chain : B[t] <= kids[3]
          /\ \A d \in Declarations : d < n + 1 => Owner(d) # kids[3]
      BY <1>2, <1>4, <1>9, BranchIsFresh
    <3>2. \A t \in one[scope].chain : C[t] <= kids[3]
      BY <1>3, <1>7, <3>1
    <3>3. \A t \in 1 .. last : C[t] # kids[3]
      <4> HIDE DEF C, last
      <4>1. C[last] = kids[2]
        BY <1>7 DEF last
      <4> QED
        BY <1>3, <1>7, <1>9, <1>11, <3>1, <4>1
    <3> HIDE DEF C, one
    <3>4. DOMAIN one = 1 .. last
      BY <1>7
    <3> HIDE DEF last
    <3>5. n + 1 \in Nat
      BY <1>1
    <3>6. OpensBounds(C, n + 1, one) /\ HoldDeclared(C, n + 1, one)
      BY <1>10
    <3> QED
      BY <1>4, <1>11, <3>1, <3>2, <3>3, <3>4, <3>5, <3>6 DEF CanOpen
  <2>2. child2 = ScopeObject(one[scope].chain \cup {last + 1}, FALSE)
    BY <1>5, <1>7, <1>11 DEF size
  <2>3. n + 1 \in Nat
    BY <1>1
  <2>4. two = More(one, last, child2) /\ D = More(C, last, kids[3])
    OBVIOUS
  <2> HIDE DEF two, D, C, one, last
  <2>5. OpensBounds(D, n + 1, two)
    BY <1>1, <1>11, <2>1, <2>2, <2>3, <2>4, Open
  <2>6. HoldDeclared(D, n + 1, two)
    BY <1>1, <1>11, <2>1, <2>2, <2>3, <2>4, Open
  <2>7. \A call : InScope(C, one, call) => InScope(D, two, call)
    BY <1>1, <1>11, <2>1, <2>2, <2>3, <2>4, Open
  <2>8. OpensBelow(D, two, last + 1, C, one, scope, kids[3])
    BY <1>1, <1>11, <2>1, <2>2, <2>3, <2>4, Open
  <2> QED
    BY <2>5, <2>6, <2>7, <2>8
<1>13. /\ size + 1 \in DOMAIN one
       /\ size + 2 \in DOMAIN two
  <2>1. DOMAIN two = 1 .. (size + 1) + 1
    BY DEF More
  <2> HIDE DEF two, one
  <2> QED
    BY <1>3, <1>7, <2>1
<1> HIDE DEF one, two, C, D
\* The calls for the children.
<1>14. /\ calls[1] = [node |-> kids[1], scope |-> scope]
       /\ calls[2] = [node |-> kids[2], scope |-> size + 1]
       /\ calls[3] = [node |-> kids[3], scope |-> size + 2]
       /\ DOMAIN calls = {1, 2, 3}
  <2>1. 1 .. 3 = {1, 2, 3}
    OBVIOUS
  <2> QED
    BY <2>1
<1>15. calls \in Seq([node : 2 .. Len(tree), scope : Nat])
  <2>1. /\ kids[1] \in 2 .. Len(tree) /\ kids[2] \in 2 .. Len(tree)
        /\ kids[3] \in 2 .. Len(tree)
    BY <1>1, <1>9
  <2>2. size + 1 \in Nat /\ size + 2 \in Nat
    BY <1>3
  <2> QED
    BY <1>3, <2>1, <2>2
<1> HIDE DEF calls
<1>16. CallsOf(calls) = {calls[1], calls[2], calls[3]}
  BY <1>14 DEF CallsOf
<1>17. Ordered(calls)
  BY <1>4, <1>9, <1>14 DEF Ordered
<1>18. {call.node : call \in CallsOf(calls)} = Kids(n)
  <2>1. Kids(n) = {calls[1].node, calls[2].node, calls[3].node}
    BY <1>4, <1>14
  <2> QED
    BY <1>16, <2>1
<1>19. InScope(D, two, calls[1]) /\ InScope(C, one, calls[1])
  <2>1. InScope(B, scopes, calls[1])
    BY <1>0, <1>1, <1>14 DEF InScope
  <2> QED
    BY <1>10, <1>12, <2>1
<1>20. InScope(D, two, calls[2])
  <2>1. BoundsAlong(B, scopes, scope) = Enclosing(n)
    BY <1>1 DEF BoundsAlong
  <2>2. BoundsAlong(C, one, size + 1) = Enclosing(kids[2])
    BY <1>0, <1>10, <2>1 DEF OpensBelow
  <2>3. calls[2].scope = size + 1 /\ calls[2].node = kids[2]
    BY <1>14
  <2>4. InScope(C, one, calls[2])
    BY <1>13, <2>2, <2>3 DEF InScope, BoundsAlong
  <2> QED
    BY <1>12, <2>4
<1>21. InScope(D, two, calls[3])
  <2>1. BoundsAlong(C, one, scope) = Enclosing(n)
    BY <1>0, <1>14, <1>19 DEF InScope, BoundsAlong
  <2>2. last + 1 = size + 2
    BY <1>11
  <2>3. BoundsAlong(D, two, size + 2) = Enclosing(kids[3])
    BY <1>0, <1>12, <2>1, <2>2 DEF OpensBelow
  <2>4. calls[3].scope = size + 2 /\ calls[3].node = kids[3]
    BY <1>14
  <2> QED
    BY <1>13, <2>3, <2>4 DEF InScope, BoundsAlong
<1>22. \A call \in CallsOf(calls) : InScope(D, two, call)
  BY <1>16, <1>19, <1>20, <1>21
<1>23. Settled(n, symbolOf')
  <2>1. node.kind \notin {"VarDecl", "FnParam", "FnDef", "AssignSt", "VarExpr",
                          "FnCallExpr"}
    BY <1>2
  <2> QED
    BY <1>1, <2>1, OtherVerdict DEF Settled
<1>24. \A call : InScope(B, scopes, call) => InScope(D, two, call)
  BY <1>10, <1>12
<1>25. UnderWay(D, calls \o Tail(work), scopes', symbolOf')
  BY <1>2, <1>6, <1>12, <1>15, <1>17, <1>18, <1>22, <1>23, <1>24, StepOn
<1> QED
  BY <1>2, <1>25 DEF calls, kids, size
\* The root opens the global scope.
LEMMA RootStep ==
  ASSUME TypeOK, scopes = <<>>, AnalyzeRoot
  PROVE  \E C : UnderWay(C, work', scopes', symbolOf')
<1> DEFINE global == ScopeObject({1}, TRUE)
           after == <<global>>
           C == [s \in {1} |-> 1]
           calls == In(1, tree[1].kids)
           size == Len(tree)
<1>1. /\ WellFormed(tree) /\ 1 \in DOMAIN tree /\ size \in Nat
      /\ DOMAIN tree = 1 .. size /\ tree[1].kind = "Root"
  BY TreeShape DEF TypeOK
<1>2. /\ work = <<[node |-> 1, scope |-> 0]>>
      /\ scopes' = after
      /\ work' = In(1, node.kids) \o Tail(work)
  <2>1. work # <<>> /\ scopes' = after /\ work' = In(1, node.kids) \o Tail(work)
    BY DEF AnalyzeRoot, Analyze, AndThen
  <2>2. SUFFICES ASSUME work \in Seq([node : 2 .. Len(tree), scope : DOMAIN scopes])
                 PROVE  FALSE
    BY <2>1 DEF TypeOK
  <2> DEFINE R == [node : 2 .. Len(tree), scope : DOMAIN scopes]
  <2>3. R = {}
    <3>1. DOMAIN scopes = {}
      OBVIOUS
    <3> QED
      BY <3>1
  <2> HIDE DEF R
  <2>4. Head(work) \in R
    BY <2>1, <2>2, HeadTailProperties DEF R
  <2> QED
    BY <2>3, <2>4
<1>3. Tail(work) = <<>> /\ node = tree[1]
  BY <1>2 DEF n, node
<1>4. /\ calls \in Seq([node : 2 .. size, scope : Nat])
      /\ Ordered(calls)
      /\ {call.node : call \in CallsOf(calls)} = Kids(1)
      /\ \A call \in CallsOf(calls) : call.scope = 1 /\ call.node \in Kids(1)
  BY <1>1, CallsForKids
<1>5. work' = calls
  <2> DEFINE R == [node : 2 .. size, scope : Nat]
  <2>1. calls \in Seq(R)
    BY <1>4
  <2>2. work' = calls \o <<>>
    BY <1>2, <1>3
  <2> HIDE DEF R, calls
  <2>3. calls \o <<>> = calls
    BY <2>1, ConcatEmptySeq
  <2> QED
    BY <2>2, <2>3
<1> HIDE DEF calls
<1> DEFINE p == Position(calls)
<1>6. IF Kids(1) = {} THEN p = size + 1
      ELSE p \in Kids(1) /\ \A m \in Kids(1) : p <= m
  BY <1>4, PositionIsLeast
<1> HIDE DEF p, size
<1>7. \A k \in Kids(1) : k \in 2 .. size /\ Parent(k) = 1
  <2>1. \A k \in Kids(1) : k \in 1 + 1 .. size /\ Parent(k) = 1
    BY <1>1, TreeShape DEF size
  <2> QED
    BY <2>1
<1>8. \A k \in 2 .. size : Parent(k) \in 1 .. k - 1 /\ k \in Kids(Parent(k))
  BY <1>1, TreeShape DEF size
<1>9. p = 2
  <2>1. CASE size < 2
    <3>1. Kids(1) = {}
      BY <1>1, <1>7, <2>1
    <3>2. size = 1
      BY <1>1, <2>1
    <3> QED
      BY <1>6, <3>1, <3>2
  <2>2. CASE size >= 2
    <3>1. 2 \in 2 .. size
      BY <1>1, <2>2
    <3>2. Parent(2) \in 1 .. 2 - 1
      BY <1>8, <3>1
    <3>3. Parent(2) = 1
      BY <3>2
    <3>4. 2 \in Kids(1)
      BY <1>8, <3>1, <3>3
    <3>5. p \in 2 .. size /\ p <= 2
      BY <1>6, <1>7, <3>4
    <3> QED
      BY <1>1, <3>5
  <2> QED
    BY <1>1, <2>1, <2>2
<1>10. Kids(1) = Ahead(2)
  <2>1. \A k \in Kids(1) : k \in 2 .. size /\ Parent(k) < 2
    BY <1>7
  <2>2. ASSUME NEW k \in 2 .. size, Parent(k) < 2 PROVE k \in Kids(1)
    <3>1. Parent(k) \in 1 .. k - 1 /\ k \in Kids(Parent(k))
      BY <1>8
    <3>2. Parent(k) = 1
      BY <2>2, <3>1
    <3> QED
      BY <3>1, <3>2
  <2> QED
    BY <2>1, <2>2 DEF Ahead, size
<1>11. 1 \notin Arguments
  <2>1. SUFFICES ASSUME NEW m \in DOMAIN tree, 1 \in Subtree(m) \ {m} PROVE FALSE
    BY DEF Arguments
  <2>2. 1 \in m .. size /\ m \in 1 .. size /\ m # 1
    BY <1>1, <2>1, SubtreeOrder DEF size
  <2> QED
    BY <1>1, <2>2
<1>12. \A k \in Kids(1) : k \notin Arguments
  <2>1. tree[1].kind # "FnCallExpr"
    BY <1>1
  <2> QED
    BY <1>1, <1>11, <2>1, ArgumentsBelowCalls
<1>13. CallsAhead(calls)
  <2>1. \A call \in CallsOf(calls) : call.node \notin Arguments
    BY <1>4, <1>12
  <2> QED
    BY <1>4, <1>9, <1>10, <2>1 DEF CallsAhead, p, size
<1>14. /\ DOMAIN after = {1} /\ after[1] = global
       /\ global.chain = {1} /\ global.isGlobal = TRUE
       /\ \A name \in Names : global.table[name] = NoSymbol
  BY DEF ScopeObject
<1> HIDE DEF global, after
<1>15. 1 \in Bounds /\ ~IsFn(1) /\ 1 \notin Branches
  <2>1. 1 \notin Branches
    <3>1. 1 \notin 2 .. Len(tree)
      BY <1>1 DEF size
    <3> QED
      BY <1>1, <3>1, Bounding
  <2> QED
    BY <1>1, <2>1 DEF Bounds, IsFn
<1>16. C \in [{1} -> Bounds] /\ C[1] = 1
  BY <1>15
<1> HIDE DEF C
<1>17. OpensBounds(C, 2, after)
  BY <1>14, <1>16 DEF OpensBounds, Opened
<1>18. HoldDeclared(C, 2, after)
  <2>1. \A d \in Declarations : ~(d < 2)
    <3>1. SUFFICES ASSUME NEW d \in Declarations, d < 2 PROVE FALSE
      OBVIOUS
    <3>2. d \in 1 .. size
      BY <1>1 DEF Declarations
    <3>3. d = 1
      BY <1>1, <3>1, <3>2
    <3> QED
      BY <1>1, <3>3 DEF Declarations
  <2> QED
    BY <1>14, <2>1 DEF HoldDeclared
<1>19. Enclosing(1) = {1}
  <2>1. Enclosing(1) \subseteq 1 .. 1
    BY <1>1, OwnerIsInnermost
  <2>2. 1 \in Enclosing(1)
    BY <1>1, <1>15, SubtreeOrder DEF Enclosing
  <2>3. 1 .. 1 = {1}
    OBVIOUS
  <2> QED
    BY <2>1, <2>2, <2>3
<1>20. \A call \in CallsOf(calls) : InScope(C, after, call)
  <2>1. {C[t] : t \in after[1].chain} = {1}
    BY <1>14, <1>16
  <2>2. \A k \in Kids(1) : Enclosing(k) = {1}
    <3>1. tree[1].kind \notin {"FnDef", "IfSt"}
      BY <1>1
    <3> QED
      BY <1>1, <1>19, <3>1, KidsEnclosed
  <2> QED
    BY <1>4, <1>14, <2>1, <2>2 DEF InScope
<1>21. SettledBefore(2, symbolOf')
  <2>1. 2 .. 2 - 1 = {}
    OBVIOUS
  <2> QED
    BY <2>1 DEF SettledBefore
<1>22. UnderWay(C, calls, after, symbolOf')
  BY <1>9, <1>13, <1>17, <1>18, <1>20, <1>21 DEF UnderWay, p
<1> QED
  BY <1>2, <1>5, <1>22

-----------------------------------------------------------------------------
(* The tree never changes, and neither does what is said of the tree alone. *)

LEMMA SameTree ==
  ASSUME tree' = tree
  PROVE  /\ Bounds' = Bounds /\ Branches' = Branches
         /\ Declarations' = Declarations /\ Arguments' = Arguments
         /\ \A m : /\ Parent(m)' = Parent(m)
                   /\ Subtree(m)' = Subtree(m)
                   /\ IsFn(m)' = IsFn(m)
                   /\ Owner(m)' = Owner(m)
                   /\ Enclosing(m)' = Enclosing(m)
                   /\ Variables(m)' = Variables(m)
                   /\ Correct(m)' = Correct(m)
                   /\ Sym(m)' = Sym(m)
<1>1. \A m : Parent(m)' = Parent(m)
  BY DEF Parent
<1>2. \A m : Kids(m)' = Kids(m)
  BY DEF Kids
<1>3. \A m : Subtree(m)' = Subtree(m)
  BY <1>2 DEF Subtree
<1>4. Bounds' = Bounds
  BY DEF Bounds
<1>5. Branches' = Branches
  BY DEF Branches
<1>6. Declarations' = Declarations
  BY DEF Declarations
<1>7. Arguments' = Arguments
  BY <1>3 DEF Arguments
<1>8. \A m : IsFn(m)' = IsFn(m)
  BY DEF IsFn
<1>9. \A m : Owner(m)' = Owner(m)
  BY <1>3, <1>4 DEF Owner
<1>10. \A m : Enclosing(m)' = Enclosing(m)
  BY <1>3, <1>4, <1>8 DEF Enclosing
<1>11. \A m : Visible(m)' = Visible(m)
  BY <1>3, <1>6, <1>9 DEF Visible
<1>12. \A m : Variables(m)' = Variables(m) /\ Functions(m)' = Functions(m)
  BY <1>11 DEF Variables, Functions
<1>13. \A m : Correct(m)' = Correct(m)
  BY <1>6, <1>11, <1>12 DEF Correct
<1>14. \A m : Sym(m)' = Sym(m)
  BY <1>8, <1>9 DEF Sym
<1> QED
  BY <1>1, <1>3, <1>4, <1>5, <1>6, <1>7, <1>8, <1>9, <1>10, <1>12, <1>13, <1>14

LEMMA StillUnderWay ==
  ASSUME tree' = tree, NEW B, UnderWay(B, work', scopes', symbolOf')
  PROVE  UnderWay(B, work, scopes, symbolOf)'
<1>1. /\ Bounds' = Bounds /\ Branches' = Branches
      /\ Declarations' = Declarations /\ Arguments' = Arguments
  BY SameTree
<1>2. \A m : /\ Parent(m)' = Parent(m)
             /\ IsFn(m)' = IsFn(m)
             /\ Owner(m)' = Owner(m)
             /\ Enclosing(m)' = Enclosing(m)
             /\ Variables(m)' = Variables(m)
             /\ Correct(m)' = Correct(m)
             /\ Sym(m)' = Sym(m)
  BY SameTree
<1>3. /\ OpensBounds(B, Position(work'), scopes')
      /\ HoldDeclared(B, Position(work'), scopes')
      /\ CallsAhead(work')
      /\ \A call \in CallsOf(work') : InScope(B, scopes', call)
      /\ SettledBefore(Position(work'), symbolOf')
  BY DEF UnderWay
<1>4. Position(work)' = Position(work')
  BY DEF Position
<1>5. OpensBounds(B, Position(work), scopes)'
  BY <1>1, <1>2, <1>3, <1>4 DEF OpensBounds, Opened
<1>6. HoldDeclared(B, Position(work), scopes)'
  BY <1>1, <1>2, <1>3, <1>4 DEF HoldDeclared
<1>7. CallsAhead(work)'
  BY <1>1, <1>2, <1>3, <1>4 DEF CallsAhead, Ordered, CallsOf, Ahead
<1>8. (\A call \in CallsOf(work) : InScope(B, scopes, call))'
  BY <1>2, <1>3 DEF CallsOf, InScope
<1>9. SettledBefore(Position(work), symbolOf)'
  <2>1. \A m : Owner(symbolOf[m].declaredAt)' = Owner(symbolOf'[m].declaredAt)
    <3>1. \A m : Subtree(m)' = Subtree(m)
      BY SameTree
    <3> QED
      BY <1>1, <3>1 DEF Owner
  <2> QED
    BY <1>1, <1>2, <1>3, <1>4, <2>1 DEF SettledBefore, Settled
<1> QED
  BY <1>5, <1>6, <1>7, <1>8, <1>9 DEF UnderWay

-----------------------------------------------------------------------------
(* The invariant holds. *)

LEMMA ScopingInit ==
  ASSUME Init
  PROVE  ScopingInv
BY DEF Init, ScopingInv

\* A step that goes on keeps the invariant.
LEMMA GoesOn ==
  ASSUME TypeOK, ScopingInv, tree' = tree, status = "running", status' = status,
         \E B : UnderWay(B, work', scopes', symbolOf'), scopes' # <<>>
  PROVE  ScopingInv'
<1>1. PICK B : UnderWay(B, work', scopes', symbolOf')
  OBVIOUS
<1>2. UnderWay(B, work, scopes, symbolOf)'
  BY <1>1, StillUnderWay
<1>3. (\E C : UnderWay(C, work, scopes, symbolOf))'
  BY <1>2
<1> QED
  BY <1>3 DEF ScopingInv

\* What a step that changes neither the tree nor the scopes leaves as it was.
LEMMA SameUnderWay ==
  ASSUME UNCHANGED <<tree, work, scopes, symbolOf>>
  PROVE  /\ (\E B : UnderWay(B, work, scopes, symbolOf))
              => (\E B : UnderWay(B, work, scopes, symbolOf))'
         /\ n' = n
         /\ Correct(n)' <=> Correct(n)
<1>1. tree' = tree /\ work' = work /\ scopes' = scopes /\ symbolOf' = symbolOf
  OBVIOUS
<1>2. (\E B : UnderWay(B, work, scopes, symbolOf))
        => (\E B : UnderWay(B, work, scopes, symbolOf))'
  <2>1. SUFFICES ASSUME NEW B, UnderWay(B, work, scopes, symbolOf)
                 PROVE  (\E C : UnderWay(C, work, scopes, symbolOf))'
    OBVIOUS
  <2>2. UnderWay(B, work', scopes', symbolOf')
    BY <1>1, <2>1
  <2>3. UnderWay(B, work, scopes, symbolOf)'
    BY <1>1, <2>2, StillUnderWay
  <2> QED
    BY <2>3
<1>3. n' = n
  BY <1>1 DEF n
<1>4. Correct(n)' = Correct(n)
  <2>1. PICK m : m = n
    OBVIOUS
  <2>2. Correct(m)' = Correct(m)
    BY <1>1, SameTree
  <2>3. m = n'
    BY <1>3, <2>1
  <2>4. Correct(n)' = Correct(m)'
    BY <1>1, <2>1, <2>3, SameTree
  <2> QED
    BY <2>1, <2>2, <2>4
<1> QED
  BY <1>2, <1>3, <1>4

\* Before a scope is opened only the root is analysed.
LEMMA ScopesOpened ==
  ASSUME TypeOK, work # <<>>, node.kind # "Root"
  PROVE  scopes # <<>>
<1>1. scope \in DOMAIN scopes
  BY CurrentCall
<1>2. DOMAIN <<>> = {}
  OBVIOUS
<1> QED
  BY <1>1, <1>2

LEMMA RefusalRight ==
  ASSUME TypeOK, ScopingInv, ParametersFit,
         RefuseDeclaration \/ RefuseVariable \/ RefuseCall
  PROVE  ScopingInv'
<1>1. /\ work # <<>>
      /\ node.kind \in {"VarDecl", "FnParam", "FnDef", "AssignSt", "VarExpr",
                        "FnCallExpr"}
      /\ errorAt' = n /\ status' = "semantic_error"
      /\ UNCHANGED <<tree, work, scopes, symbolOf>>
  BY DEF RefuseDeclaration, RefuseVariable, RefuseCall, fatalSemaError
<1>2. scopes # <<>>
  BY <1>1, ScopesOpened
<1>3. tree \in Trees
  BY DEF ScopingInv
<1>4. PICK B : UnderWay(B, work, scopes, symbolOf)
  BY <1>2 DEF ScopingInv
<1>5. ~Correct(n)
  <2>1. CASE RefuseDeclaration
    BY <1>1, <1>2, <1>4, <2>1, DeclarationVerdict DEF RefuseDeclaration
  <2>2. CASE RefuseVariable
    BY <1>1, <1>2, <1>4, <2>2, VariableVerdict DEF RefuseVariable
  <2>3. CASE RefuseCall
    BY <1>1, <1>2, <1>3, <1>4, <2>3, CallVerdict DEF RefuseCall
  <2> QED
    BY <2>1, <2>2, <2>3
<1>6. /\ (\E C : UnderWay(C, work, scopes, symbolOf))'
      /\ n' = n /\ ~Correct(n)'
  BY <1>1, <1>4, <1>5, SameUnderWay
<1> QED
  BY <1>1, <1>2, <1>3, <1>6 DEF ScopingInv

LEMMA ScopingStep ==
  ASSUME TypeOK, ScopingInv, ParametersFit, [Next]_vars
  PROVE  ScopingInv'
<1>1. CASE UNCHANGED vars
  <2>1. /\ UNCHANGED <<tree, work, scopes, symbolOf>>
        /\ errorAt' = errorAt /\ status' = status
    BY <1>1 DEF vars
  <2> QED
    BY <2>1, SameUnderWay DEF ScopingInv
<1>2. CASE AnalyzeRoot
  <2>1. /\ status = "running" /\ status' = status /\ tree' = tree
        /\ work # <<>> /\ node.kind = "Root"
        /\ scopes' = <<ScopeObject({1}, TRUE)>>
    BY <1>2 DEF AnalyzeRoot, Analyze
  <2>2. scopes = <<>>
    BY <2>1, AtNode DEF ScopingInv
  <2>3. \E C : UnderWay(C, work', scopes', symbolOf')
    BY <1>2, <2>2, RootStep
  <2>4. scopes' # <<>>
    BY <2>1
  <2> QED
    BY <2>1, <2>3, <2>4, GoesOn
<1>3. CASE \/ AnalyzeVarDecl \/ AnalyzeFnParam \/ AnalyzeFnDef
           \/ AnalyzeBlock \/ AnalyzeIfSt \/ AnalyzeVariable \/ AnalyzeFnCallExpr
           \/ AnalyzeOperands \/ AnalyzeLiteral
  <2>1. /\ status = "running" /\ status' = status /\ tree' = tree
        /\ work # <<>> /\ node.kind # "Root"
    BY <1>3 DEF AnalyzeVarDecl, AnalyzeFnParam, AnalyzeFnDef, AnalyzeBlock,
                AnalyzeIfSt, AnalyzeVariable, AnalyzeFnCallExpr, AnalyzeOperands,
                AnalyzeLiteral, Analyze, Operations, Literals
  <2>2. scopes # <<>>
    BY <2>1, ScopesOpened
  <2>3. tree \in Trees
    BY DEF ScopingInv
  <2>4. PICK B : UnderWay(B, work, scopes, symbolOf)
    BY <2>2 DEF ScopingInv
  <2>5. \E C : UnderWay(C, work', scopes', symbolOf')
    <3>1. CASE AnalyzeVarDecl \/ AnalyzeFnParam
      BY <2>2, <2>4, <3>1, DeclareStep
    <3>2. CASE AnalyzeFnDef
      BY <2>2, <2>4, <3>2, FnDefStep
    <3>3. CASE AnalyzeIfSt
      BY <2>2, <2>4, <3>3, IfStStep
    <3>4. CASE \/ AnalyzeBlock \/ AnalyzeVariable \/ AnalyzeFnCallExpr
               \/ AnalyzeOperands \/ AnalyzeLiteral
      BY <2>2, <2>3, <2>4, <3>4, WalkStep
    <3> QED
      BY <1>3, <3>1, <3>2, <3>3, <3>4
  <2>6. scopes' # <<>>
    <3>1. Grows
      BY <2>2, <1>3, StepGrows DEF Next
    <3>2. DOMAIN scopes \subseteq DOMAIN scopes'
      BY <3>1, GrowsDomain
    <3>3. scope \in DOMAIN scopes
      BY <2>1, CurrentCall
    <3>4. DOMAIN <<>> = {}
      OBVIOUS
    <3> QED
      BY <3>2, <3>3, <3>4
  <2> QED
    BY <2>1, <2>5, <2>6, GoesOn
<1>4. CASE RefuseDeclaration \/ RefuseVariable \/ RefuseCall
  BY <1>4, RefusalRight
<1>5. CASE Finish
  <2>1. /\ UNCHANGED <<tree, work, scopes, symbolOf>>
        /\ work = <<>> /\ status' = "analysed"
    BY <1>5 DEF Finish
  <2>2. scopes # <<>>
    BY <2>1 DEF ScopingInv
  <2>3. tree' \in Trees /\ work' = <<>> /\ scopes' # <<>>
    BY <2>1, <2>2 DEF ScopingInv
  <2>4. (\E C : UnderWay(C, work, scopes, symbolOf))'
    BY <2>1, <2>2, SameUnderWay DEF ScopingInv
  <2> QED
    BY <2>1, <2>3, <2>4 DEF ScopingInv
<1> QED
  BY <1>1, <1>2, <1>3, <1>4, <1>5 DEF Next

\* The analysis is always where the invariant says, as long as no function has
\* more parameters than SymbolObject::param_num can count.
THEOREM ScopingInvariant ==
  ASSUME ParametersFit
  PROVE  Spec => []ScopingInv
<1>1. Init => ScopingInv
  BY ScopingInit
<1>2. TypeOK /\ ScopingInv /\ [Next]_vars => ScopingInv'
  BY ScopingStep
<1> QED
  BY <1>1, <1>2, SemaTypeCorrect, PTL DEF Spec

-----------------------------------------------------------------------------
(* What it is for. *)

\* What was analysed before p is right.
LEMMA RightBefore ==
  ASSUME WellFormed(tree), NEW p \in Nat, SettledBefore(p, symbolOf),
         NEW m \in DOMAIN tree \ Arguments, m < p
  PROVE  Correct(m) /\ (m # 1 => Settled(m, symbolOf))
<1>1. m \in 1 .. Len(tree) /\ Len(tree) \in Nat
  BY TreeShape
<1>2. CASE m = 1
  <2>1. tree[m].kind = "Root"
    BY <1>2, TreeShape
  <2> QED
    BY <1>2, <2>1, OtherVerdict
<1>3. CASE m # 1
  <2>1. Settled(m, symbolOf)
    BY <1>1, <1>3 DEF SettledBefore
  <2> QED
    BY <2>1 DEF Settled
<1> QED
  BY <1>2, <1>3

LEMMA ResolvedAtTheEnd ==
  ASSUME TypeOK, ScopingInv
  PROVE  ResolvesStatically
<1>1. SUFFICES ASSUME status = "analysed"
               PROVE  /\ Wrong = {}
                      /\ \A m \in DOMAIN tree \ Arguments :
                           tree[m].kind \in {"AssignSt", "VarExpr"} =>
                             /\ Variables(m) = {symbolOf[m].declaredAt}
                             /\ symbolOf[m].isGlobal
                                  <=> Owner(symbolOf[m].declaredAt) = 1
  BY DEF ResolvesStatically
<1>2. work = <<>> /\ scopes # <<>> /\ WellFormed(tree)
  BY <1>1 DEF ScopingInv, TypeOK
<1>3. PICK B : UnderWay(B, work, scopes, symbolOf)
  BY <1>2 DEF ScopingInv
<1>4. SettledBefore(Len(tree) + 1, symbolOf)
  BY <1>2, <1>3 DEF UnderWay, Position
<1>5. ASSUME NEW m \in DOMAIN tree \ Arguments
      PROVE  /\ Correct(m)
             /\ tree[m].kind \in {"AssignSt", "VarExpr"} =>
                  /\ Variables(m) = {symbolOf[m].declaredAt}
                  /\ symbolOf[m].isGlobal <=> Owner(symbolOf[m].declaredAt) = 1
  <2>1. m < Len(tree) + 1 /\ Len(tree) + 1 \in Nat
    BY <1>2, TreeShape
  <2>2. Correct(m) /\ (m # 1 => Settled(m, symbolOf))
    BY <1>2, <1>4, <2>1, RightBefore
  <2>3. tree[m].kind \in {"AssignSt", "VarExpr"} => m # 1
    BY <1>2, TreeShape
  <2> QED
    BY <2>2, <2>3 DEF Settled
<1> QED
  BY <1>5 DEF Wrong

LEMMA FirstWrongRefused ==
  ASSUME TypeOK, ScopingInv
  PROVE  RefusesFirstWrong
<1>1. SUFFICES ASSUME status = "semantic_error"
               PROVE  Wrong # {} /\ errorAt = Min(Wrong)
  BY DEF RefusesFirstWrong
<1>2. /\ work # <<>> /\ scopes # <<>> /\ WellFormed(tree)
      /\ errorAt = n /\ ~Correct(n)
  BY <1>1 DEF ScopingInv, TypeOK
<1>3. PICK B : UnderWay(B, work, scopes, symbolOf)
  BY <1>2 DEF ScopingInv
<1>4. n \in DOMAIN tree /\ n \in Nat /\ n \notin Arguments /\ Position(work) = n
  BY <1>2, <1>3, AtNode
<1>5. n \in Wrong
  BY <1>2, <1>4 DEF Wrong
<1>6. ASSUME NEW m \in Wrong PROVE m \in Nat /\ n <= m
  <2>1. m \in DOMAIN tree \ Arguments /\ ~Correct(m)
    BY DEF Wrong
  <2>2. m \in Nat
    BY <1>2, <2>1, TreeShape
  <2>3. SettledBefore(n, symbolOf)
    BY <1>3, <1>4 DEF UnderWay
  <2>4. ~(m < n)
    BY <1>2, <1>4, <2>1, <2>3, RightBefore
  <2> QED
    BY <1>4, <2>2, <2>4
<1>7. Min(Wrong) = n
  <2>1. \A x \in Wrong : (\A y \in Wrong : x <= y) <=> x = n
    BY <1>4, <1>5, <1>6
  <2>2. Min(Wrong) = CHOOSE x \in Wrong : \A y \in Wrong : x <= y
    BY DEF Min
  <2>3. (CHOOSE x \in Wrong : \A y \in Wrong : x <= y) = n
    BY <1>5, <2>1
  <2> QED
    BY <2>2, <2>3
<1> QED
  BY <1>2, <1>5, <1>7

\* A tree that passes has no wrong node but below calls, and each of its variables
\* was given the one declaration it can see (sema.cpp, scope.cpp).
THEOREM NamesResolveStatically ==
  ASSUME ParametersFit
  PROVE  Spec => []ResolvesStatically
<1>1. TypeOK /\ ScopingInv => ResolvesStatically
  BY ResolvedAtTheEnd
<1> QED
  BY <1>1, SemaTypeCorrect, ScopingInvariant, PTL

\* A tree that is refused has a wrong node, and the error is at the first one.
THEOREM FirstWrongIsRefused ==
  ASSUME ParametersFit
  PROVE  Spec => []RefusesFirstWrong
<1>1. TypeOK /\ ScopingInv => RefusesFirstWrong
  BY FirstWrongRefused
<1> QED
  BY <1>1, SemaTypeCorrect, ScopingInvariant, PTL
=============================================================================
