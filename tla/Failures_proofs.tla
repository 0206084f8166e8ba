-------------------------- MODULE Failures_proofs --------------------------
(***************************************************************************)
(* Proofs about how the code generation ends, for every set of trees that  *)
(* codegen() can go through: it ends early only for the causes that        *)
(* Failures names.  The nodes are generated in the order of the text, so   *)
(* that what is known at a node is what stands before it.                  *)
(***************************************************************************)
EXTENDS Codegen_proofs, Failures

-----------------------------------------------------------------------------
(* What is left to do goes through the rest of the text.                     *)

\* The nodes that a step goes on with.
Comes(j) ==
  IF j.do = "generate" THEN {j.node}
  ELSE IF j.do = "IfSt" THEN {tree[j.node].kids[2], tree[j.node].kids[3]}
  ELSE {}

ToCome(s) == UNION {Comes(s[k]) : k \in DOMAIN s}

Ascending(s) ==
  \A k, l \in DOMAIN s : k < l => \A x \in Comes(s[k]), y \in Comes(s[l]) : x < y

\* The nodes that come next when those before c have been begun.
Coming(c) == {m \in c .. Len(tree) : m = 1 \/ Parent(m) < c}

OnItsWay(c, s) ==
  /\ Ascending(s)
  /\ ToCome(s) = Coming(c)
  /\ \A k \in DOMAIN s : s[k].do # "generate" => s[k].node < c

\* Where the steps of a list with a new beginning come from.
Joined(t, js, s) ==
  /\ \A k \in DOMAIN t :
       \/ k \in DOMAIN js /\ t[k] = js[k]
       \/ \E l \in DOMAIN s : l > 1 /\ k = Len(js) + (l - 1) /\ t[k] = s[l]
  /\ \A k \in DOMAIN js : k \in DOMAIN t /\ t[k] = js[k]
  /\ \A l \in DOMAIN s :
       l > 1 => Len(js) + (l - 1) \in DOMAIN t /\ t[Len(js) + (l - 1)] = s[l]
  /\ Len(js) \in Nat /\ DOMAIN js = 1 .. Len(js)
  /\ DOMAIN s \subseteq Nat \ {0} /\ 1 \in DOMAIN s

LEMMA Spliced ==
  ASSUME NEW S, NEW s \in Seq(S), s # <<>>, NEW js, IsSeq(js), NEW t, t = js \o Tail(s)
  PROVE  Joined(t, js, s)
<1> DEFINE r == Tail(s)
           a == Len(js)
           b == Len(s)
<1>1. /\ IsSeq(r) /\ Len(r) = b - 1 /\ b \in Nat /\ b > 0 /\ DOMAIN s = 1 .. b
      /\ DOMAIN r = 1 .. b - 1 /\ \A k \in DOMAIN r : r[k] = s[k + 1]
  <2>1. r \in Seq(S) /\ Len(r) = b - 1 /\ b \in Nat /\ b > 0
    OBVIOUS
  <2>2. \A k \in 1 .. b - 1 : r[k] = s[k + 1]
    OBVIOUS
  <2>3. DOMAIN s = 1 .. b
    OBVIOUS
  <2> HIDE DEF r, b
  <2>4. IsSeq(r) /\ DOMAIN r = 1 .. Len(r)
    BY <2>1, IsSeqOf
  <2> QED
    BY <2>1, <2>2, <2>3, <2>4
<1>2. a \in Nat /\ DOMAIN js = 1 .. a
  BY SeqFacts
<1>3. t = js \o r
  OBVIOUS
<1> HIDE DEF r, a, b
<1>4. /\ IsSeq(t) /\ DOMAIN t = 1 .. a + (b - 1)
      /\ \A k \in DOMAIN t : t[k] = IF k <= a THEN js[k] ELSE r[k - a]
  <2>1. IsSeq(t) /\ DOMAIN t = 1 .. Len(js) + Len(r)
    BY <1>1, <1>3, Concatenated
  <2>2. \A k \in DOMAIN t : t[k] = IF k <= Len(js) THEN js[k] ELSE r[k - Len(js)]
    BY <1>1, <1>3, Concatenated
  <2> QED
    BY <1>1, <2>1, <2>2 DEF a
<1>5. \A k \in 1 .. a + (b - 1) :
        \/ k \in 1 .. a /\ k <= a
        \/ /\ ~(k <= a) /\ k - a \in 1 .. b - 1 /\ (k - a) + 1 \in 1 .. b
           /\ (k - a) + 1 > 1 /\ k = a + (((k - a) + 1) - 1)
  BY <1>1, <1>2
<1>6. \A k \in DOMAIN t :
        \/ k \in DOMAIN js /\ t[k] = js[k]
        \/ \E l \in DOMAIN s : l > 1 /\ k = a + (l - 1) /\ t[k] = s[l]
  <2> SUFFICES ASSUME NEW k \in DOMAIN t
               PROVE  \/ k \in DOMAIN js /\ t[k] = js[k]
                      \/ \E l \in DOMAIN s : l > 1 /\ k = a + (l - 1) /\ t[k] = s[l]
    OBVIOUS
  <2>1. CASE k \in 1 .. a /\ k <= a
    BY <1>2, <1>4, <2>1
  <2>2. CASE /\ ~(k <= a) /\ k - a \in 1 .. b - 1 /\ (k - a) + 1 \in 1 .. b
             /\ (k - a) + 1 > 1 /\ k = a + (((k - a) + 1) - 1)
    <3>1. t[k] = r[k - a] /\ r[k - a] = s[(k - a) + 1]
      BY <1>1, <1>4, <2>2
    <3> QED
      BY <1>1, <2>2, <3>1
  <2> QED
    BY <1>4, <1>5, <2>1, <2>2
<1>7. \A k \in DOMAIN js : k \in DOMAIN t /\ t[k] = js[k]
  <2>1. \A k \in 1 .. a : k \in 1 .. a + (b - 1) /\ k <= a
    BY <1>1, <1>2
  <2> QED
    BY <1>2, <1>4, <2>1
<1>8. \A l \in DOMAIN s : l > 1 => a + (l - 1) \in DOMAIN t /\ t[a + (l - 1)] = s[l]
  <2> SUFFICES ASSUME NEW l \in 1 .. b, l > 1
               PROVE  a + (l - 1) \in DOMAIN t /\ t[a + (l - 1)] = s[l]
    BY <1>1
  <2>1. /\ a + (l - 1) \in 1 .. a + (b - 1) /\ ~(a + (l - 1) <= a)
        /\ (a + (l - 1)) - a = l - 1 /\ l - 1 \in 1 .. b - 1 /\ (l - 1) + 1 = l
    BY <1>1, <1>2
  <2> QED
    BY <1>1, <1>4, <2>1
<1> QED
  <2>1. \A k \in 1 .. b : k \in Nat \ {0}
    BY <1>1
  <2>2. 1 \in 1 .. b
    BY <1>1
  <2> QED
    BY <1>1, <1>2, <1>4, <1>6, <1>7, <1>8, <2>1, <2>2 DEF a, Joined

LEMMA ComesOn ==
  ASSUME NEW s, NEW js, NEW t, Joined(t, js, s),
         Ascending(s), Ascending(js), ToCome(s) \subseteq Nat,
         \A x \in ToCome(js), y \in ToCome(s) \ Comes(s[1]) : x < y
  PROVE  /\ Ascending(t)
         /\ ToCome(t) = ToCome(js) \cup (ToCome(s) \ Comes(s[1]))
<1> DEFINE a == Len(js)
<1>1. \A l \in DOMAIN s : l > 1 => Comes(s[l]) \subseteq ToCome(s) \ Comes(s[1])
  <2> SUFFICES ASSUME NEW l \in DOMAIN s, l > 1, NEW x \in Comes(s[l])
               PROVE  x \in ToCome(s) /\ x \notin Comes(s[1])
    OBVIOUS
  <2>1. x \in ToCome(s)
    BY DEF ToCome
  <2>2. 1 \in DOMAIN s /\ x \in Nat
    BY <2>1 DEF Joined
  <2>3. x \in Comes(s[1]) => x < x
    BY <2>2 DEF Ascending
  <2> QED
    BY <2>1, <2>2, <2>3
<1>2. \A x \in ToCome(s) : x \in Comes(s[1]) \/ \E l \in DOMAIN s : l > 1 /\ x \in Comes(s[l])
  <2> SUFFICES ASSUME NEW l \in DOMAIN s, NEW x \in Comes(s[l])
               PROVE  x \in Comes(s[1]) \/ \E i \in DOMAIN s : i > 1 /\ x \in Comes(s[i])
    BY DEF ToCome
  <2>1. l = 1 \/ l > 1
    BY DEF Joined
  <2> QED
    BY <2>1
<1>3. /\ \A k \in DOMAIN t :
              \/ k \in DOMAIN js /\ t[k] = js[k]
              \/ \E l \in DOMAIN s : l > 1 /\ k = a + (l - 1) /\ t[k] = s[l]
      /\ \A k \in DOMAIN js : k \in DOMAIN t /\ t[k] = js[k]
      /\ \A l \in DOMAIN s : l > 1 => a + (l - 1) \in DOMAIN t /\ t[a + (l - 1)] = s[l]
      /\ a \in Nat /\ DOMAIN js = 1 .. a
      /\ DOMAIN s \subseteq Nat
  BY DEF Joined
<1> HIDE DEF a
<1>4. ToCome(t) = ToCome(js) \cup (ToCome(s) \ Comes(s[1]))
  <2>1. ASSUME NEW k \in DOMAIN t
        PROVE  Comes(t[k]) \subseteq ToCome(js) \cup (ToCome(s) \ Comes(s[1]))
    <3>1. CASE k \in DOMAIN js /\ t[k] = js[k]
      BY <3>1 DEF ToCome
    <3>2. CASE \E l \in DOMAIN s : l > 1 /\ k = a + (l - 1) /\ t[k] = s[l]
      BY <1>1, <3>2
    <3> QED
      BY <1>3, <3>1, <3>2
  <2>2. ToCome(js) \subseteq ToCome(t)
    BY <1>3 DEF ToCome
  <2>3. ToCome(s) \ Comes(s[1]) \subseteq ToCome(t)
    <3> SUFFICES ASSUME NEW x \in ToCome(s), x \notin Comes(s[1]) PROVE x \in ToCome(t)
      OBVIOUS
    <3>1. PICK l \in DOMAIN s : l > 1 /\ x \in Comes(s[l])
      BY <1>2
    <3>2. a + (l - 1) \in DOMAIN t /\ t[a + (l - 1)] = s[l]
      BY <1>3, <3>1
    <3> QED
      BY <3>1, <3>2 DEF ToCome
  <2>4. ToCome(t) \subseteq ToCome(js) \cup (ToCome(s) \ Comes(s[1]))
    BY <2>1 DEF ToCome
  <2> QED
    BY <2>2, <2>3, <2>4
<1>5. ASSUME NEW k \in DOMAIN t, NEW l \in DOMAIN t, k < l,
             NEW x \in Comes(t[k]), NEW y \in Comes(t[l])
      PROVE  x < y
  <2>1. CASE k \in DOMAIN js /\ t[k] = js[k] /\ l \in DOMAIN js /\ t[l] = js[l]
    BY <1>5, <2>1 DEF Ascending
  <2>2. CASE /\ k \in DOMAIN js /\ t[k] = js[k]
             /\ \E i \in DOMAIN s : i > 1 /\ l = a + (i - 1) /\ t[l] = s[i]
    <3>1. x \in ToCome(js)
      BY <1>5, <2>2 DEF ToCome
    <3>2. y \in ToCome(s) \ Comes(s[1])
      BY <1>1, <1>5, <2>2
    <3> QED
      BY <3>1, <3>2
  <2>3. CASE /\ \E i \in DOMAIN s : i > 1 /\ k = a + (i - 1) /\ t[k] = s[i]
             /\ l \in DOMAIN js
    <3>1. PICK i \in DOMAIN s : i > 1 /\ k = a + (i - 1)
      BY <2>3
    <3>2. i \in Nat /\ l \in 1 .. a
      BY <1>3, <2>3
    <3>3. FALSE
      BY <1>3, <1>5, <3>1, <3>2
    <3> QED
      BY <3>3
  <2>4. CASE /\ \E i \in DOMAIN s : i > 1 /\ k = a + (i - 1) /\ t[k] = s[i]
             /\ \E i \in DOMAIN s : i > 1 /\ l = a + (i - 1) /\ t[l] = s[i]
    <3>1. PICK i \in DOMAIN s : i > 1 /\ k = a + (i - 1) /\ t[k] = s[i]
      BY <2>4
    <3>2. PICK j \in DOMAIN s : j > 1 /\ l = a + (j - 1) /\ t[l] = s[j]
      BY <2>4
    <3>3. i \in Nat /\ j \in Nat
      BY <1>3
    <3>4. i < j
      BY <1>3, <1>5, <3>1, <3>2, <3>3
    <3> QED
      BY <1>5, <3>1, <3>2, <3>4 DEF Ascending
  <2> QED
    BY <1>3, <2>1, <2>2, <2>3, <2>4
<1> QED
  BY <1>4, <1>5 DEF Ascending

\* The next node is the first that has not been begun.
LEMMA CursorHere ==
  ASSUME WellFormed(tree), NEW s \in Seq(Jobs(tree)), s # <<>>, s[1].do = "generate",
         NEW c \in 1 .. Len(tree) + 1, OnItsWay(c, s)
  PROVE  /\ s[1].node = c /\ Comes(s[1]) = {c}
         /\ c \in DOMAIN tree /\ c \in 1 .. Len(tree) /\ ToCome(s) \subseteq Nat
<1> DEFINE m == s[1].node
<1>1. 1 \in DOMAIN s /\ s[1] \in Jobs(tree) /\ DOMAIN s \subseteq Nat
  OBVIOUS
<1>2. m \in DOMAIN tree /\ Comes(s[1]) = {m}
  BY <1>1 DEF Jobs, Comes
<1>3. /\ Len(tree) \in Nat /\ DOMAIN tree = 1 .. Len(tree)
      /\ \A k \in 2 .. Len(tree) : Parent(k) \in 1 .. k - 1
  BY TreeShape
<1> HIDE DEF m
<1>4. m \in Coming(c)
  BY <1>1, <1>2 DEF OnItsWay, ToCome
<1>5. m \in Nat /\ c \in Nat /\ c <= m /\ m <= Len(tree)
  BY <1>3, <1>4 DEF Coming
<1>6. c \in Coming(c)
  <2>1. c \in c .. Len(tree) /\ (c = 1 \/ c \in 2 .. Len(tree))
    BY <1>3, <1>5
  <2>2. c \in 2 .. Len(tree) => Parent(c) < c
    BY <1>3, <1>5
  <2> QED
    BY <2>1, <2>2 DEF Coming
<1>7. PICK k \in DOMAIN s : c \in Comes(s[k])
  BY <1>6 DEF OnItsWay, ToCome
<1>8. k = 1
  <2>1. CASE k > 1
    <3>1. m < c
      BY <1>1, <1>2, <1>7, <2>1 DEF OnItsWay, Ascending
    <3> QED
      BY <1>5, <3>1
  <2>2. k = 1 \/ k > 1
    BY <1>1
  <2> QED
    BY <2>1, <2>2
<1>9. ToCome(s) \subseteq Nat
  BY <1>3 DEF OnItsWay, Coming
<1> QED
  BY <1>2, <1>3, <1>5, <1>7, <1>8, <1>9 DEF m

\* What is below a node comes before what is behind it.
LEMMA KidsComeNext ==
  ASSUME WellFormed(tree), NEW m \in DOMAIN tree, NEW c \in m + 1 .. Len(tree) + 1,
         \A y \in m + 1 .. c - 1 : y \in Kids(m) /\ Kids(y) = {}
  PROVE  /\ Coming(c) = (Coming(m) \ {m}) \cup {x \in Kids(m) : x >= c}
         /\ \A x \in Kids(m), y \in Coming(m) \ {m} : x < y
<1>1. /\ Len(tree) \in Nat /\ DOMAIN tree = 1 .. Len(tree)
      /\ \A k \in 2 .. Len(tree) : Parent(k) \in 1 .. k - 1 /\ k \in Kids(Parent(k))
      /\ \A k \in 2 .. Len(tree) : \A j \in Parent(k) + 1 .. k : Parent(j) >= Parent(k)
      /\ \A k \in Kids(m) : k \in m + 1 .. Len(tree) /\ Parent(k) = m
  BY TreeShape
<1>2. m \in Nat /\ m > 0 /\ m <= Len(tree) /\ c \in Nat /\ m < c
  BY <1>1
<1>3. ASSUME NEW y \in Coming(c)
      PROVE  y \in (Coming(m) \ {m}) \cup {x \in Kids(m) : x >= c}
  <2>1. y \in Nat /\ y >= c /\ y <= Len(tree) /\ y > m /\ y \in 2 .. Len(tree)
        /\ y \in m .. Len(tree)
    BY <1>1, <1>2 DEF Coming
  <2>2. Parent(y) < c /\ Parent(y) \in Nat /\ Parent(y) > 0
    BY <1>1, <1>2, <2>1 DEF Coming
  <2>3. CASE Parent(y) < m
    BY <1>2, <2>1, <2>3 DEF Coming
  <2>4. CASE Parent(y) = m
    BY <1>1, <2>1, <2>4
  <2>5. CASE Parent(y) \in m + 1 .. c - 1
    BY <1>1, <2>1, <2>5
  <2>6. Parent(y) < m \/ Parent(y) = m \/ Parent(y) \in m + 1 .. c - 1
    BY <1>2, <2>2
  <2> QED
    BY <2>3, <2>4, <2>5, <2>6
<1>4. ASSUME NEW y \in Coming(m) \ {m}
      PROVE  y \in Nat /\ y > m /\ y <= Len(tree) /\ y \in 2 .. Len(tree) /\ Parent(y) < m
  BY <1>1, <1>2 DEF Coming
<1>5. ASSUME NEW y \in Coming(m) \ {m}
      PROVE  y \in Coming(c)
  <2>1. y \in Nat /\ y > m /\ y <= Len(tree) /\ y \in 2 .. Len(tree) /\ Parent(y) < m
        /\ Parent(y) \in Nat
    BY <1>1, <1>4
  <2>2. y >= c
    <3>1. CASE y < c
      <4>1. y \in m + 1 .. c - 1
        BY <1>2, <2>1, <3>1
      <4>2. Parent(y) = m
        BY <1>1, <4>1
      <4> QED
        BY <1>2, <2>1, <4>2
    <3> QED
      BY <1>2, <2>1, <3>1
  <2>3. y \in c .. Len(tree) /\ Parent(y) < c
    BY <1>1, <1>2, <2>1, <2>2
  <2> QED
    BY <2>3 DEF Coming
<1>6. ASSUME NEW x \in Kids(m), x >= c
      PROVE  x \in Coming(c)
  <2>1. x \in c .. Len(tree) /\ Parent(x) < c
    BY <1>1, <1>2, <1>6
  <2> QED
    BY <2>1 DEF Coming
<1>7. ASSUME NEW x \in Kids(m), NEW y \in Coming(m) \ {m}
      PROVE  x < y
  <2>1. x \in Nat /\ x > m /\ x <= Len(tree) /\ Parent(x) = m
    BY <1>1, <1>2
  <2>2. y \in Nat /\ y > m /\ Parent(y) < m /\ Parent(y) \in Nat
    BY <1>1, <1>4
  <2>3. CASE y <= x
    <3>1. y \in Parent(x) + 1 .. x /\ x \in 2 .. Len(tree)
      BY <1>1, <1>2, <2>1, <2>2, <2>3
    <3>2. Parent(y) >= m
      BY <1>1, <2>1, <3>1
    <3> QED
      BY <1>2, <2>2, <3>2
  <2> QED
    BY <2>1, <2>2, <2>3
<1> QED
  BY <1>3, <1>5, <1>6, <1>7

IsBody(m, body) == body = tree[m].kids[Len(tree[m].kids)]

\* The nodes between a function and its body are its parameters.
LEMMA ParamsComeFirst ==
  ASSUME WellFormed(tree), NEW m \in DOMAIN tree, tree[m].kind = "FnDef",
         CanBeGenerated(tree, m), NEW body, IsBody(m, body)
  PROVE  /\ body \in Kids(m) /\ body \in m + 1 .. Len(tree) /\ body \in DOMAIN tree
         /\ \A k \in Kids(m) : k >= body => k = body
         /\ \A y \in m + 1 .. body - 1 :
              /\ y \in Kids(m) /\ Kids(y) = {} /\ tree[y].kind = "FnParam"
              /\ \E a \in 1 .. Len(tree[m].kids) - 1 : y = tree[m].kids[a]
         /\ Len(tree[m].kids) \in Nat /\ Len(tree[m].kids) > 0
<1> DEFINE q == tree[m].kids
           last == Len(q)
<1>1. /\ Len(tree) \in Nat /\ DOMAIN tree = 1 .. Len(tree)
      /\ \A k \in 2 .. Len(tree) : Parent(k) \in 1 .. k - 1 /\ k \in Kids(Parent(k))
      /\ \A k \in 2 .. Len(tree) : \A j \in Parent(k) + 1 .. k : Parent(j) >= Parent(k)
  BY TreeShape
<1>2. /\ last \in Nat /\ DOMAIN q = 1 .. last
      /\ \A a \in 1 .. last : /\ q[a] \in m + 1 .. Len(tree) /\ q[a] \in DOMAIN tree
                              /\ Parent(q[a]) = m
      /\ \A a, b \in 1 .. last : a < b => q[a] < q[b]
      /\ \A k \in 2 .. Len(tree) : Parent(k) = m => \E a \in 1 .. last : k = q[a]
  BY KidsInOrder
<1>3. last > 0
  <2>1. HasParts(tree, m)
    BY DEF WellFormed
  <2> QED
    BY <2>1 DEF HasParts
<1>4. \A a \in 1 .. last - 1 : tree[q[a]].kind = "FnParam"
  BY DEF CanBeGenerated
<1>5. Kids(m) = {q[a] : a \in 1 .. last}
  BY <1>2 DEF Kids, ChildrenOf
<1> HIDE DEF q, last
<1>6. m \in Nat /\ m > 0
  BY <1>1
<1>7. body = q[last] /\ last \in 1 .. last /\ body \in m + 1 .. Len(tree) /\ body \in DOMAIN tree
  BY <1>2, <1>3 DEF q, last, IsBody
<1>8. ASSUME NEW a \in 1 .. last, q[a] < body
      PROVE  a \in 1 .. last - 1 /\ tree[q[a]].kind = "FnParam" /\ Kids(q[a]) = {}
  <2>1. a # last
    BY <1>1, <1>7, <1>8
  <2>2. a \in 1 .. last - 1
    BY <1>2, <2>1
  <2>3. q[a] \in DOMAIN tree /\ tree[q[a]].kind = "FnParam"
    BY <1>2, <1>4, <2>2
  <2> QED
    BY <2>2, <2>3, Childless
<1> DEFINE Between == m + 1 .. body - 1
           Strange == {y \in Between : Parent(y) # m}
<1>9. body \in Nat /\ \A y \in Between : y \in Nat /\ y > m /\ y < body /\ y \in 2 .. Len(tree)
  BY <1>1, <1>6, <1>7
<1>10. Strange = {}
  <2> SUFFICES ASSUME Strange # {} PROVE FALSE
    OBVIOUS
  <2>1. Strange \in SUBSET Nat
    BY <1>9
  <2> HIDE DEF Strange
  <2>2. PICK y \in Strange : \A k \in Strange : y <= k
    BY <2>1, LeastOfNaturals
  <2>3. y \in Between /\ Parent(y) # m
    BY DEF Strange
  <2>4. y \in Nat /\ y > m /\ y < body /\ y \in 2 .. Len(tree)
    BY <1>9, <2>3
  <2>5. Parent(y) >= m
    <3>1. body \in 2 .. Len(tree) /\ Parent(body) = m
      BY <1>1, <1>2, <1>6, <1>7
    <3>2. y \in Parent(body) + 1 .. body
      BY <1>6, <1>9, <2>4, <3>1
    <3> QED
      BY <1>1, <3>1, <3>2
  <2>6. Parent(y) \in Between /\ Parent(y) < y /\ Parent(y) \in Nat
    BY <1>1, <1>6, <1>9, <2>3, <2>4, <2>5
  <2>7. Parent(y) \notin Strange
    BY <2>2, <2>4, <2>6
  <2>8. Parent(Parent(y)) = m /\ Parent(y) \in 2 .. Len(tree) /\ Parent(y) < body
    BY <1>9, <2>6, <2>7 DEF Strange
  <2>9. PICK a \in 1 .. last : Parent(y) = q[a]
    BY <1>2, <2>8
  <2>10. Kids(Parent(y)) = {}
    BY <1>8, <2>8, <2>9
  <2> QED
    BY <1>1, <2>4, <2>10
<1>11. ASSUME NEW y \in Between
       PROVE  /\ y \in Kids(m) /\ Kids(y) = {} /\ tree[y].kind = "FnParam"
              /\ \E a \in 1 .. last - 1 : y = q[a]
  <2>1. Parent(y) = m
    BY <1>10
  <2>2. y \in 2 .. Len(tree) /\ y < body
    BY <1>9
  <2>3. PICK a \in 1 .. last : y = q[a]
    BY <1>2, <2>1, <2>2
  <2>4. a \in 1 .. last - 1 /\ tree[y].kind = "FnParam" /\ Kids(y) = {}
    BY <1>8, <2>2, <2>3
  <2> QED
    BY <1>5, <2>3, <2>4
<1>12. ASSUME NEW k \in Kids(m), k >= body PROVE k = body
  <2>1. PICK a \in 1 .. last : k = q[a]
    BY <1>5
  <2>2. CASE a < last
    <3>1. k < body
      BY <1>2, <1>7, <2>1, <2>2
    <3>2. k \in Nat
      BY <1>1, <1>2, <2>1
    <3> QED
      BY <1>9, <1>12, <3>1, <3>2
  <2>3. a = last \/ a < last
    BY <1>2
  <2> QED
    BY <1>7, <2>1, <2>2, <2>3
<1>13. body \in Kids(m)
  BY <1>5, <1>7
<1> QED
  BY <1>2, <1>3, <1>7, <1>11, <1>12, <1>13 DEF q, last

LEMMA NothingMore ==
  /\ IsSeq(<<>>) /\ Ascending(<<>>) /\ ToCome(<<>>) = {} /\ Len(<<>>) = 0
  /\ DOMAIN <<>> = {}
<1>1. <<>> \in Seq({}) /\ DOMAIN <<>> = {} /\ Len(<<>>) = 0
  OBVIOUS
<1>2. IsSeq(<<>>)
  BY <1>1, IsSeqOf
<1> QED
  BY <1>1, <1>2 DEF Ascending, ToCome

\* The list goes on, with what the first step goes on with in its place.
LEMMA MovesOn ==
  ASSUME NEW s \in Seq(Jobs(tree)), NEW js, NEW t, Joined(t, js, s),
         NEW c \in Int, NEW c1 \in Int, c <= c1, OnItsWay(c, s), ToCome(s) \subseteq Nat,
         DOMAIN tree \subseteq Int,
         Ascending(js), \A x \in ToCome(js), y \in ToCome(s) \ Comes(s[1]) : x < y,
         Coming(c1) = ToCome(js) \cup (Coming(c) \ Comes(s[1])),
         \A k \in DOMAIN js : js[k].do # "generate" => js[k].node < c1
  PROVE  OnItsWay(c1, t)
<1>1. Ascending(t) /\ ToCome(t) = ToCome(js) \cup (ToCome(s) \ Comes(s[1]))
  BY ComesOn DEF OnItsWay
<1>2. ToCome(t) = Coming(c1)
  BY <1>1 DEF OnItsWay
<1>3. ASSUME NEW k \in DOMAIN t, t[k].do # "generate" PROVE t[k].node < c1
  <2>1. \/ k \in DOMAIN js /\ t[k] = js[k]
        \/ \E l \in DOMAIN s : l > 1 /\ k = Len(js) + (l - 1) /\ t[k] = s[l]
    BY DEF Joined
  <2>2. CASE k \in DOMAIN js /\ t[k] = js[k]
    BY <1>3, <2>2
  <2>3. CASE \E l \in DOMAIN s : t[k] = s[l]
    <3>1. PICK l \in DOMAIN s : t[k] = s[l]
      BY <2>3
    <3>2. s[l].node < c
      BY <1>3, <3>1 DEF OnItsWay
    <3>3. s[l] \in Jobs(tree)
      OBVIOUS
    <3>4. s[l].node \in Int
      BY <3>3 DEF Jobs
    <3> QED
      BY <3>1, <3>2, <3>4
  <2> QED
    BY <2>1, <2>2, <2>3
<1> QED
  BY <1>1, <1>2, <1>3 DEF OnItsWay

\* The first node is generated: those below it come next.
LEMMA Descends ==
  ASSUME WellFormed(tree), NEW s \in Seq(Jobs(tree)), s # <<>>, s[1].do = "generate",
         NEW js, NEW t, Joined(t, js, s),
         NEW c \in 1 .. Len(tree) + 1, OnItsWay(c, s),
         NEW c1 \in c + 1 .. Len(tree) + 1,
         \A y \in c + 1 .. c1 - 1 : y \in Kids(c) /\ Kids(y) = {},
         Ascending(js), ToCome(js) = {x \in Kids(c) : x >= c1},
         \A k \in DOMAIN js : js[k].do # "generate" => js[k].node = c
  PROVE  OnItsWay(c1, t) /\ c1 \in 1 .. Len(tree) + 1
<1>1. /\ Comes(s[1]) = {c} /\ c \in DOMAIN tree /\ c \in 1 .. Len(tree)
      /\ ToCome(s) \subseteq Nat
  BY CursorHere
<1>2. /\ c \in Int /\ c1 \in Int /\ c <= c1 /\ c < c1 /\ c1 \in 1 .. Len(tree) + 1
      /\ DOMAIN tree \subseteq Int
  BY <1>1, TreeShape
<1>3. /\ Coming(c1) = (Coming(c) \ {c}) \cup {x \in Kids(c) : x >= c1}
      /\ \A x \in Kids(c), y \in Coming(c) \ {c} : x < y
  BY <1>1, KidsComeNext
<1>4. \A x \in ToCome(js), y \in ToCome(s) \ Comes(s[1]) : x < y
  BY <1>1, <1>3 DEF OnItsWay
<1>5. Coming(c1) = ToCome(js) \cup (Coming(c) \ Comes(s[1]))
  BY <1>1, <1>3
<1>6. \A k \in DOMAIN js : js[k].do # "generate" => js[k].node < c1
  BY <1>2
<1> QED
  BY <1>1, <1>2, <1>4, <1>5, <1>6, MovesOn

\* Another step is taken: no node is begun.
LEMMA StaysHere ==
  ASSUME NEW s \in Seq(Jobs(tree)), s # <<>>, s[1].do # "generate",
         NEW js, NEW t, Joined(t, js, s),
         NEW c \in 1 .. Len(tree) + 1, OnItsWay(c, s), WellFormed(tree),
         Ascending(js), ToCome(js) = Comes(s[1]),
         \A k \in DOMAIN js : js[k].do # "generate" => js[k].node = s[1].node
  PROVE  OnItsWay(c, t)
<1>1. 1 \in DOMAIN s /\ DOMAIN s \subseteq Nat
  OBVIOUS
<1>2. s[1].node < c
  BY <1>1 DEF OnItsWay
<1>3. ToCome(s) \subseteq Nat /\ c \in Int /\ c <= c /\ DOMAIN tree \subseteq Int
  BY TreeShape DEF OnItsWay, Coming
<1>4. Comes(s[1]) \subseteq ToCome(s)
  BY <1>1 DEF ToCome
<1>5. \A x \in ToCome(js), y \in ToCome(s) \ Comes(s[1]) : x < y
  <2> SUFFICES ASSUME NEW x \in Comes(s[1]), NEW y \in ToCome(s), y \notin Comes(s[1])
               PROVE  x < y
    OBVIOUS
  <2>1. PICK l \in DOMAIN s : y \in Comes(s[l])
    BY DEF ToCome
  <2>2. l # 1 /\ l > 1
    BY <1>1, <2>1
  <2> QED
    BY <1>1, <2>1, <2>2 DEF OnItsWay, Ascending
<1>6. Coming(c) = ToCome(js) \cup (Coming(c) \ Comes(s[1]))
  BY <1>4 DEF OnItsWay
<1>7. \A k \in DOMAIN js : js[k].do # "generate" => js[k].node < c
  BY <1>2
<1> QED
  BY <1>3, <1>5, <1>6, <1>7, MovesOn

-----------------------------------------------------------------------------
(* What has been done is right for what is left to do.                       *)

Storage == Of({"VarDecl", "FnParam"})

\* What comes before a variable is declared belongs to its initial value.
MayPrecede(j, d) ==
  /\ j.do # "IfSt"
  /\ j.do = "generate" => j.node \in Subtree(d) /\ tree[j.node].kind \in ExpressionKinds

Initialising(s) ==
  \A k, l \in DOMAIN s : l < k /\ s[k].do = "VarDecl" => MayPrecede(s[l], s[k].node)

\* What was declared before c is allocated, or will be once its value is there.
Allocates(c, s, al) ==
  \A d \in Storage :
    d < c => al[d] # 0 \/ \E k \in DOMAIN s : s[k].do = "VarDecl" /\ s[k].node = d

Signature(f) ==
  [name |-> tree[f].name,
   params |-> [k \in DOMAIN Params(f) |-> TypeOfDeclaration(Params(f)[k])],
   type |-> TypeOfDeclaration(f)]

\* The functions are those defined before c.
Knows(c, fs) ==
  /\ \A f \in Of({"FnDef"}) : f < c => \E g \in DOMAIN fs : fs[g] = Signature(f)
  /\ \A g \in DOMAIN fs : \E f \in Of({"FnDef"}) : f < c /\ fs[g] = Signature(f)

\* Before the first function nothing is left out but what a program lacks, and
\* what is called is a function that can be seen.
Accounted(fs, j) ==
  /\ fs = <<>> /\ IsOf(tree, j, {"Empty"}) => LacksValue
  /\ j.do = "call" => Functions(j.node) # {}

Progress(c, s, fs, al) ==
  /\ OnItsWay(c, s)
  /\ Initialising(s)
  /\ Allocates(c, s, al)
  /\ Knows(c, fs)
  /\ \A k \in DOMAIN s : Accounted(fs, s[k])

LEMMA InitialisingOn ==
  ASSUME NEW s, NEW js, NEW t, Joined(t, js, s),
         Initialising(s), Initialising(js),
         \A k \in DOMAIN s : s[k].node \in DOMAIN tree,
         \A i \in DOMAIN js : \A d \in DOMAIN tree :
           MayPrecede(s[1], d) => MayPrecede(js[i], d)
  PROVE  Initialising(t)
<1> SUFFICES ASSUME NEW k \in DOMAIN t, NEW l \in DOMAIN t, l < k, t[k].do = "VarDecl"
             PROVE  MayPrecede(t[l], t[k].node)
  BY DEF Initialising
<1> DEFINE a == Len(js)
<1>1. a \in Nat /\ DOMAIN js = 1 .. a /\ DOMAIN s \subseteq Nat /\ 1 \in DOMAIN s
  BY DEF Joined
<1>2. \A i \in DOMAIN t :
        \/ i \in DOMAIN js /\ t[i] = js[i]
        \/ \E j \in DOMAIN s : j > 1 /\ i = a + (j - 1) /\ t[i] = s[j]
  BY DEF Joined
<1> HIDE DEF a
<1>3. CASE k \in DOMAIN js /\ t[k] = js[k]
  <2>1. l \in DOMAIN js /\ t[l] = js[l]
    <3>1. CASE \E j \in DOMAIN s : j > 1 /\ l = a + (j - 1)
      <4>1. PICK j \in DOMAIN s : j > 1 /\ l = a + (j - 1)
        BY <3>1
      <4>2. j \in Nat /\ k \in 1 .. a
        BY <1>1, <1>3
      <4> QED
        BY <1>1, <4>1, <4>2
    <3> QED
      BY <1>2, <3>1
  <2> QED
    BY <1>3, <2>1 DEF Initialising
<1>4. CASE \E j \in DOMAIN s : j > 1 /\ k = a + (j - 1) /\ t[k] = s[j]
  <2>1. PICK j \in DOMAIN s : j > 1 /\ k = a + (j - 1) /\ t[k] = s[j]
    BY <1>4
  <2>2. CASE l \in DOMAIN js /\ t[l] = js[l]
    <3>1. MayPrecede(s[1], s[j].node)
      BY <1>1, <2>1 DEF Initialising
    <3> QED
      BY <2>1, <2>2, <3>1
  <2>3. CASE \E i \in DOMAIN s : i > 1 /\ l = a + (i - 1) /\ t[l] = s[i]
    <3>1. PICK i \in DOMAIN s : i > 1 /\ l = a + (i - 1) /\ t[l] = s[i]
      BY <2>3
    <3>2. i \in Nat /\ j \in Nat
      BY <1>1
    <3>3. i < j
      BY <1>1, <2>1, <3>1, <3>2
    <3> QED
      BY <2>1, <3>1, <3>3 DEF Initialising
  <2> QED
    BY <1>2, <2>2, <2>3
<1> QED
  BY <1>2, <1>3, <1>4

LEMMA AllocatesOn ==
  ASSUME NEW s, NEW js, NEW t, Joined(t, js, s),
         NEW c \in Int, NEW c1 \in Int, DOMAIN tree \subseteq Int,
         NEW al, Allocates(c, s, al), NEW al1,
         s[1].do = "VarDecl" => al1[s[1].node] # 0,
         \A d \in Storage : al[d] # 0 => al1[d] # 0,
         \A d \in Storage : c <= d /\ d < c1 =>
           al1[d] # 0 \/ \E i \in DOMAIN js : js[i].do = "VarDecl" /\ js[i].node = d
  PROVE  Allocates(c1, t, al1)
<1> SUFFICES ASSUME NEW d \in Storage, d < c1, al1[d] = 0
             PROVE  \E k \in DOMAIN t : t[k].do = "VarDecl" /\ t[k].node = d
  BY DEF Allocates
<1>1. /\ \A k \in DOMAIN js : k \in DOMAIN t /\ t[k] = js[k]
      /\ DOMAIN s \subseteq Nat
  BY DEF Joined
<1>2. \A l \in DOMAIN s :
        l > 1 => Len(js) + (l - 1) \in DOMAIN t /\ t[Len(js) + (l - 1)] = s[l]
  BY DEF Joined
<1>3. CASE c <= d
  <2>1. PICK i \in DOMAIN js : js[i].do = "VarDecl" /\ js[i].node = d
    BY <1>3
  <2> QED
    BY <1>1, <2>1
<1>4. CASE d < c
  <2>1. PICK l \in DOMAIN s : s[l].do = "VarDecl" /\ s[l].node = d
    BY <1>4 DEF Allocates
  <2>2. l # 1
    BY <2>1
  <2>3. l > 1
    BY <2>2 DEF Joined
  <2> QED
    BY <1>2, <2>1, <2>3
<1>5. d \in Int
  BY DEF Storage, Of
<1> QED
  BY <1>3, <1>4, <1>5

LEMMA AccountedOn ==
  ASSUME NEW s, NEW js, NEW t, Joined(t, js, s), NEW fs,
         \A k \in DOMAIN s : Accounted(fs, s[k]),
         \A k \in DOMAIN js : Accounted(fs, js[k])
  PROVE  \A k \in DOMAIN t : Accounted(fs, t[k])
BY DEF Joined

-----------------------------------------------------------------------------
(* Every step leaves it so.                                                  *)

BelowHere(j) ==
  /\ j.do = "generate" => j.node \in Kids(job.node)
  /\ j.do # "generate" => j.node = job.node
  /\ j.do = "IfSt" => here.kind = "IfSt"

LEMMA TodoJoined ==
  ASSUME Running, NEW js, IsSeq(js), Then(js)
  PROVE  /\ Joined(todo', js, todo)
         /\ todo \in Seq(Jobs(tree)) /\ todo # <<>> /\ job = todo[1]
         /\ \A k \in DOMAIN todo : todo[k].node \in DOMAIN tree
         /\ WellFormed(tree)
         /\ job.node \in DOMAIN tree
<1>1. todo \in Seq(Jobs(tree)) /\ todo # <<>> /\ job = todo[1] /\ job.node \in DOMAIN tree
  BY AtJob DEF Running
<1>2. \A k \in DOMAIN todo : todo[k].node \in DOMAIN tree
  <2> SUFFICES ASSUME NEW k \in DOMAIN todo PROVE todo[k].node \in DOMAIN tree
    OBVIOUS
  <2>1. todo[k] \in Jobs(tree)
    BY <1>1
  <2> QED
    BY <2>1 DEF Jobs
<1>3. Joined(todo', js, todo)
  BY <1>1, Spliced DEF Then
<1> QED
  BY <1>1, <1>2, <1>3 DEF Running, TypeOK

\* A node other than a function is begun.
LEMMA ProgressBegins ==
  ASSUME Running, NEW c \in 1 .. Len(tree) + 1, Progress(c, todo, functions, allocated),
         job.do = "generate", here.kind \notin {"FnDef", "FnParam"},
         NEW js, IsSeq(js), Then(js), Ascending(js), ToCome(js) = Kids(job.node),
         Initialising(js), \A k \in DOMAIN js : BelowHere(js[k]),
         here.kind = "VarDecl" => \E k \in DOMAIN js : js[k].do = "VarDecl",
         \A k \in DOMAIN js : Accounted(functions, js[k]),
         UNCHANGED <<functions, allocated>>
  PROVE  \E c1 \in 1 .. Len(tree) + 1 : Progress(c1, todo', functions', allocated')
<1>1. /\ Joined(todo', js, todo)
      /\ todo \in Seq(Jobs(tree)) /\ todo # <<>> /\ job = todo[1]
      /\ \A k \in DOMAIN todo : todo[k].node \in DOMAIN tree
      /\ WellFormed(tree)
  BY TodoJoined
<1>2. c = job.node /\ c \in DOMAIN tree /\ OnItsWay(c, todo) /\ here = tree[c]
  BY <1>1, CursorHere DEF Progress, here
<1>3. /\ Len(tree) \in Nat /\ DOMAIN tree = 1 .. Len(tree) /\ DOMAIN tree \subseteq Int
      /\ \A k \in Kids(c) : k \in c + 1 .. Len(tree)
  BY <1>1, <1>2, TreeShape
<1>4. /\ c + 1 \in c + 1 .. Len(tree) + 1 /\ c \in Int /\ c + 1 \in Int
      /\ \A y : y \notin c + 1 .. (c + 1) - 1
      /\ \A d \in Int : (d < c + 1 => d < c \/ d = c) /\ (c <= d /\ d < c + 1 => d = c)
  BY <1>2, <1>3
<1>5. OnItsWay(c + 1, todo') /\ c + 1 \in 1 .. Len(tree) + 1
  <2>1. ToCome(js) = {x \in Kids(c) : x >= c + 1}
    BY <1>2, <1>3
  <2>2. \A k \in DOMAIN js : js[k].do # "generate" => js[k].node = c
    BY <1>2 DEF BelowHere
  <2> QED
    BY <1>1, <1>2, <1>4, <2>1, <2>2, Descends
<1>6. Initialising(todo')
  <2>1. ASSUME NEW i \in DOMAIN js, NEW d \in DOMAIN tree, MayPrecede(job, d)
        PROVE  MayPrecede(js[i], d)
    <3>1. c \in Subtree(d) /\ here.kind \in ExpressionKinds
      BY <1>2, <2>1 DEF MayPrecede
    <3>2. js[i].do # "IfSt"
      BY <3>1 DEF BelowHere, ExpressionKinds, Literals, Operations
    <3>3. ASSUME js[i].do = "generate"
          PROVE  js[i].node \in Subtree(d) /\ tree[js[i].node].kind \in ExpressionKinds
      <4>1. js[i].node \in Kids(c)
        BY <1>2, <3>3 DEF BelowHere
      <4>2. js[i].node \in Subtree(d)
        <5>1. js[i].node \in Subtree(c)
          BY <1>1, <1>2, <4>1, SubtreeOrder
        <5>2. Subtree(c) \subseteq Subtree(d)
          BY <1>1, <3>1, SubtreeOrder
        <5> QED
          BY <5>1, <5>2
      <4>3. HasParts(tree, c)
        BY <1>1, <1>2 DEF WellFormed
      <4> QED
        BY <1>2, <3>1, <4>1, <4>2, <4>3 DEF HasParts, Kids
    <3> QED
      BY <3>2, <3>3 DEF MayPrecede
  <2> QED
    BY <1>1, <2>1, InitialisingOn DEF Progress
<1>7. Allocates(c + 1, todo', allocated')
  <2>1. \A d \in Storage : d = c => here.kind = "VarDecl"
    BY <1>2 DEF Storage, Of
  <2>2. \A d \in Storage : d \in Int
    BY <1>3 DEF Storage, Of
  <2>3. \A d \in Storage : c <= d /\ d < c + 1 =>
          \E i \in DOMAIN js : js[i].do = "VarDecl" /\ js[i].node = d
    BY <1>2, <1>4, <2>1, <2>2 DEF BelowHere
  <2> QED
    BY <1>1, <1>3, <1>4, <2>3, AllocatesOn DEF Progress
<1>8. Knows(c + 1, functions')
  <2>1. \A f \in Of({"FnDef"}) : f \in Int /\ f # c
    BY <1>2, <1>3 DEF Of
  <2> QED
    BY <1>4, <2>1 DEF Progress, Knows
<1>9. \A k \in DOMAIN todo' : Accounted(functions', todo'[k])
  <2>1. \A k \in DOMAIN todo : Accounted(functions, todo[k])
    BY DEF Progress
  <2>2. \A k \in DOMAIN todo' : Accounted(functions, todo'[k])
    BY <1>1, <2>1, AccountedOn
  <2> QED
    BY <2>2
<1> QED
  BY <1>5, <1>6, <1>7, <1>8, <1>9 DEF Progress

\* A step is taken at a node that was begun before.
LEMMA ProgressStays ==
  ASSUME Running, NEW c \in 1 .. Len(tree) + 1, Progress(c, todo, functions, allocated),
         job.do # "generate", NEW js, IsSeq(js), Then(js),
         Ascending(js), ToCome(js) = Comes(job), Initialising(js),
         \A k \in DOMAIN js : /\ js[k].do # "IfSt"
                              /\ js[k].do # "generate" => js[k].node = job.node
                              /\ js[k].do = "generate" => job.do = "IfSt"
                              /\ Accounted(functions, js[k]),
         job.do = "VarDecl" => allocated'[job.node] # 0,
         \A d \in Storage : allocated[d] # 0 => allocated'[d] # 0,
         functions' = functions
  PROVE  \E c1 \in 1 .. Len(tree) + 1 : Progress(c1, todo', functions', allocated')
<1>1. /\ Joined(todo', js, todo)
      /\ todo \in Seq(Jobs(tree)) /\ todo # <<>> /\ job = todo[1]
      /\ \A k \in DOMAIN todo : todo[k].node \in DOMAIN tree
      /\ WellFormed(tree)
  BY TodoJoined
<1>2. c \in Int /\ DOMAIN tree \subseteq Int
  BY <1>1, TreeShape
<1>3. OnItsWay(c, todo')
  BY <1>1, StaysHere DEF Progress
<1>4. Initialising(todo')
  <2>1. \A i \in DOMAIN js : \A d \in DOMAIN tree : MayPrecede(job, d) => MayPrecede(js[i], d)
    BY DEF MayPrecede
  <2> QED
    BY <1>1, <2>1, InitialisingOn DEF Progress
<1>5. Allocates(c, todo', allocated')
  <2>1. \A d \in Storage : ~(c <= d /\ d < c)
    BY <1>2 DEF Storage, Of
  <2> QED
    BY <1>1, <1>2, <2>1, AllocatesOn DEF Progress
<1>6. \A k \in DOMAIN todo' : Accounted(functions', todo'[k])
  <2>1. \A k \in DOMAIN todo : Accounted(functions, todo[k])
    BY DEF Progress
  <2>2. \A k \in DOMAIN todo' : Accounted(functions, todo'[k])
    BY <1>1, <2>1, AccountedOn
  <2> QED
    BY <2>2
<1> QED
  BY <1>3, <1>4, <1>5, <1>6 DEF Progress

\* The children are generated in their order, between other steps: at[k] is the
\* number of the child that step k generates, 0 for another step.
InTurn(js, at, last) ==
  /\ \A k \in DOMAIN js :
       /\ at[k] \in 0 .. last
       /\ at[k] # 0 => js[k] = codegen(kid(at[k]))
       /\ at[k] = 0 => js[k].do # "generate" /\ js[k].do # "IfSt" /\ js[k].node = job.node
       /\ \A l \in DOMAIN js : k < l /\ at[k] # 0 /\ at[l] # 0 => at[k] < at[l]
  /\ \A i \in 1 .. last : \E k \in DOMAIN js : at[k] = i

LEMMA ListedInTurn ==
  ASSUME Running, NEW js, NEW at, InTurn(js, at, Len(here.kids))
  PROVE  /\ Ascending(js) /\ ToCome(js) = Kids(job.node)
         /\ \A k \in DOMAIN js : BelowHere(js[k])
<1> DEFINE last == Len(here.kids)
           q == here.kids
<1>1. WellFormed(tree) /\ job.node \in DOMAIN tree /\ here = tree[job.node]
  BY AtJob DEF Running, TypeOK, here
<1>2. /\ last \in Nat /\ DOMAIN q = 1 .. last
      /\ \A i \in 1 .. last : q[i] = kid(i)
      /\ \A i, j \in 1 .. last : i < j => q[i] < q[j]
  <2>1. LET p == tree[job.node].kids
        IN  /\ Len(p) \in Nat /\ DOMAIN p = 1 .. Len(p)
            /\ \A a, b \in 1 .. Len(p) : a < b => p[a] < p[b]
    BY <1>1, KidsInOrder
  <2> QED
    BY <1>1, <2>1 DEF kid
<1>3. Kids(job.node) = {kid(i) : i \in 1 .. last}
  BY <1>1, <1>2 DEF Kids, ChildrenOf
<1> HIDE DEF last, q
<1>4. \A k \in DOMAIN js :
        /\ at[k] \in 1 .. last =>
             /\ js[k].do = "generate" /\ js[k].node = kid(at[k])
             /\ Comes(js[k]) = {kid(at[k])}
        /\ at[k] = 0 =>
             /\ js[k].do # "generate" /\ js[k].do # "IfSt" /\ js[k].node = job.node
             /\ Comes(js[k]) = {}
        /\ at[k] \in 1 .. last \/ at[k] = 0
  <2> SUFFICES ASSUME NEW k \in DOMAIN js
               PROVE  /\ at[k] \in 1 .. last =>
                           /\ js[k].do = "generate" /\ js[k].node = kid(at[k])
                           /\ Comes(js[k]) = {kid(at[k])}
                      /\ at[k] = 0 =>
                           /\ js[k].do # "generate" /\ js[k].do # "IfSt"
                           /\ js[k].node = job.node
                           /\ Comes(js[k]) = {}
                      /\ at[k] \in 1 .. last \/ at[k] = 0
    OBVIOUS
  <2>1. /\ at[k] \in 0 .. last
        /\ at[k] # 0 => js[k] = codegen(kid(at[k]))
        /\ at[k] = 0 => js[k].do # "generate" /\ js[k].do # "IfSt" /\ js[k].node = job.node
    BY DEF InTurn, last
  <2>2. \A i \in 0 .. last : i = 0 \/ (i \in 1 .. last /\ i # 0)
    BY <1>2
  <2> QED
    BY <1>2, <2>1, <2>2 DEF codegen, Comes
<1>5. \A k, l \in DOMAIN js : k < l /\ at[k] \in 1 .. last /\ at[l] \in 1 .. last =>
        kid(at[k]) < kid(at[l])
  <2> SUFFICES ASSUME NEW k \in DOMAIN js, NEW l \in DOMAIN js, k < l,
                      at[k] \in 1 .. last, at[l] \in 1 .. last
               PROVE  kid(at[k]) < kid(at[l])
    OBVIOUS
  <2>1. at[k] # 0 /\ at[l] # 0
    BY <1>2
  <2>2. at[k] < at[l]
    BY <2>1 DEF InTurn
  <2> QED
    BY <1>2, <2>2
<1>6. Ascending(js)
  BY <1>4, <1>5 DEF Ascending
<1>7. ToCome(js) = Kids(job.node)
  <2>1. ToCome(js) \subseteq Kids(job.node)
    BY <1>3, <1>4 DEF ToCome
  <2>2. \A i \in 1 .. last : \E k \in DOMAIN js : at[k] = i
    BY DEF InTurn, last
  <2>3. \A i \in 1 .. last : kid(i) \in ToCome(js)
    BY <1>4, <2>2 DEF ToCome
  <2> QED
    BY <1>3, <2>1, <2>3
<1>8. \A k \in DOMAIN js : BelowHere(js[k])
  BY <1>3, <1>4 DEF BelowHere
<1> QED
  BY <1>6, <1>7, <1>8

\* A node whose children are generated in their order is begun.
LEMMA ProgressInTurn ==
  ASSUME Running, NEW c \in 1 .. Len(tree) + 1, Progress(c, todo, functions, allocated),
         job.do = "generate", here.kind \notin {"FnDef", "FnParam", "VarDecl"},
         NEW js, IsSeq(js), Then(js), NEW at, InTurn(js, at, Len(here.kids)),
         \A k \in DOMAIN js : js[k].do # "VarDecl",
         \A k \in DOMAIN js : Accounted(functions, js[k]),
         UNCHANGED <<functions, allocated>>
  PROVE  \E c1 \in 1 .. Len(tree) + 1 : Progress(c1, todo', functions', allocated')
<1>1. /\ Ascending(js) /\ ToCome(js) = Kids(job.node)
      /\ \A k \in DOMAIN js : BelowHere(js[k])
  BY ListedInTurn
<1>2. Initialising(js)
  BY DEF Initialising
<1> QED
  BY <1>1, <1>2, ProgressBegins

LEMMA OneStep ==
  ASSUME NEW x, NEW js, js = <<x>>
  PROVE  IsSeq(js) /\ DOMAIN js = {1} /\ js[1] = x /\ Len(js) = 1
<1>1. js \in Seq({x}) /\ DOMAIN js = {1} /\ js[1] = x /\ Len(js) = 1
  OBVIOUS
<1> QED
  BY <1>1, IsSeqOf

\* A function is begun: its parameters are allocated, its body comes next.
LEMMA ProgressFnDef ==
  ASSUME TypeOK, Generable, CodeInv, GenerateFnDef,
         NEW c \in 1 .. Len(tree) + 1, Progress(c, todo, functions, allocated)
  PROVE  \E c1 \in 1 .. Len(tree) + 1 : Progress(c1, todo', functions', allocated')
<1> DEFINE last == Len(here.kids)
           params == SubSeq(here.kids, 1, last - 1)
           types == [k \in DOMAIN params |-> toLLVMType(tree[params[k]].typeName)]
           f == [name |-> here.name, params |-> types, type |-> toLLVMType(here.typeName)]
           body == kid(last)
           js == <<codegen(body)>>
<1>1. /\ Running /\ job.do = "generate" /\ here.kind = "FnDef"
      /\ functions' = Append(functions, f)
      /\ allocated' = [d \in DOMAIN tree |->
           IF \E k \in DOMAIN params : params[k] = d THEN Len(functions) + 1 ELSE allocated[d]]
      /\ Then(js)
  BY Doing DEF GenerateFnDef, Generate
<1>2. /\ IsSeq(js) /\ DOMAIN js = {1} /\ js[1] = codegen(body)
  BY OneStep
<1> HIDE DEF js
<1>3. /\ Joined(todo', js, todo)
      /\ todo \in Seq(Jobs(tree)) /\ todo # <<>> /\ job = todo[1]
      /\ \A k \in DOMAIN todo : todo[k].node \in DOMAIN tree
      /\ WellFormed(tree)
  BY <1>1, <1>2, TodoJoined
<1>4. c = job.node /\ c \in DOMAIN tree /\ OnItsWay(c, todo) /\ here = tree[c]
  BY <1>1, <1>3, CursorHere DEF Progress, here
<1>5. /\ body \in Kids(c) /\ body \in c + 1 .. Len(tree) /\ body \in DOMAIN tree
      /\ \A k \in Kids(c) : k >= body => k = body
      /\ \A y \in c + 1 .. body - 1 :
           /\ y \in Kids(c) /\ Kids(y) = {} /\ tree[y].kind = "FnParam"
           /\ \E a \in 1 .. last - 1 : y = here.kids[a]
      /\ last \in Nat /\ last > 0
  <2>1. CanBeGenerated(tree, c) /\ tree[c].kind = "FnDef"
    BY <1>1, <1>4, Here
  <2>2. IsBody(c, body) /\ tree[c].kids = here.kids
    BY <1>4 DEF kid, IsBody
  <2> HIDE DEF body
  <2>3. /\ body \in Kids(c) /\ body \in c + 1 .. Len(tree) /\ body \in DOMAIN tree
        /\ \A k \in Kids(c) : k >= body => k = body
        /\ \A y \in c + 1 .. body - 1 :
             /\ y \in Kids(c) /\ Kids(y) = {} /\ tree[y].kind = "FnParam"
             /\ \E a \in 1 .. Len(tree[c].kids) - 1 : y = tree[c].kids[a]
        /\ Len(tree[c].kids) \in Nat /\ Len(tree[c].kids) > 0
    BY <1>3, <1>4, <2>1, <2>2, ParamsComeFirst
  <2> QED
    BY <2>2, <2>3
<1> HIDE DEF body
<1>6. /\ DOMAIN tree = 1 .. Len(tree) /\ Len(tree) \in Nat /\ c \in Nat /\ body \in Nat
      /\ c < body /\ body \in Int /\ c \in Int /\ DOMAIN tree \subseteq Int
      /\ body \in c + 1 .. Len(tree) + 1 /\ \A k \in Kids(c) : k \in Int
  <2>1. DOMAIN tree = 1 .. Len(tree) /\ Len(tree) \in Nat
        /\ \A k \in Kids(c) : k \in c + 1 .. Len(tree)
    BY <1>3, <1>4, TreeShape
  <2> QED
    BY <1>4, <1>5, <2>1
<1>7. /\ js[1].do = "generate" /\ js[1].node = body /\ Comes(js[1]) = {body}
  BY <1>2 DEF codegen, Comes
<1>8. OnItsWay(body, todo') /\ body \in 1 .. Len(tree) + 1
  <2>1. ToCome(js) = {x \in Kids(c) : x >= body}
    <3>1. ToCome(js) = {body}
      BY <1>2, <1>7 DEF ToCome
    <3>2. {x \in Kids(c) : x >= body} = {body}
      BY <1>5, <1>6
    <3> QED
      BY <3>1, <3>2
  <2>2. Ascending(js)
    <3>1. ~(1 < 1)
      OBVIOUS
    <3> QED
      BY <1>2, <3>1 DEF Ascending
  <2>3. \A k \in DOMAIN js : js[k].do # "generate" => js[k].node = c
    BY <1>2, <1>7
  <2>4. \A y \in c + 1 .. body - 1 : y \in Kids(c) /\ Kids(y) = {}
    BY <1>5
  <2> QED
    BY <1>1, <1>3, <1>4, <1>6, <2>1, <2>2, <2>3, <2>4, Descends
<1>9. Initialising(todo')
  <2>1. Initialising(js)
    BY <1>2, <1>7 DEF Initialising
  <2>2. \A d \in DOMAIN tree : ~MayPrecede(job, d)
    BY <1>1 DEF MayPrecede, here, ExpressionKinds, Literals, Operations
  <2> QED
    BY <1>3, <2>1, <2>2, InitialisingOn DEF Progress
<1>10. /\ DOMAIN params = 1 .. last - 1
       /\ \A a \in 1 .. last - 1 : params[a] = here.kids[a]
  <2> DEFINE q == here.kids
             less == last - 1
  <2>1. IsSeq(q)
    BY <1>1, Here, IsSeqOf
  <2>2. less \in 0 .. Len(q)
    <3> HIDE DEF last
    <3>1. less \in 0 .. last
      BY <1>5
    <3> QED
      BY <3>1 DEF last
  <2>3. params = SubSeq(q, 1, less)
    OBVIOUS
  <2> HIDE DEF q, less, params
  <2>4. DOMAIN params = 1 .. less /\ \A k \in 1 .. less : params[k] = q[k]
    BY <2>1, <2>2, <2>3, FirstOf
  <2> QED
    BY <2>4 DEF q, less
<1>11. Len(functions) + 1 # 0 /\ Len(functions) \in Nat
  <2>1. Len(functions) \in Nat
    BY PlaceFacts DEF CodeInv
  <2> QED
    BY <2>1
<1>12. Allocates(body, todo', allocated')
  <2>1. \A d \in Storage : d \in DOMAIN tree /\ d \in Int
    BY <1>6 DEF Storage, Of
  <2>2. \A d \in Storage : allocated[d] # 0 => allocated'[d] # 0
    <3> HIDE DEF params
    <3> QED
      BY <1>1, <1>11, <2>1
  <2>3. \A d \in Storage : c <= d /\ d < body => allocated'[d] # 0
    <3> SUFFICES ASSUME NEW d \in Storage, c <= d, d < body PROVE allocated'[d] # 0
      OBVIOUS
    <3>1. d # c
      BY <1>1, <1>4 DEF Storage, Of
    <3>2. d \in c + 1 .. body - 1
      BY <1>6, <2>1, <3>1
    <3>3. PICK a \in 1 .. last - 1 : d = here.kids[a]
      BY <1>5, <3>2
    <3>4. params[a] = d /\ a \in DOMAIN params
      BY <1>10, <3>3
    <3> HIDE DEF params
    <3> QED
      BY <1>1, <1>11, <2>1, <3>4
  <2>4. job.do # "VarDecl"
    BY <1>1
  <2>5. Allocates(c, todo, allocated)
    BY DEF Progress
  <2> QED
    BY <1>3, <1>6, <2>2, <2>3, <2>4, <2>5, AllocatesOn
<1>13. f = Signature(c)
  BY <1>4 DEF Signature, Params, TypeOfDeclaration
<1> HIDE DEF f
<1>14. /\ functions' # <<>>
       /\ DOMAIN functions' = DOMAIN functions \cup {Len(functions) + 1}
       /\ \A g \in DOMAIN functions : functions'[g] = functions[g]
       /\ functions'[Len(functions) + 1] = f
  <2>1. IsSeq(functions) /\ DOMAIN functions = 1 .. Len(functions)
    <3> HIDE DEF FunctionList
    <3>1. functions \in FunctionList
      BY DEF CodeInv, Place
    <3> QED
      BY <3>1, IsSeqOf, SeqFacts DEF FunctionList
  <2> DEFINE fs == functions'
  <2>2. fs = Append(functions, f)
    BY <1>1
  <2> HIDE DEF fs
  <2>3. IsSeq(fs) /\ Len(fs) = Len(functions) + 1 /\ DOMAIN fs = 1 .. Len(functions) + 1
    BY <2>1, <2>2, Appended
  <2>4. (\A g \in DOMAIN functions : fs[g] = functions[g]) /\ fs[Len(functions) + 1] = f
    BY <2>1, <2>2, Appended
  <2> DEFINE total == Len(functions)
  <2> HIDE DEF total
  <2>5. 1 .. total + 1 = 1 .. total \cup {total + 1} /\ total + 1 \in 1 .. total + 1
    BY <1>11 DEF total
  <2>6. fs # <<>>
    BY <2>3, <2>5, EmptySeq DEF total
  <2> QED
    BY <2>1, <2>3, <2>4, <2>5, <2>6 DEF total, fs
<1>15. Knows(body, functions')
  <2>1. \A g \in Of({"FnDef"}) : g < body => g < c \/ g = c
    <3> SUFFICES ASSUME NEW g \in Of({"FnDef"}), g < body, ~(g < c), g # c PROVE FALSE
      OBVIOUS
    <3>1. g \in DOMAIN tree /\ tree[g].kind = "FnDef" /\ g \in Int
      BY <1>6 DEF Of
    <3>2. g \in c + 1 .. body - 1
      BY <1>6, <3>1
    <3> QED
      BY <1>5, <3>1, <3>2
  <2>2. /\ \A g \in Of({"FnDef"}) : g < c => \E i \in DOMAIN functions : functions[i] = Signature(g)
        /\ \A i \in DOMAIN functions :
             \E g \in Of({"FnDef"}) : g < c /\ functions[i] = Signature(g)
    BY DEF Progress, Knows
  <2>3. c \in Of({"FnDef"})
    BY <1>1, <1>4 DEF Of
  <2>4. \A g \in Of({"FnDef"}) : g \in Int /\ (g < c => g < body)
    BY <1>6 DEF Of
  <2>5. \A g \in Of({"FnDef"}) : g < body => \E i \in DOMAIN functions' : functions'[i] = Signature(g)
    BY <1>13, <1>14, <2>1, <2>2
  <2>6. ASSUME NEW i \in DOMAIN functions'
        PROVE  \E g \in Of({"FnDef"}) : g < body /\ functions'[i] = Signature(g)
    <3>1. CASE i \in DOMAIN functions
      BY <1>14, <2>2, <2>4, <3>1
    <3>2. CASE i = Len(functions) + 1
      BY <1>6, <1>13, <1>14, <2>3, <3>2
    <3> QED
      BY <1>14, <3>1, <3>2
  <2> QED
    BY <2>5, <2>6 DEF Knows
<1>16. \A k \in DOMAIN todo' : Accounted(functions', todo'[k])
  <2> DEFINE fs == functions'
  <2>1. fs # <<>>
    BY <1>14
  <2>2. \A k \in DOMAIN todo : Accounted(functions, todo[k])
    BY DEF Progress
  <2> HIDE DEF fs
  <2>3. \A k \in DOMAIN todo : Accounted(fs, todo[k])
    BY <2>1, <2>2 DEF Accounted
  <2>4. \A k \in DOMAIN js : Accounted(fs, js[k])
    BY <1>2, <1>7, <2>1 DEF Accounted
  <2>5. \A k \in DOMAIN todo' : Accounted(fs, todo'[k])
    BY <1>3, <2>3, <2>4, AccountedOn
  <2> QED
    BY <2>5 DEF fs
<1> QED
  BY <1>8, <1>9, <1>12, <1>15, <1>16 DEF Progress

Proceeds == \E c1 \in 1 .. Len(tree) + 1 : Progress(c1, todo', functions', allocated')

\* What is declared at the top is seen from there on.
LEMMA AtTop ==
  ASSUME WellFormed(tree), NEW d \in Declarations, Parent(d) = 1
  PROVE  /\ Owner(d) = 1
         /\ \A m \in DOMAIN tree : d < m /\ tree[d].name = tree[m].name => d \in Visible(m)
<1>1. d \in DOMAIN tree /\ d # 1 /\ 1 \in DOMAIN tree /\ Len(tree) \in Nat
      /\ DOMAIN tree = 1 .. Len(tree) /\ d \in 2 .. Len(tree)
      /\ tree[1].kind = "Root" /\ d \in Kids(1)
  <2>1. /\ Len(tree) \in Nat /\ DOMAIN tree = 1 .. Len(tree) /\ 1 \in DOMAIN tree
        /\ \A m \in DOMAIN tree : tree[m].kind = "Root" <=> m = 1
        /\ \A m \in 2 .. Len(tree) : Parent(m) \in 1 .. m - 1 /\ m \in Kids(Parent(m))
    BY TreeShape
  <2>2. d \in DOMAIN tree /\ tree[d].kind # "Root"
    BY DEF Declarations
  <2>3. d \in 2 .. Len(tree)
    BY <2>1, <2>2
  <2> QED
    BY <2>1, <2>2, <2>3
<1>2. d \notin Branches
  BY <1>1, Bounding
<1>3. Enclosing(d) = Enclosing(1) \cup {b \in {1} : IsFn(1)} \cup ({d} \cap Branches)
  BY <1>1, EnclosingKid
<1>4. Enclosing(1) \subseteq 1 .. 1
  BY <1>1, OwnerIsInnermost
<1>5. Enclosing(d) \subseteq {1}
  BY <1>2, <1>3, <1>4
<1>6. Owner(d) = 1
  BY <1>1, <1>5, OwnerIsInnermost
<1>7. ASSUME NEW m \in DOMAIN tree
      PROVE  m \in Subtree(1)
  <2>1. m \in 1 .. Len(tree)
    BY <1>1
  <2>2. \A j \in 1 + 1 .. m : Parent(j) >= 1
    <3>1. \A j \in 1 + 1 .. m : j \in 2 .. Len(tree)
      BY <1>1, <2>1
    <3>2. \A j \in 2 .. Len(tree) : Parent(j) \in 1 .. j - 1
      BY TreeShape
    <3> QED
      BY <3>1, <3>2
  <2> QED
    BY <1>1, <2>1, <2>2, InSubtree
<1> QED
  BY <1>6, <1>7 DEF Visible

\* A function that is known at a call is one that can be seen from there.
LEMMA KnownIsSeen ==
  ASSUME WellFormed(tree), NEW m \in DOMAIN tree, NEW fs, Knows(m, fs),
         NEW g \in DOMAIN fs, fs[g].name = tree[m].name
  PROVE  \E f \in Functions(m) : fs[g] = Signature(f) /\ f < m
<1>1. PICK f \in Of({"FnDef"}) : f < m /\ fs[g] = Signature(f)
  BY DEF Knows
<1>2. f \in DOMAIN tree /\ tree[f].kind = "FnDef" /\ tree[f].name = tree[m].name
  BY <1>1 DEF Of, Signature
<1>3. f \in Declarations /\ Parent(f) = 1
  BY <1>2, Bounding DEF Declarations, IsFn
<1>4. f \in Visible(m)
  BY <1>1, <1>2, <1>3, AtTop
<1> QED
  BY <1>1, <1>2, <1>4 DEF Functions, Variables

-----------------------------------------------------------------------------
(* Every action does. *)

LEMMA LeafProceeds ==
  ASSUME TypeOK, Generable, CodeInv,
         NEW c \in 1 .. Len(tree) + 1, Progress(c, todo, functions, allocated),
         Generate(Literals \cup {"VarExpr"}), Then(<<>>), UNCHANGED <<functions, allocated>>
  PROVE  Proceeds
<1>1. Running /\ job.do = "generate" /\ here.kind \in Literals \cup {"VarExpr"}
  BY Doing DEF Generate
<1>2. Kids(job.node) = {}
  BY <1>1, AtJob, Childless DEF Running, TypeOK, here
<1>3. here.kind \notin {"FnDef", "FnParam", "VarDecl"}
  BY <1>1 DEF Literals
<1> DEFINE js == <<>>
<1>4. /\ IsSeq(js) /\ Ascending(js) /\ ToCome(js) = {} /\ DOMAIN js = {} /\ Then(js)
  BY NothingMore
<1> HIDE DEF js
<1>5. Initialising(js)
  BY <1>4 DEF Initialising
<1> QED
  BY <1>1, <1>2, <1>3, <1>4, <1>5, ProgressBegins DEF Proceeds

LEMMA OperandStepFits ==
  ASSUME NEW m \in DOMAIN tree, tree[m].kind # "Empty", NEW fs
  PROVE  /\ codegen(m).do = "generate"
         /\ Accounted(fs, codegen(m))
BY DEF codegen, Accounted, IsOf

LEMMA ChainProceeds ==
  ASSUME TypeOK, Generable, CodeInv,
         NEW c \in 1 .. Len(tree) + 1, Progress(c, todo, functions, allocated),
         GenerateChain
  PROVE  Proceeds
<1> DEFINE number == Len(here.kids)
           more == 2 * (number - 1)
           rest == [k \in 1 .. more |->
                      IF k % 2 = 1 THEN codegen(kid((k + 3) \div 2))
                      ELSE Step("combine")]
           js == <<codegen(kid(1))>> \o rest
           whole == 1 + more
           at == [k \in 1 .. whole |-> IF k = 1 THEN 1 ELSE IF k % 2 = 0 THEN (k + 2) \div 2 ELSE 0]
<1>1. /\ Running /\ job.do = "generate" /\ here.kind \in Chains
      /\ Then(js) /\ UNCHANGED <<values, generated>>
  BY Doing DEF GenerateChain, Generate
<1>2. /\ number \in Nat /\ number > 1
      /\ \A i \in 1 .. number : kid(i) \in DOMAIN tree /\ tree[kid(i)].kind \in Proper
  BY <1>1, Here, AtJob DEF CanBeGenerated, here, kid
<1>3. more \in Nat /\ more > 1 /\ whole \in Nat
  <2> HIDE DEF number
  <2> QED
    BY <1>2
<1>4. IsSeq(rest) /\ Len(rest) = more
  <2>1. DOMAIN rest = 1 .. more /\ rest = [k \in 1 .. more |-> rest[k]]
    OBVIOUS
  <2> HIDE DEF rest, more
  <2> QED
    BY <1>3, <2>1, SeqFromFunction
<1>5. IsSeq(js) /\ Len(js) = whole /\ DOMAIN js = 1 .. whole
      /\ \A k \in 1 .. whole : js[k] = IF k <= 1 THEN codegen(kid(1)) ELSE rest[k - 1]
  <2> DEFINE x == codegen(kid(1))
  <2>1. IsSeq(rest) /\ js = <<x>> \o rest
    BY <1>4
  <2> HIDE DEF x, rest, js, more
  <2>2. IsSeq(js) /\ Len(js) = 1 + Len(rest) /\ DOMAIN js = 1 .. 1 + Len(rest)
    BY <2>1, OneBefore
  <2>3. \A k \in DOMAIN js : js[k] = IF k <= 1 THEN x ELSE rest[k - 1]
    BY <2>1, OneBefore
  <2> QED
    BY <1>4, <2>2, <2>3 DEF x
<1>6. /\ \A k \in 1 .. whole : at[k] = IF k = 1 THEN 1 ELSE IF k % 2 = 0 THEN (k + 2) \div 2 ELSE 0
      /\ \A k \in 1 .. more :
           rest[k] = IF k % 2 = 1 THEN codegen(kid((k + 3) \div 2)) ELSE Step("combine")
  OBVIOUS
<1> HIDE DEF js, rest, at
<1>7. ASSUME NEW k \in 1 .. whole
      PROVE  /\ at[k] \in 0 .. number
             /\ at[k] # 0 => js[k] = codegen(kid(at[k]))
             /\ at[k] = 0 => js[k] = Step("combine")
  <2>1. CASE k = 1
    <3>1. 1 \in 0 .. number /\ 1 # 0 /\ 1 <= 1
      <4> HIDE DEF number
      <4> QED
        BY <1>2
    <3> QED
      BY <1>5, <1>6, <2>1, <3>1
  <2>2. CASE k # 1 /\ k % 2 = 0
    <3>1. /\ k - 1 \in 1 .. more /\ (k - 1) % 2 = 1 /\ ((k - 1) + 3) \div 2 = (k + 2) \div 2
          /\ (k + 2) \div 2 \in 0 .. number /\ (k + 2) \div 2 # 0 /\ ~(k <= 1)
      <4> HIDE DEF number
      <4> QED
        BY <1>2, <2>2
    <3> HIDE DEF number, more, whole
    <3>2. js[k] = rest[k - 1] /\ at[k] = (k + 2) \div 2
      BY <1>5, <1>6, <2>2, <3>1
    <3>3. rest[k - 1] = codegen(kid(((k - 1) + 3) \div 2))
      BY <1>6, <3>1
    <3> QED
      BY <3>1, <3>2, <3>3
  <2>3. CASE k # 1 /\ k % 2 # 0
    <3>1. /\ k - 1 \in 1 .. more /\ (k - 1) % 2 # 1 /\ ~(k <= 1) /\ 0 \in 0 .. number
      <4> HIDE DEF number
      <4> QED
        BY <1>2, <2>3
    <3> HIDE DEF number, more, whole
    <3>2. js[k] = rest[k - 1] /\ at[k] = 0
      BY <1>5, <1>6, <2>3, <3>1
    <3>3. rest[k - 1] = Step("combine")
      BY <1>6, <3>1
    <3> QED
      BY <3>1, <3>2, <3>3
  <2> QED
    BY <2>1, <2>2, <2>3
<1>8. \A k, l \in 1 .. whole : k < l /\ at[k] # 0 /\ at[l] # 0 => at[k] < at[l]
  <2> SUFFICES ASSUME NEW k \in 1 .. whole, NEW l \in 1 .. whole, k < l,
                      at[k] # 0, at[l] # 0
               PROVE  at[k] < at[l]
    OBVIOUS
  <2>1. l # 1 /\ l > 1 /\ (k = 1 \/ k % 2 = 0)
    BY <1>3, <1>6
  <2>2. at[l] = (l + 2) \div 2 /\ l % 2 = 0
    BY <1>6, <2>1
  <2>3. at[k] = IF k = 1 THEN 1 ELSE (k + 2) \div 2
    BY <1>6, <2>1
  <2>4. k \in Nat /\ l \in Nat
    BY <1>3
  <2>5. (l + 2) \div 2 > 1 /\ (k % 2 = 0 => (k + 2) \div 2 < (l + 2) \div 2)
    BY <2>1, <2>2, <2>4
  <2> QED
    BY <2>1, <2>2, <2>3, <2>5
<1>9. \A i \in 1 .. number : \E k \in 1 .. whole : at[k] = i
  <2> SUFFICES ASSUME NEW i \in 1 .. number PROVE \E k \in 1 .. whole : at[k] = i
    OBVIOUS
  <2>1. CASE i = 1
    <3>1. 1 \in 1 .. whole
      BY <1>3
    <3> QED
      BY <1>6, <2>1, <3>1
  <2>2. CASE i # 1
    <3> DEFINE k == 2 * i - 2
    <3>1. k \in 1 .. whole /\ k # 1 /\ k % 2 = 0 /\ (k + 2) \div 2 = i
      <4> HIDE DEF number
      <4> QED
        BY <1>2, <2>2
    <3> HIDE DEF k
    <3> QED
      BY <1>6, <3>1
  <2> QED
    BY <2>1, <2>2
<1>10. /\ Step("combine").do = "combine" /\ Step("combine").node = job.node
  BY DEF Step
<1> HIDE DEF number, more, whole
<1>11. InTurn(js, at, number)
  BY <1>5, <1>7, <1>8, <1>9, <1>10 DEF InTurn
<1>12. \A k \in DOMAIN js : js[k].do # "VarDecl" /\ Accounted(functions, js[k])
  <2> SUFFICES ASSUME NEW k \in DOMAIN js
               PROVE  js[k].do # "VarDecl" /\ Accounted(functions, js[k])
    OBVIOUS
  <2>1. CASE at[k] = 0
    BY <1>5, <1>7, <1>10, <2>1 DEF Accounted, IsOf
  <2>2. CASE at[k] # 0
    <3> DEFINE m == kid(at[k])
    <3>1. at[k] \in 1 .. number
      BY <1>2, <1>5, <1>7, <2>2
    <3>2. m \in DOMAIN tree /\ tree[m].kind # "Empty" /\ js[k] = codegen(m)
      BY <1>2, <1>5, <1>7, <2>2, <3>1 DEF Proper
    <3> HIDE DEF m
    <3> QED
      BY <3>2, OperandStepFits
  <2> QED
    BY <2>1, <2>2
<1>13. here.kind \notin {"FnDef", "FnParam", "VarDecl"} /\ UNCHANGED <<functions, allocated>>
  BY <1>1 DEF Chains, generated
<1>14. InTurn(js, at, Len(here.kids))
  BY <1>11 DEF number
<1> QED
  BY <1>1, <1>5, <1>12, <1>13, <1>14, ProgressInTurn DEF Proceeds

LEMMA PrefixProceeds ==
  ASSUME TypeOK, Generable, CodeInv,
         NEW c \in 1 .. Len(tree) + 1, Progress(c, todo, functions, allocated),
         GeneratePrefixExpr
  PROVE  Proceeds
<1> DEFINE rest == [k \in DOMAIN here.ops |-> Step(here.ops[k])]
           x == codegen(kid(1))
           js == <<x>> \o rest
           more == Len(here.ops)
           whole == 1 + more
           at == [k \in 1 .. whole |-> IF k = 1 THEN 1 ELSE 0]
<1>1. /\ Running /\ job.do = "generate" /\ here.kind = "PrefixExpr"
      /\ Then(js) /\ UNCHANGED <<values, generated>>
  BY Doing DEF GeneratePrefixExpr, Generate
<1>2. /\ more \in Nat /\ DOMAIN here.ops = 1 .. more
      /\ \A k \in DOMAIN here.ops : here.ops[k] \in {"NOT", "MINUS"}
      /\ kid(1) \in DOMAIN tree /\ tree[kid(1)].kind \in Proper
      /\ Len(here.kids) = 1
  <2>1. here \in TreeNode /\ CanBeGenerated(tree, job.node)
    BY <1>1, Here
  <2>2. here.ops \in Seq(STRING)
    BY <2>1 DEF TreeNode
  <2>3. \A k \in DOMAIN here.ops : here.ops[k] \in {"NOT", "MINUS"}
    BY <1>1, <2>1 DEF CanBeGenerated, here
  <2>4. kid(1) \in DOMAIN tree /\ tree[kid(1)].kind \in Proper /\ Len(here.kids) = 1
    BY <1>1, <2>1, Here DEF CanBeGenerated, here, kid
  <2> QED
    BY <2>2, <2>3, <2>4, LenProperties
<1>3. IsSeq(rest) /\ Len(rest) = more
  <2>1. DOMAIN rest = 1 .. more /\ rest = [k \in 1 .. more |-> rest[k]]
    BY <1>2
  <2> HIDE DEF rest, more
  <2> QED
    BY <1>2, <2>1, SeqFromFunction
<1>4. \A k \in 1 .. more : rest[k] = Step(here.ops[k])
  BY <1>2
<1>5. /\ IsSeq(js) /\ Len(js) = whole /\ DOMAIN js = 1 .. whole
      /\ \A k \in 1 .. whole : js[k] = IF k <= 1 THEN x ELSE rest[k - 1]
  <2>1. js = <<x>> \o rest
    OBVIOUS
  <2> HIDE DEF x, rest, js, more
  <2>2. IsSeq(js) /\ Len(js) = 1 + Len(rest) /\ DOMAIN js = 1 .. 1 + Len(rest)
    BY <1>3, <2>1, OneBefore
  <2>3. \A k \in DOMAIN js : js[k] = IF k <= 1 THEN x ELSE rest[k - 1]
    BY <1>3, <2>1, OneBefore
  <2> QED
    BY <1>3, <2>2, <2>3
<1>6. \A k \in 1 .. whole : at[k] = IF k = 1 THEN 1 ELSE 0
  OBVIOUS
<1>7. /\ \A k \in 1 .. whole : k \in Nat /\ (k # 1 => ~(k <= 1) /\ k - 1 \in 1 .. more)
      /\ 1 \in 1 .. whole /\ 1 <= 1
  <2> HIDE DEF more
  <2> QED
    BY <1>2
<1> HIDE DEF js, rest, at, more, whole
<1>8. ASSUME NEW k \in 1 .. whole, k # 1
      PROVE  /\ js[k].do \in {"NOT", "MINUS"} /\ js[k].node = job.node
             /\ js[k].do # "VarDecl" /\ Accounted(functions, js[k])
  <2> DEFINE what == here.ops[k - 1]
  <2>1. js[k] = Step(what) /\ what \in {"NOT", "MINUS"}
    BY <1>2, <1>4, <1>5, <1>7, <1>8
  <2> HIDE DEF what
  <2>2. js[k].do \in {"NOT", "MINUS"} /\ js[k].node = job.node
    BY <2>1 DEF Step
  <2> QED
    BY <2>2 DEF Accounted, IsOf
<1>9. js[1] = x /\ x.do = "generate" /\ Accounted(functions, x)
  <2>1. tree[kid(1)].kind # "Empty"
    BY <1>2 DEF Proper
  <2> QED
    BY <1>2, <1>5, <1>7, <2>1, OperandStepFits
<1>10. InTurn(js, at, Len(here.kids))
  <2>1. \A k \in 1 .. whole : at[k] # 0 => k = 1
    BY <1>6
  <2>2. 1 \in 0 .. 1 /\ 0 \in 0 .. 1 /\ 1 # 0 /\ \A i \in 1 .. 1 : i = 1
    OBVIOUS
  <2>3. ~(1 < 1)
    OBVIOUS
  <2>4. \A k \in 1 .. whole :
          /\ at[k] \in 0 .. 1
          /\ at[k] # 0 => js[k] = codegen(kid(at[k]))
          /\ at[k] = 0 => js[k].do # "generate" /\ js[k].do # "IfSt" /\ js[k].node = job.node
    BY <1>6, <1>8, <1>9, <2>1, <2>2
  <2>5. \A k, l \in 1 .. whole : k < l /\ at[k] # 0 /\ at[l] # 0 => at[k] < at[l]
    BY <2>1, <2>3
  <2>6. \A i \in 1 .. 1 : \E k \in 1 .. whole : at[k] = i
    BY <1>6, <1>7, <2>2
  <2> QED
    BY <1>2, <1>5, <2>4, <2>5, <2>6 DEF InTurn
<1>11. \A k \in DOMAIN js : js[k].do # "VarDecl"
  BY <1>5, <1>8, <1>9
<1>12. \A k \in DOMAIN js : Accounted(functions, js[k])
  BY <1>5, <1>8, <1>9
<1>13. here.kind \notin {"FnDef", "FnParam", "VarDecl"} /\ UNCHANGED <<functions, allocated>>
  BY <1>1 DEF generated
<1> QED
  BY <1>1, <1>5, <1>10, <1>11, <1>12, <1>13, ProgressInTurn DEF Proceeds

\* A call is only made to a function that can be seen.
LEMMA FnCallProceeds ==
  ASSUME TypeOK, Generable, CodeInv,
         NEW c \in 1 .. Len(tree) + 1, Progress(c, todo, functions, allocated),
         GenerateFnCallExpr
  PROVE  Proceeds
<1> DEFINE each == codegenEach(here.kids)
           last == Step("call")
           number == Len(here.kids)
           js == each \o <<last>>
           whole == number + 1
           at == [k \in 1 .. whole |-> IF k = whole THEN 0 ELSE k]
<1>1. /\ Running /\ job.do = "generate" /\ here.kind = "FnCallExpr"
      /\ named(here.name) # {} /\ Then(js) /\ UNCHANGED <<values, generated>>
  BY Doing DEF GenerateFnCallExpr, Generate
<1>2. /\ number \in Nat /\ DOMAIN here.kids = 1 .. number
      /\ \A i \in 1 .. number : kid(i) \in DOMAIN tree /\ tree[kid(i)].kind \in Proper
  BY <1>1, Here, AtJob DEF CanBeGenerated, here, kid
<1>3. /\ IsSeq(each) /\ Len(each) = number
      /\ \A k \in 1 .. number : each[k] = codegen(kid(k))
  <2>1. /\ DOMAIN each = 1 .. number /\ each = [k \in 1 .. number |-> each[k]]
        /\ \A k \in 1 .. number : each[k] = codegen(kid(k))
    BY <1>2 DEF codegenEach, kid
  <2> HIDE DEF each, number
  <2> QED
    BY <1>2, <2>1, SeqFromFunction
<1>4. js = Append(each, last)
  <2> HIDE DEF each, last
  <2>1. each \in Seq({each[k] : k \in DOMAIN each} \cup {last})
    BY <1>3, SeqOf
  <2> QED
    BY <2>1, AppendIsConcat
<1>5. /\ IsSeq(js) /\ Len(js) = whole /\ DOMAIN js = 1 .. whole
      /\ \A k \in 1 .. number : js[k] = each[k]
      /\ js[whole] = last
  <2> HIDE DEF js, each, last
  <2>1. IsSeq(js) /\ Len(js) = Len(each) + 1 /\ DOMAIN js = 1 .. Len(each) + 1
    BY <1>3, <1>4, Appended
  <2>2. (\A k \in DOMAIN each : js[k] = each[k]) /\ js[Len(each) + 1] = last
    BY <1>3, <1>4, Appended
  <2> QED
    BY <1>3, <2>1, <2>2, SeqFacts
<1>6. \A k \in 1 .. whole : at[k] = IF k = whole THEN 0 ELSE k
  OBVIOUS
<1>7. /\ \A k \in 1 .. whole : k = whole \/ (k \in 1 .. number /\ k # whole /\ k \in 0 .. number
                                             /\ k # 0)
      /\ 0 \in 0 .. number
      /\ \A i \in 1 .. number : i \in 1 .. whole /\ i # whole
  <2> HIDE DEF number
  <2> QED
    BY <1>2
<1>8. last.do = "call" /\ last.node = job.node
  BY DEF Step
<1> HIDE DEF js, each, at, number, last, whole
<1>9. InTurn(js, at, number)
  <2>1. \A k \in 1 .. whole :
          /\ at[k] \in 0 .. number
          /\ at[k] # 0 => js[k] = codegen(kid(at[k]))
          /\ at[k] = 0 => js[k].do # "generate" /\ js[k].do # "IfSt" /\ js[k].node = job.node
    BY <1>3, <1>5, <1>6, <1>7, <1>8
  <2>2. \A k, l \in 1 .. whole : k < l /\ at[k] # 0 /\ at[l] # 0 => at[k] < at[l]
    BY <1>6, <1>7
  <2>3. \A i \in 1 .. number : \E k \in 1 .. whole : at[k] = i
    BY <1>6, <1>7
  <2> QED
    BY <1>5, <2>1, <2>2, <2>3 DEF InTurn
<1>10. Functions(job.node) # {}
  <2>1. /\ todo \in Seq(Jobs(tree)) /\ todo # <<>> /\ job = todo[1] /\ WellFormed(tree)
    BY <1>1, AtJob DEF Running, TypeOK
  <2>2. c = job.node /\ job.node \in DOMAIN tree
    BY <1>1, <2>1, CursorHere DEF Progress
  <2>3. PICK g \in DOMAIN functions : functions[g].name = tree[job.node].name
    BY <1>1 DEF named, here
  <2>4. Knows(job.node, functions)
    BY <2>2 DEF Progress
  <2> QED
    BY <2>1, <2>2, <2>3, <2>4, KnownIsSeen
<1>11. Accounted(functions, last)
  BY <1>8, <1>10 DEF Accounted, IsOf
<1>12. ASSUME NEW k \in 1 .. number
       PROVE  js[k].do # "VarDecl" /\ Accounted(functions, js[k])
  <2> DEFINE m == kid(k)
  <2>1. m \in DOMAIN tree /\ tree[m].kind # "Empty" /\ js[k] = codegen(m)
    BY <1>2, <1>3, <1>5 DEF Proper
  <2> HIDE DEF m
  <2> QED
    BY <2>1, OperandStepFits
<1>13. \A k \in DOMAIN js : js[k].do # "VarDecl" /\ Accounted(functions, js[k])
  BY <1>5, <1>7, <1>8, <1>11, <1>12
<1>14. here.kind \notin {"FnDef", "FnParam", "VarDecl"} /\ UNCHANGED <<functions, allocated>>
  BY <1>1 DEF generated
<1>15. InTurn(js, at, Len(here.kids))
  BY <1>9 DEF number
<1> QED
  BY <1>1, <1>5, <1>13, <1>14, <1>15, ProgressInTurn DEF Proceeds

LEMMA EachProceeds ==
  ASSUME TypeOK, Generable, CodeInv,
         NEW c \in 1 .. Len(tree) + 1, Progress(c, todo, functions, allocated),
         GenerateEach
  PROVE  Proceeds
<1> DEFINE number == Len(here.kids)
           more == 2 * number
           whole == more + 1
           each == Each(here.kids)
           last == Step(here.kind)
           js == Append(each, last)
           at == [k \in 1 .. whole |->
                    IF k = whole THEN 0 ELSE IF k % 2 = 1 THEN (k + 1) \div 2 ELSE 0]
<1>1. /\ Running /\ job.do = "generate" /\ here.kind \in {"Block", "Root"}
      /\ Then(js) /\ UNCHANGED <<values, generated>>
  BY Doing DEF GenerateEach, Generate
<1>2. /\ number \in Nat /\ DOMAIN here.kids = 1 .. number
      /\ \A i \in 1 .. number : kid(i) \in DOMAIN tree /\ tree[kid(i)].kind # "Empty"
  <2>1. /\ number \in Nat /\ DOMAIN here.kids = 1 .. number
        /\ \A i \in 1 .. number : kid(i) \in DOMAIN tree
        /\ CanBeGenerated(tree, job.node)
    BY <1>1, Here
  <2>2. \A i \in 1 .. number : tree[here.kids[i]].kind # "Empty"
    BY <1>1, <2>1 DEF CanBeGenerated, here
  <2> QED
    BY <2>1, <2>2 DEF kid
<1>3. more \in Nat /\ whole \in Nat
  <2> HIDE DEF number
  <2> QED
    BY <1>2
<1>4. /\ IsSeq(each) /\ Len(each) = more
      /\ \A k \in 1 .. more : each[k] = IF k % 2 = 1 THEN codegen(kid((k + 1) \div 2))
                                        ELSE Step("statement")
  <2>1. /\ DOMAIN each = 1 .. more /\ each = [k \in 1 .. more |-> each[k]]
        /\ \A k \in 1 .. more : each[k] = IF k % 2 = 1 THEN codegen(kid((k + 1) \div 2))
                                          ELSE Step("statement")
    BY DEF Each, kid
  <2> HIDE DEF each, more
  <2> QED
    BY <1>3, <2>1, SeqFromFunction
<1>5. /\ IsSeq(js) /\ DOMAIN js = 1 .. whole
      /\ \A k \in 1 .. more : js[k] = each[k]
      /\ js[whole] = last
  <2>1. IsSeq(each) /\ js = Append(each, last)
    BY <1>4
  <2> HIDE DEF js, each, last
  <2>2. IsSeq(js) /\ Len(js) = Len(each) + 1 /\ DOMAIN js = 1 .. Len(each) + 1
    BY <2>1, Appended
  <2>3. (\A k \in DOMAIN each : js[k] = each[k]) /\ js[Len(each) + 1] = last
    BY <2>1, Appended
  <2> QED
    BY <1>4, <2>2, <2>3, SeqFacts
<1>6. \A k \in 1 .. whole :
        at[k] = IF k = whole THEN 0 ELSE IF k % 2 = 1 THEN (k + 1) \div 2 ELSE 0
  OBVIOUS
<1>7. /\ last.do = here.kind /\ last.node = job.node
      /\ Step("statement").do = "statement" /\ Step("statement").node = job.node
  BY DEF Step
<1> HIDE DEF js, each, at, last
<1>8. ASSUME NEW k \in 1 .. whole
      PROVE  /\ at[k] \in 0 .. number
             /\ at[k] # 0 => js[k] = codegen(kid(at[k]))
             /\ at[k] = 0 => js[k].do \in {"Block", "Root", "statement"} /\ js[k].node = job.node
  <2>1. 0 \in 0 .. number
    <3> HIDE DEF number
    <3> QED
      BY <1>2
  <2>2. CASE k = whole
    BY <1>1, <1>5, <1>6, <1>7, <2>1, <2>2
  <2>3. CASE k # whole /\ k % 2 = 1
    <3>1. k \in 1 .. more /\ (k + 1) \div 2 \in 0 .. number
      <4> HIDE DEF number
      <4> QED
        BY <1>2, <2>3
    <3> HIDE DEF number, more, whole
    <3> QED
      BY <1>4, <1>5, <1>6, <2>3, <3>1
  <2>4. CASE k # whole /\ k % 2 # 1
    <3>1. k \in 1 .. more
      <4> HIDE DEF number
      <4> QED
        BY <1>2, <2>4
    <3> HIDE DEF number, more, whole
    <3> QED
      BY <1>4, <1>5, <1>6, <1>7, <2>1, <2>4, <3>1
  <2> QED
    BY <2>2, <2>3, <2>4
<1>9. \A k, l \in 1 .. whole : k < l /\ at[k] # 0 /\ at[l] # 0 => at[k] < at[l]
  <2> SUFFICES ASSUME NEW k \in 1 .. whole, NEW l \in 1 .. whole, k < l,
                      at[k] # 0, at[l] # 0
               PROVE  at[k] < at[l]
    OBVIOUS
  <2>1. at[k] = (k + 1) \div 2 /\ k % 2 = 1 /\ at[l] = (l + 1) \div 2 /\ l % 2 = 1
    BY <1>6
  <2>2. k \in Nat /\ l \in Nat
    BY <1>3
  <2>3. (k + 1) \div 2 < (l + 1) \div 2
    BY <2>1, <2>2
  <2> QED
    BY <2>1, <2>3
<1>10. \A i \in 1 .. number : \E k \in 1 .. whole : at[k] = i
  <2> SUFFICES ASSUME NEW i \in 1 .. number PROVE \E k \in 1 .. whole : at[k] = i
    OBVIOUS
  <2> DEFINE k == 2 * i - 1
  <2>1. k \in 1 .. whole /\ k # whole /\ k % 2 = 1 /\ (k + 1) \div 2 = i
    <3> HIDE DEF number
    <3> QED
      BY <1>2
  <2> HIDE DEF k
  <2> QED
    BY <1>6, <2>1
<1> HIDE DEF number, more, whole
<1>11. InTurn(js, at, number)
  <2>1. \A k \in 1 .. whole :
          at[k] = 0 => js[k].do # "generate" /\ js[k].do # "IfSt" /\ js[k].node = job.node
    BY <1>8
  <2> QED
    BY <1>5, <1>8, <1>9, <1>10, <2>1 DEF InTurn
<1>12. \A k \in DOMAIN js : js[k].do # "VarDecl" /\ Accounted(functions, js[k])
  <2> SUFFICES ASSUME NEW k \in DOMAIN js
               PROVE  js[k].do # "VarDecl" /\ Accounted(functions, js[k])
    OBVIOUS
  <2>1. CASE at[k] = 0
    BY <1>5, <1>8, <2>1 DEF Accounted, IsOf
  <2>2. CASE at[k] # 0
    <3> DEFINE m == kid(at[k])
    <3>1. at[k] \in 1 .. number
      BY <1>2, <1>5, <1>8, <2>2
    <3>2. m \in DOMAIN tree /\ tree[m].kind # "Empty" /\ js[k] = codegen(m)
      BY <1>2, <1>5, <1>8, <2>2, <3>1
    <3> HIDE DEF m
    <3> QED
      BY <3>2, OperandStepFits
  <2> QED
    BY <2>1, <2>2
<1>13. here.kind \notin {"FnDef", "FnParam", "VarDecl"} /\ UNCHANGED <<functions, allocated>>
  BY <1>1 DEF generated
<1>14. InTurn(js, at, Len(here.kids))
  BY <1>11 DEF number
<1> QED
  BY <1>1, <1>5, <1>12, <1>13, <1>14, ProgressInTurn DEF Proceeds

LEMMA TwoSteps ==
  ASSUME NEW x, NEW y, NEW js, js = <<x, y>>
  PROVE  IsSeq(js) /\ DOMAIN js = {1, 2} /\ js[1] = x /\ js[2] = y /\ Len(js) = 2
<1>1. js \in Seq({x, y}) /\ DOMAIN js = {1, 2} /\ js[1] = x /\ js[2] = y /\ Len(js) = 2
  OBVIOUS
<1> QED
  BY <1>1, IsSeqOf

\* The value of a statement comes before the statement.
LEMMA OperandProceeds ==
  ASSUME TypeOK, Generable, CodeInv,
         NEW c \in 1 .. Len(tree) + 1, Progress(c, todo, functions, allocated),
         GenerateOperand
  PROVE  Proceeds
<1> DEFINE m == kid(1)
           x == codegen(m)
           y == Step(here.kind)
           js == <<x, y>>
<1>1. /\ Running /\ job.do = "generate"
      /\ here.kind \in {"VarDecl", "ReturnSt", "IfSt", "AssignSt"}
      /\ Then(js) /\ UNCHANGED <<values, generated>>
  BY Doing DEF GenerateOperand, Generate
<1>2. IsSeq(js) /\ DOMAIN js = {1, 2} /\ js[1] = x /\ js[2] = y
  BY TwoSteps
<1>3. /\ x.do = "generate" /\ x.node = m
      /\ y.do = here.kind /\ y.node = job.node
  BY DEF codegen, Step
<1> HIDE DEF js, x, y
<1>4. /\ WellFormed(tree) /\ job.node \in DOMAIN tree /\ here = tree[job.node]
      /\ CanBeGenerated(tree, job.node)
  BY <1>1, AtJob, Here DEF Running, TypeOK
<1>5. /\ 1 \in DOMAIN here.kids /\ m \in Kids(job.node) /\ m \in DOMAIN tree
      /\ tree[m].kind \in ExpressionKinds
      /\ here.kind \in {"IfSt", "AssignSt"} => tree[m].kind # "Empty"
      /\ here.kind # "IfSt" => Len(here.kids) = 1
  <2>1. /\ Len(here.kids) \in Nat /\ DOMAIN here.kids = 1 .. Len(here.kids)
    BY <1>1, Here
  <2>2. here.kind = "IfSt" => Len(here.kids) = 3
    BY <1>4 DEF WellFormed, HasParts
  <2>3. here.kind # "IfSt" => Len(here.kids) = 1
    BY <1>1, <1>4 DEF CanBeGenerated, here
  <2>4. 1 \in DOMAIN here.kids
    <3> DEFINE number == Len(here.kids)
    <3>1. DOMAIN here.kids = 1 .. number /\ (number = 1 \/ number = 3)
      BY <2>1, <2>2, <2>3
    <3> HIDE DEF number
    <3> QED
      BY <3>1
  <2>5. m \in Kids(job.node)
    BY <1>4, <2>4 DEF Kids, ChildrenOf, kid
  <2>6. m \in DOMAIN tree
    BY <1>1, <2>4, Here
  <2>7. /\ tree[m].kind \in ExpressionKinds
        /\ here.kind \in {"IfSt", "AssignSt"} => tree[m].kind # "Empty"
    BY <1>1, <1>4 DEF CanBeGenerated, here, kid, Proper
  <2> QED
    BY <2>3, <2>4, <2>5, <2>6, <2>7
<1>6. Ascending(js) /\ ToCome(js) = Kids(job.node)
  <2>1. CASE here.kind = "IfSt"
    <3> DEFINE p == tree[job.node].kids
    <3>1. /\ DOMAIN p = 1 .. 3 /\ p[1] < p[2] /\ p[2] < p[3]
          /\ Kids(job.node) = {p[1], p[2], p[3]}
          /\ \A k \in 1 .. 3 : p[k] \in Kids(job.node)
      BY <1>4, <2>1, IfStParts
    <3>2. m = p[1]
      BY <1>4 DEF kid
    <3>3. \A k \in Kids(job.node) : k \in Int
      BY <1>4, TreeShape
    <3>4. Comes(x) = {p[1]} /\ Comes(y) = {p[2], p[3]}
      BY <1>3, <1>4, <2>1, <3>2 DEF Comes
    <3> HIDE DEF p
    <3>5. p[1] \in Int /\ p[2] \in Int /\ p[3] \in Int
      BY <3>1, <3>3
    <3>6. p[1] < p[3]
      BY <3>1, <3>5
    <3>7. ~(1 < 1) /\ ~(2 < 1) /\ ~(2 < 2)
      OBVIOUS
    <3>8. \A k, l \in DOMAIN js : k < l => k = 1 /\ l = 2
      BY <1>2, <3>7
    <3>9. Ascending(js)
      BY <1>2, <3>1, <3>4, <3>6, <3>8 DEF Ascending
    <3>10. ToCome(js) = Comes(x) \cup Comes(y)
      BY <1>2 DEF ToCome
    <3> QED
      BY <3>1, <3>4, <3>9, <3>10
  <2>2. CASE here.kind # "IfSt"
    <3>1. Comes(x) = {m} /\ Comes(y) = {}
      BY <1>1, <1>3, <2>2 DEF Comes
    <3>2. Kids(job.node) = {m}
      <4>1. DOMAIN here.kids = 1 .. 1
        BY <1>1, <1>5, <2>2, Here
      <4> QED
        BY <1>4, <4>1 DEF Kids, ChildrenOf, kid
    <3>3. ToCome(js) = Comes(x) \cup Comes(y)
      BY <1>2 DEF ToCome
    <3>4. ~(1 < 1) /\ ~(2 < 1) /\ ~(2 < 2)
      OBVIOUS
    <3>5. \A k, l \in DOMAIN js : k < l => k = 1 /\ l = 2
      BY <1>2, <3>4
    <3>6. Ascending(js)
      BY <1>2, <3>1, <3>5 DEF Ascending
    <3> QED
      BY <3>1, <3>2, <3>3, <3>6
  <2> QED
    BY <2>1, <2>2
<1>7. Initialising(js)
  <2>1. m \in Subtree(job.node)
    BY <1>4, <1>5, SubtreeOrder
  <2>2. MayPrecede(x, job.node)
    BY <1>3, <1>5, <2>1 DEF MayPrecede
  <2>3. ~(1 < 1) /\ ~(2 < 1) /\ ~(2 < 2)
    OBVIOUS
  <2> QED
    BY <1>2, <1>3, <2>2, <2>3 DEF Initialising
<1>8. \A k \in DOMAIN js : BelowHere(js[k])
  <2>1. BelowHere(x) /\ BelowHere(y)
    BY <1>1, <1>3, <1>5 DEF BelowHere
  <2> QED
    BY <1>2, <2>1
<1>9. \A k \in DOMAIN js : Accounted(functions, js[k])
  <2>1. Accounted(functions, x)
    <3>1. ASSUME tree[m].kind = "Empty" PROVE LacksValue
      <4>1. job.node \in Of({"VarDecl", "ReturnSt"})
        BY <1>1, <1>4, <1>5, <3>1 DEF Of
      <4>2. tree[tree[job.node].kids[1]].kind = "Empty"
        BY <1>4, <3>1 DEF kid
      <4> QED
        BY <4>1, <4>2 DEF LacksValue
    <3> QED
      BY <1>3, <3>1 DEF Accounted, IsOf
  <2>2. Accounted(functions, y)
    BY <1>1, <1>3 DEF Accounted, IsOf
  <2> QED
    BY <1>2, <2>1, <2>2
<1>10. here.kind = "VarDecl" => \E k \in DOMAIN js : js[k].do = "VarDecl"
  BY <1>2, <1>3
<1>11. here.kind \notin {"FnDef", "FnParam"} /\ UNCHANGED <<functions, allocated>>
  BY <1>1 DEF generated
<1> QED
  BY <1>1, <1>2, <1>6, <1>7, <1>8, <1>9, <1>10, <1>11, ProgressBegins DEF Proceeds

LEMMA DoneProceeds ==
  ASSUME TypeOK, Generable, CodeInv,
         NEW c \in 1 .. Len(tree) + 1, Progress(c, todo, functions, allocated),
         NEW what, Do(what), what \notin {"generate", "IfSt", "VarDecl"},
         Then(<<>>), UNCHANGED <<functions, allocated>>
  PROVE  Proceeds
<1>1. Running /\ job.do = what
  BY Doing
<1> DEFINE js == <<>>
<1>2. /\ IsSeq(js) /\ Ascending(js) /\ ToCome(js) = {} /\ DOMAIN js = {} /\ Then(js)
  BY NothingMore
<1> HIDE DEF js
<1>3. Initialising(js)
  BY <1>2 DEF Initialising
<1>4. Comes(job) = {}
  BY <1>1 DEF Comes
<1>5. functions' = functions /\ \A d \in Storage : allocated[d] # 0 => allocated'[d] # 0
  OBVIOUS
<1> QED
  BY <1>1, <1>2, <1>3, <1>4, <1>5, ProgressStays DEF Proceeds

LEMMA NegateProceeds ==
  ASSUME TypeOK, Generable, CodeInv,
         NEW c \in 1 .. Len(tree) + 1, Progress(c, todo, functions, allocated), Negate
  PROVE  Proceeds
<1> DEFINE x == Step("MINUS")
           js == <<x>>
<1>1. Running /\ job.do = "NOT" /\ Then(js) /\ UNCHANGED <<functions, allocated>>
  BY Doing DEF Negate
<1>2. IsSeq(js) /\ DOMAIN js = {1} /\ js[1] = x
  BY OneStep
<1>3. x.do = "MINUS" /\ x.node = job.node
  BY DEF Step
<1> HIDE DEF js, x
<1>4. ~(1 < 1)
  OBVIOUS
<1>5. Comes(x) = {} /\ Comes(job) = {}
  BY <1>1, <1>3 DEF Comes
<1>6. Ascending(js) /\ ToCome(js) = Comes(job) /\ Initialising(js)
  BY <1>2, <1>4, <1>5 DEF Ascending, ToCome, Initialising
<1>7. \A k \in DOMAIN js : /\ js[k].do # "IfSt"
                           /\ js[k].do # "generate" => js[k].node = job.node
                           /\ js[k].do = "generate" => job.do = "IfSt"
                           /\ Accounted(functions, js[k])
  BY <1>2, <1>3 DEF Accounted, IsOf
<1>8. functions' = functions /\ \A d \in Storage : allocated[d] # 0 => allocated'[d] # 0
  BY <1>1
<1> QED
  BY <1>1, <1>2, <1>6, <1>7, <1>8, ProgressStays DEF Proceeds

\* The variable is allocated in the function that is generated.
LEMMA DeclareProceeds ==
  ASSUME TypeOK, Generable, CodeInv,
         NEW c \in 1 .. Len(tree) + 1, Progress(c, todo, functions, allocated), Declare
  PROVE  Proceeds
<1> DEFINE js == <<>>
<1>1. /\ Running /\ job.do = "VarDecl" /\ insertBlock # 0
      /\ allocated' = [allocated EXCEPT ![job.node] = blocks[insertBlock].fn]
      /\ Then(<<>>) /\ functions' = functions
  BY Doing DEF Declare, recorded
<1>2. /\ IsSeq(js) /\ Ascending(js) /\ ToCome(js) = {} /\ DOMAIN js = {} /\ Then(js)
  BY <1>1, NothingMore
<1> HIDE DEF js
<1>3. Initialising(js)
  BY <1>2 DEF Initialising
<1>4. Comes(job) = {}
  BY <1>1 DEF Comes
<1>5. blocks[insertBlock].fn = Len(functions) /\ functions # <<>>
  BY <1>1 DEF CodeInv, Place
<1>6. Len(functions) # 0
  <2> HIDE DEF FunctionList
  <2>1. functions \in FunctionList
    BY DEF CodeInv, Place
  <2> QED
    BY <1>5, <2>1, EmptySeq DEF FunctionList
<1>7. /\ job.node \in DOMAIN tree /\ DOMAIN allocated = DOMAIN tree
  BY <1>1, AtJob DEF CodeInv
<1>8. allocated'[job.node] # 0
  BY <1>1, <1>5, <1>6, <1>7
<1>9. \A d \in Storage : allocated[d] # 0 => allocated'[d] # 0
  <2> SUFFICES ASSUME NEW d \in Storage, allocated[d] # 0 PROVE allocated'[d] # 0
    OBVIOUS
  <2>1. CASE d = job.node
    BY <1>8, <2>1
  <2>2. CASE d # job.node
    <3>1. d \in DOMAIN allocated
      BY <1>7 DEF Storage, Of
    <3>2. allocated'[d] = allocated[d]
      BY <1>1, <2>2, <3>1
    <3> QED
      BY <3>2
  <2> QED
    BY <2>1, <2>2
<1> QED
  BY <1>1, <1>2, <1>3, <1>4, <1>8, <1>9, ProgressStays DEF Proceeds

LEMMA FourSteps ==
  ASSUME NEW x, NEW y, NEW z, NEW w, NEW js, js = <<x, y, z, w>>
  PROVE  IsSeq(js) /\ DOMAIN js = {1, 2, 3, 4}
         /\ js[1] = x /\ js[2] = y /\ js[3] = z /\ js[4] = w /\ Len(js) = 4
<1>1. js \in Seq({x, y, z, w}) /\ DOMAIN js = {1, 2, 3, 4} /\ Len(js) = 4
  OBVIOUS
<1>2. js[1] = x /\ js[2] = y /\ js[3] = z /\ js[4] = w
  OBVIOUS
<1> QED
  BY <1>1, <1>2, IsSeqOf

LEMMA BranchProceeds ==
  ASSUME TypeOK, Generable, CodeInv,
         NEW c \in 1 .. Len(tree) + 1, Progress(c, todo, functions, allocated), Branch
  PROVE  Proceeds
<1> DEFINE x == codegen(kid(2))
           y == Jump("else", newBlock(3), newBlock(2))
           z == codegen(kid(3))
           w == Jump("merge", newBlock(3), newBlock(3))
           js == <<x, y, z, w>>
<1>1. Running /\ job.do = "IfSt" /\ Then(js) /\ UNCHANGED <<functions, allocated>>
  BY Doing DEF Branch
<1>2. /\ IsSeq(js) /\ DOMAIN js = {1, 2, 3, 4}
      /\ js[1] = x /\ js[2] = y /\ js[3] = z /\ js[4] = w
  BY FourSteps
<1>3. /\ x.do = "generate" /\ x.node = kid(2) /\ z.do = "generate" /\ z.node = kid(3)
      /\ y.do = "else" /\ y.node = job.node /\ w.do = "merge" /\ w.node = job.node
  BY DEF codegen, Jump
<1> HIDE DEF js, x, y, z, w
<1>4. /\ WellFormed(tree) /\ job.node \in DOMAIN tree /\ tree[job.node].kind = "IfSt"
      /\ functions # <<>>
  BY <1>1, AtJob DEF Running, TypeOK, JobFits, About, Early
<1>5. kid(2) < kid(3) /\ kid(2) \in Int /\ kid(3) \in Int
      /\ Comes(job) = {kid(2), kid(3)}
  <2> DEFINE p == tree[job.node].kids
  <2>1. /\ p[2] < p[3] /\ \A k \in 1 .. 3 : p[k] \in job.node + 1 .. Len(tree)
    BY <1>4, IfStParts
  <2>2. p[2] = kid(2) /\ p[3] = kid(3) /\ Comes(job) = {p[2], p[3]}
    BY <1>1 DEF kid, here, Comes
  <2>3. 2 \in 1 .. 3 /\ 3 \in 1 .. 3 /\ job.node \in Int /\ Len(tree) \in Int
    BY <1>4, TreeShape
  <2> HIDE DEF p
  <2> QED
    BY <2>1, <2>2, <2>3
<1>6. Comes(x) = {kid(2)} /\ Comes(z) = {kid(3)} /\ Comes(y) = {} /\ Comes(w) = {}
  BY <1>3 DEF Comes
<1>7. ToCome(js) = Comes(job)
  <2>1. ToCome(js) = Comes(x) \cup Comes(y) \cup Comes(z) \cup Comes(w)
    BY <1>2 DEF ToCome
  <2> QED
    BY <1>5, <1>6, <2>1
<1>8. Ascending(js)
  <2>1. ~(1 < 1) /\ ~(3 < 3) /\ ~(3 < 1)
    OBVIOUS
  <2> QED
    BY <1>2, <1>5, <1>6, <2>1 DEF Ascending
<1>9. Initialising(js)
  BY <1>2, <1>3 DEF Initialising
<1>10. \A k \in DOMAIN js : /\ js[k].do # "IfSt"
                            /\ js[k].do # "generate" => js[k].node = job.node
                            /\ js[k].do = "generate" => job.do = "IfSt"
                            /\ Accounted(functions, js[k])
  BY <1>1, <1>2, <1>3, <1>4 DEF Accounted
<1>11. functions' = functions /\ \A d \in Storage : allocated[d] # 0 => allocated'[d] # 0
  BY <1>1
<1> QED
  BY <1>1, <1>2, <1>7, <1>8, <1>9, <1>10, <1>11, ProgressStays DEF Proceeds

Stops ==
  \/ fatalCodegenError \/ AssertSymbol \/ RefuseUnallocated \/ RefuseCallee
  \/ CombineOthers \/ CreateOtherCall \/ DeclareNowhere \/ EndRoot

LEMMA ProgressStep ==
  ASSUME TypeOK, Generable, CodeInv, CodegenNext, ~Stops,
         NEW c \in 1 .. Len(tree) + 1, Progress(c, todo, functions, allocated)
  PROVE  Proceeds
<1>1. CASE GenerateLiteral \/ GenerateEmpty \/ GenerateVarExpr
  <2>1. /\ Generate(Literals \cup {"VarExpr"}) /\ Then(<<>>)
        /\ UNCHANGED <<functions, allocated>>
    BY <1>1 DEF GenerateLiteral, GenerateEmpty, GenerateVarExpr, Yield, Generate, Literals
  <2> QED
    BY <2>1, LeafProceeds
<1>2. CASE GenerateChain
  BY <1>2, ChainProceeds
<1>3. CASE GeneratePrefixExpr
  BY <1>3, PrefixProceeds
<1>4. CASE GenerateFnCallExpr
  BY <1>4, FnCallProceeds
<1>5. CASE GenerateOperand
  BY <1>5, OperandProceeds
<1>6. CASE GenerateEach
  BY <1>6, EachProceeds
<1>7. CASE GenerateFnDef
  BY <1>7, ProgressFnDef DEF Proceeds
<1>8. CASE Combine \/ Minus \/ CreateCall \/ CreateStore \/ CreateRet \/ EndBlock
           \/ Statement \/ Merge
  <2>1. \E what \in {"combine", "MINUS", "call", "AssignSt", "ReturnSt", "Block",
                     "statement", "else", "merge"} :
          Do(what) /\ Then(<<>>) /\ UNCHANGED <<functions, allocated>>
    BY <1>8 DEF Combine, Minus, CreateCall, CreateStore, CreateRet, EndBlock,
                Statement, Merge, Yield, generated
  <2>2. PICK what \in {"combine", "MINUS", "call", "AssignSt", "ReturnSt", "Block",
                       "statement", "else", "merge"} :
          Do(what) /\ Then(<<>>) /\ UNCHANGED <<functions, allocated>>
    BY <2>1
  <2>3. what \notin {"generate", "IfSt", "VarDecl"}
    OBVIOUS
  <2> QED
    BY <2>2, <2>3, DoneProceeds
<1>9. CASE Negate
  BY <1>9, NegateProceeds
<1>10. CASE Declare
  BY <1>10, DeclareProceeds
<1>11. CASE Branch
  BY <1>11, BranchProceeds
<1> QED
  BY <1>1, <1>2, <1>3, <1>4, <1>5, <1>6, <1>7, <1>8, <1>9, <1>10, <1>11
     DEF CodegenNext, Stops

-----------------------------------------------------------------------------
(* Null pointers. *)

LacksGlobalValue == HasGlobalVariable /\ LacksValue

NullsFor(vs) == \A k \in DOMAIN vs : vs[k] = Null => LacksGlobalValue

LEMMA DroppedNulls ==
  ASSUME NEW vs, IsSeq(vs), NullsFor(vs), NEW number \in 0 .. Len(vs),
         NEW us, us = SubSeq(vs, 1, number)
  PROVE  IsSeq(us) /\ NullsFor(us)
<1>1. /\ IsSeq(us) /\ DOMAIN us = 1 .. number
      /\ \A k \in 1 .. number : us[k] = vs[k] /\ k \in DOMAIN vs
  BY FirstOf
<1> QED
  BY <1>1 DEF NullsFor

LEMMA UseNulls ==
  ASSUME Running, NullsFor(values), NEW count \in 0 .. Len(values),
         NEW v, v = Null => LacksGlobalValue, Use(count, v)
  PROVE  NullsFor(values')
<1> DEFINE number == Len(values) - count
           kept == SubSeq(values, 1, number)
           us == values'
           fewer == Len(kept)
<1>1. number \in 0 .. Len(values) /\ IsSeq(values)
  <2>1. Len(values) \in Nat
    BY AtJob
  <2> QED
    BY <2>1 DEF Running, CodeInv, ValuesInv
<1>2. us = Append(kept, v)
  BY DEF Use
<1>3. IsSeq(kept) /\ NullsFor(kept)
  <2> HIDE DEF number
  <2>1. kept = SubSeq(values, 1, number)
    OBVIOUS
  <2> HIDE DEF kept
  <2> QED
    BY <1>1, <2>1, DroppedNulls
<1> HIDE DEF kept, us
<1>4. fewer \in Nat /\ DOMAIN kept = 1 .. fewer
  BY <1>3, SeqFacts
<1>5. DOMAIN us = 1 .. fewer + 1
  BY <1>2, <1>3, Appended
<1>6. (\A k \in DOMAIN kept : us[k] = kept[k]) /\ us[fewer + 1] = v
  BY <1>2, <1>3, Appended
<1> HIDE DEF fewer
<1>7. \A k \in 1 .. fewer + 1 : k \in 1 .. fewer \/ k = fewer + 1
  BY <1>4
<1>8. NullsFor(us)
  BY <1>3, <1>4, <1>5, <1>6, <1>7 DEF NullsFor
<1> QED
  BY <1>8 DEF us

\* Before the first function there is a global variable.
LEMMA FirstIsVariable ==
  ASSUME WellFormed(tree), Generable, NEW m \in DOMAIN tree, m # 1,
         NEW c \in Int, Knows(c, <<>>), m < c \/ (m = c /\ tree[m].kind # "FnDef")
  PROVE  HasGlobalVariable
<1>1. /\ Len(tree) \in Nat /\ DOMAIN tree = 1 .. Len(tree) /\ 1 \in DOMAIN tree
      /\ tree[1].kind = "Root"
      /\ \A k \in 2 .. Len(tree) : Parent(k) \in 1 .. k - 1 /\ k \in Kids(Parent(k))
  BY TreeShape
<1>2. 2 \in 2 .. Len(tree) /\ 2 \in DOMAIN tree /\ m \in Int /\ 2 <= m
  BY <1>1
<1>3. Parent(2) = 1 /\ 2 \in Kids(1)
  <2>1. Parent(2) \in 1 .. 2 - 1
    BY <1>1, <1>2
  <2>2. Parent(2) = 1
    BY <2>1
  <2> QED
    BY <1>1, <1>2, <2>2
<1>4. tree[2].kind \in {"VarDecl", "FnDef"}
  <2>1. CanBeGenerated(tree, 1)
    BY <1>1 DEF Generable
  <2>2. PICK k \in DOMAIN tree[1].kids : 2 = tree[1].kids[k]
    BY <1>3 DEF Kids, ChildrenOf
  <2>3. DOMAIN tree[1].kids = 1 .. Len(tree[1].kids)
    BY <1>1, KidsInOrder
  <2>4. k \in 1 .. Len(tree[1].kids)
    BY <2>2, <2>3
  <2> QED
    BY <1>1, <2>1, <2>2, <2>4 DEF CanBeGenerated
<1>5. tree[2].kind # "FnDef"
  <2> SUFFICES ASSUME tree[2].kind = "FnDef" PROVE FALSE
    OBVIOUS
  <2>1. 2 \in Of({"FnDef"})
    BY <1>2 DEF Of
  <2>2. 2 < c
    BY <1>2
  <2>3. PICK g \in DOMAIN <<>> : TRUE
    BY <2>1, <2>2 DEF Knows
  <2> QED
    BY <2>3
<1> QED
  BY <1>3, <1>4, <1>5 DEF HasGlobalVariable

\* A null pointer is the place of an absent value before the first function.
LEMMA EmptyNulls ==
  ASSUME TypeOK, Generable, CodeInv, NullsFor(values),
         NEW c \in 1 .. Len(tree) + 1, Progress(c, todo, functions, allocated),
         GenerateEmpty
  PROVE  NullsFor(values')
<1>1. /\ Running /\ job.do = "generate" /\ here.kind = "Empty"
      /\ Use(0, GetInsertBlock.value)
  BY Doing DEF GenerateEmpty, Generate, Yield
<1>2. ASSUME GetInsertBlock.value = Null PROVE LacksGlobalValue
  <2>1. insertBlock = 0
    BY <1>2 DEF GetInsertBlock, Null, Label
  <2>2. functions = <<>>
    BY <2>1 DEF CodeInv, Place
  <2>3. /\ todo \in Seq(Jobs(tree)) /\ todo # <<>> /\ job = todo[1] /\ WellFormed(tree)
        /\ 1 \in DOMAIN todo /\ job.node \in DOMAIN tree
    BY <1>1, AtJob DEF Running, TypeOK
  <2>4. c = job.node /\ c \in DOMAIN tree
    BY <1>1, <2>3, CursorHere DEF Progress
  <2>5. LacksValue
    BY <1>1, <2>2, <2>3 DEF Progress, Accounted, IsOf, here
  <2>6. c # 1 /\ tree[c].kind # "FnDef"
    BY <1>1, <2>3, <2>4, TreeShape DEF here
  <2>7. Knows(c, <<>>)
    BY <2>2 DEF Progress
  <2>8. c \in Int
    BY <2>3, TreeShape
  <2>9. HasGlobalVariable
    BY <2>3, <2>4, <2>6, <2>7, <2>8, FirstIsVariable
  <2> QED
    BY <2>5, <2>9 DEF LacksGlobalValue
<1>3. 0 \in 0 .. Len(values)
  BY <1>1, AtJob
<1> DEFINE v == GetInsertBlock.value
<1>4. (v = Null => LacksGlobalValue) /\ Use(0, v)
  BY <1>1, <1>2
<1> HIDE DEF v
<1> QED
  BY <1>1, <1>3, <1>4, UseNulls

LEMMA BuiltNotNull ==
  /\ \A op, type, x, y : Build(op, type, x, y).value # Null
  /\ \A instruction : Insert(instruction).value # Null
<1>1. \A instruction : Insert(instruction).value # Null
  <2> SUFFICES ASSUME NEW instruction PROVE Insert(instruction).value # Null
    OBVIOUS
  <2>1. Insert(instruction).value.is = "register"
    BY DEF Insert, Register
  <2> QED
    BY <2>1 DEF Null
<1>2. \A op, type, x, y : Build(op, type, x, y).value # Null
  <2> SUFFICES ASSUME NEW op, NEW type, NEW x, NEW y
               PROVE  Build(op, type, x, y).value # Null
    OBVIOUS
  <2> DEFINE v == Compute(op, Bits(x.type), x.v, y.v)
             instruction == Instruction(op, type, <<x, y>>, <<>>)
  <2>1. CASE x.is = "constant" /\ y.is = "constant"
    <3>1. Build(op, type, x, y).value = Constant(type, v)
      BY <2>1 DEF Build
    <3> HIDE DEF v
    <3> QED
      BY <3>1 DEF Constant, Null
  <2>2. CASE ~(x.is = "constant" /\ y.is = "constant")
    <3>1. Build(op, type, x, y) = Insert(instruction)
      BY <2>2 DEF Build
    <3> HIDE DEF instruction
    <3> QED
      BY <1>1, <3>1
  <2> QED
    BY <2>1, <2>2
<1> QED
  BY <1>1, <1>2

\* What is put on the stack is no null pointer, or was there before.
LEMMA UseOthers ==
  ASSUME Running, NullsFor(values), NEW count \in Nat, count <= Len(values),
         NEW v, v # Null \/ (v = top /\ Len(values) > 0), Use(count, v)
  PROVE  NullsFor(values')
<1>1. Len(values) \in Nat /\ DOMAIN values = 1 .. Len(values)
  BY AtJob
<1>2. count \in 0 .. Len(values)
  BY <1>1
<1>3. v = Null => LacksGlobalValue
  <2>1. Len(values) > 0 => Len(values) \in DOMAIN values
    BY <1>1
  <2> QED
    BY <2>1 DEF NullsFor, top
<1> QED
  BY <1>2, <1>3, UseNulls

LEMMA DropNulls ==
  ASSUME Running, NullsFor(values), Len(values) > 0,
         NEW us, us = SubSeq(values, 1, Len(values) - 1)
  PROVE  NullsFor(us)
<1> DEFINE number == Len(values) - 1
<1>1. number \in 0 .. Len(values) /\ IsSeq(values)
  <2>1. Len(values) \in Nat
    BY AtJob
  <2> QED
    BY <2>1 DEF Running, CodeInv, ValuesInv
<1>2. us = SubSeq(values, 1, number)
  OBVIOUS
<1> HIDE DEF number
<1> QED
  BY <1>1, <1>2, DroppedNulls

LEMMA NullsStep ==
  ASSUME TypeOK, Generable, CodeInv, CodegenNext, NullsFor(values),
         NEW c \in 1 .. Len(tree) + 1, Progress(c, todo, functions, allocated)
  PROVE  NullsFor(values')
<1> DEFINE count == Len(values)
<1>0. ASSUME Running PROVE count \in Nat
  BY <1>0, AtJob
<1> HIDE DEF count
<1>1. CASE Stops \/ GenerateChain \/ GeneratePrefixExpr \/ GenerateFnCallExpr
           \/ GenerateOperand \/ GenerateEach \/ GenerateFnDef \/ Declare
  <2>1. values' = values
    BY <1>1 DEF Stops, fatalCodegenError, AssertSymbol, RefuseUnallocated, RefuseCallee,
                CombineOthers, CreateOtherCall, DeclareNowhere, EndRoot, Stop,
                GenerateChain, GeneratePrefixExpr, GenerateFnCallExpr,
                GenerateOperand, GenerateEach, GenerateFnDef, Declare
  <2> QED
    BY <2>1
<1>2. CASE GenerateEmpty
  BY <1>2, EmptyNulls
<1>3. CASE GenerateLiteral \/ GenerateVarExpr
  <2>1. Running /\ \E v : v # Null /\ Use(0, v)
    <3>1. CASE GenerateLiteral
      <4> DEFINE v == IF here.kind = "FloatExpr" THEN Constant("f32", Unknown)
                      ELSE Constant("i32", here.value % PowerOf2[ValueBits])
      <4>1. Running /\ Use(0, v)
        BY <3>1, Doing DEF GenerateLiteral, Generate, Yield
      <4>2. v # Null
        BY DEF Constant, Null
      <4> HIDE DEF v
      <4> QED
        BY <4>1, <4>2
    <3>2. CASE GenerateVarExpr
      <4> DEFINE i == Instruction("load", toLLVMType(tree[symbolThere.declaredAt].typeName),
                                  <<>>, <<symbolThere.declaredAt>>)
                 v == Insert(i).value
      <4>1. Running /\ Use(0, v)
        BY <3>2, Doing DEF GenerateVarExpr, Generate, Yield
      <4> HIDE DEF i
      <4>2. v # Null
        BY BuiltNotNull
      <4> HIDE DEF v
      <4> QED
        BY <4>1, <4>2
    <3> QED
      BY <1>3, <3>1, <3>2
  <2>2. PICK v : v # Null /\ Use(0, v)
    BY <2>1
  <2>3. 0 \in Nat /\ 0 <= Len(values)
    BY <1>0, <2>1 DEF count
  <2> QED
    BY <2>1, <2>2, <2>3, UseOthers
<1>4. CASE Combine \/ CreateCall
  <2>1. Running /\ \E k \in Nat : \E v : v # Null /\ Use(k, v) /\ k <= Len(values)
    <3>1. CASE Combine
      <4> DEFINE v == Build(operator, top.type, operands[1], operands[2]).value
      <4>1. Running /\ Use(2, v) /\ job.do = "combine"
        BY <3>1, Doing DEF Combine, Yield
      <4>2. v # Null
        BY BuiltNotNull
      <4>3. 2 \in Nat /\ 2 <= Len(values)
        <5>1. count > 1
          BY <4>1, AtJob DEF DepthFits, count
        <5>2. 2 <= count
          BY <1>0, <4>1, <5>1
        <5> QED
          BY <5>2 DEF count
      <4> HIDE DEF v
      <4> QED
        BY <4>1, <4>2, <4>3
    <3>2. CASE CreateCall
      <4> DEFINE i == Instruction("call", functions[callee].type, arguments, <<callee>>)
                 v == Insert(i).value
                 k == Len(here.kids)
      <4>1. Running /\ Use(k, v) /\ job.do = "call"
        BY <3>2, Doing DEF CreateCall, Yield
      <4> HIDE DEF i
      <4>2. v # Null
        BY BuiltNotNull
      <4>3. k \in Nat /\ k <= Len(values)
        <5>1. k \in Nat
          BY <4>1, Here
        <5>2. count >= k
          BY <4>1, AtJob DEF DepthFits, here, count
        <5> HIDE DEF k
        <5>3. k <= count
          BY <1>0, <4>1, <5>1, <5>2
        <5> QED
          BY <5>1, <5>3 DEF count
      <4> HIDE DEF v, k
      <4> QED
        BY <4>1, <4>2, <4>3
    <3> QED
      BY <1>4, <3>1, <3>2
  <2>2. PICK k \in Nat : \E v : v # Null /\ Use(k, v) /\ k <= Len(values)
    BY <2>1
  <2>3. PICK v : v # Null /\ Use(k, v) /\ k <= Len(values)
    BY <2>2
  <2> QED
    BY <2>1, <2>3, UseOthers
<1>5. CASE Negate \/ Minus \/ CreateStore \/ CreateRet
  <2>1. Running /\ job.do \in {"NOT", "MINUS", "AssignSt", "ReturnSt"}
        /\ \E v : (v # Null \/ v = top) /\ Use(1, v)
    <3>1. CASE Negate
      <4> DEFINE v == Build("EQ", "i1", top, Zero(top.type)).value
      <4>1. Running /\ Use(1, v) /\ job.do = "NOT"
        BY <3>1, Doing DEF Negate
      <4>2. v # Null
        BY BuiltNotNull
      <4> HIDE DEF v
      <4> QED
        BY <4>1, <4>2
    <3>2. CASE Minus
      <4> DEFINE v == Build("MUL", top.type, top, MinusOne(top.type)).value
      <4>1. Running /\ Use(1, v) /\ job.do = "MINUS"
        BY <3>2, Doing DEF Minus, Yield
      <4>2. v # Null
        BY BuiltNotNull
      <4> HIDE DEF v
      <4> QED
        BY <4>1, <4>2
    <3>3. CASE CreateStore
      <4>1. Running /\ Use(1, top) /\ job.do = "AssignSt"
        BY <3>3, Doing DEF CreateStore, Yield
      <4> QED
        BY <4>1
    <3>4. CASE CreateRet
      <4>1. Running /\ Use(1, top) /\ job.do = "ReturnSt"
        BY <3>4, Doing DEF CreateRet, Yield
      <4> QED
        BY <4>1
    <3> QED
      BY <1>5, <3>1, <3>2, <3>3, <3>4
  <2>2. PICK v : (v # Null \/ v = top) /\ Use(1, v)
    BY <2>1
  <2>3. 1 \in Nat /\ 1 <= Len(values) /\ Len(values) > 0
    <3>1. count > 0 \/ count = 1
      BY <2>1, AtJob DEF DepthFits, count
    <3>2. 1 <= count /\ count > 0
      BY <1>0, <2>1, <3>1
    <3> QED
      BY <3>2 DEF count
  <2> QED
    BY <2>1, <2>2, <2>3, UseOthers
<1>6. CASE Branch \/ Statement
  <2>1. /\ Running /\ job.do \in {"IfSt", "statement"}
        /\ values' = SubSeq(values, 1, Len(values) - 1)
    BY <1>6, Doing DEF Branch, Statement
  <2>2. Len(values) > 0
    <3>1. count = 1
      BY <2>1, AtJob DEF DepthFits, count
    <3>2. count > 0
      BY <3>1
    <3> QED
      BY <3>2 DEF count
  <2> QED
    BY <2>1, <2>2, DropNulls
<1>7. CASE Merge
  <2>1. /\ Running /\ job.do \in {"else", "merge"}
        /\ \/ values' = SubSeq(values, 1, Len(values) - 1)
           \/ Use(1, Label(job.goOnIn))
    BY <1>7, Doing DEF Merge
  <2>2. Len(values) > 0 /\ 1 \in Nat /\ 1 <= Len(values)
    <3>1. count = 1
      BY <2>1, AtJob DEF DepthFits, Jumps, count
    <3>2. count > 0 /\ 1 <= count
      BY <3>1
    <3> QED
      BY <3>2 DEF count
  <2>3. Label(job.goOnIn) # Null
    BY DEF Label, Null
  <2>4. CASE values' = SubSeq(values, 1, Len(values) - 1)
    BY <2>1, <2>2, <2>4, DropNulls
  <2>5. CASE Use(1, Label(job.goOnIn))
    BY <2>1, <2>2, <2>3, <2>5, UseOthers
  <2> QED
    BY <2>1, <2>4, <2>5
<1>8. CASE EndBlock
  <2> DEFINE v == GetInsertBlock.value
  <2>1. Running /\ job.do = "Block" /\ Use(0, v)
    BY <1>8, Doing DEF EndBlock, Yield
  <2>2. v # Null
    <3>1. functions # <<>>
      BY <2>1, AtJob DEF JobFits, Early
    <3>2. insertBlock # 0
      BY <3>1 DEF CodeInv, Place
    <3> QED
      BY <3>2 DEF GetInsertBlock, Label, Null
  <2> HIDE DEF v
  <2>3. 0 \in Nat /\ 0 <= Len(values)
    BY <1>0, <2>1 DEF count
  <2> QED
    BY <2>1, <2>2, <2>3, UseOthers
<1> QED
  BY <1>1, <1>2, <1>3, <1>4, <1>5, <1>6, <1>7, <1>8 DEF CodegenNext, Stops

-----------------------------------------------------------------------------
(* What the analysis has found out.                                          *)

\* Below a call no node has a symbol.
ArgsBare == \A m \in Arguments : symbolOf[m] = NoSymbol

LEMMA BareAtFirst ==
  ASSUME TypeOK, Init
  PROVE  ArgsBare
<1>1. Arguments \subseteq DOMAIN tree
  BY SubtreeOrder DEF Arguments, TypeOK
<1> QED
  BY <1>1 DEF ArgsBare, Init

LEMMA BareStep ==
  ASSUME TypeOK, ScopingInv, ArgsBare, [Next]_vars
  PROVE  ArgsBare'
<1>1. tree' = tree /\ Arguments' = Arguments
  <2>1. tree' = tree
    BY NextKeepsTree DEF vars
  <2> QED
    BY <2>1, SameTree
<1>2. CASE symbolOf' = symbolOf
  BY <1>1, <1>2 DEF ArgsBare
<1>3. CASE AnalyzeVarDecl \/ AnalyzeFnParam \/ AnalyzeVariable
  <2>1. work # <<>> /\ node.kind # "Root"
        /\ \E symbol : symbolOf' = [symbolOf EXCEPT ![n] = symbol]
    BY <1>3 DEF AnalyzeVarDecl, AnalyzeFnParam, AnalyzeVariable, Analyze
  <2>2. scopes # <<>>
    <3> SUFFICES ASSUME scopes = <<>> PROVE FALSE
      OBVIOUS
    <3>1. work = <<[node |-> 1, scope |-> 0]>>
      <4>1. CASE work \in Seq([node : 2 .. Len(tree), scope : DOMAIN scopes])
        <5>1. work[1] \in [node : 2 .. Len(tree), scope : DOMAIN scopes]
          BY <2>1, <4>1
        <5>2. DOMAIN scopes = {}
          OBVIOUS
        <5> QED
          BY <5>1, <5>2
      <4> QED
        BY <4>1 DEF TypeOK
    <3>2. n = 1
      BY <3>1 DEF n
    <3> QED
      BY <2>1, <3>2, TreeShape DEF node, TypeOK
  <2>3. n \notin Arguments
    <3>1. PICK B : UnderWay(B, work, scopes, symbolOf)
      BY <2>2 DEF ScopingInv
    <3> QED
      BY <2>1, <2>2, <3>1, AtNode
  <2>4. \A m \in Arguments : symbolOf'[m] = symbolOf[m]
    BY <2>1, <2>3 DEF TypeOK
  <2> QED
    BY <1>1, <2>4 DEF ArgsBare
<1> QED
  BY <1>2, <1>3 DEF Next, vars, AnalyzeRoot, AnalyzeFnDef, AnalyzeBlock, AnalyzeIfSt,
                    AnalyzeFnCallExpr, AnalyzeOperands, AnalyzeLiteral,
                    RefuseDeclaration, RefuseVariable, RefuseCall, Finish, fatalSemaError

\* What holds of a tree that was analysed.
Resolved ==
  /\ \A m \in DOMAIN tree \ Arguments :
       /\ Correct(m)
       /\ tree[m].kind \in {"AssignSt", "VarExpr"} => Variables(m) = {symbolOf[m].declaredAt}
  /\ \A m \in DOMAIN tree : \A d, e \in Visible(m) : d = e
  /\ ArgsBare

LEMMA AnalysedIsResolved ==
  ASSUME TypeOK, ScopingInv, ArgsBare, status = "analysed"
  PROVE  Resolved
<1>1. work = <<>> /\ scopes # <<>> /\ WellFormed(tree)
  BY DEF ScopingInv, TypeOK
<1>2. PICK B : UnderWay(B, work, scopes, symbolOf)
  BY <1>1 DEF ScopingInv
<1>3. SettledBefore(Len(tree) + 1, symbolOf)
  BY <1>1, <1>2 DEF UnderWay, Position
<1>4. ASSUME NEW m \in DOMAIN tree
      PROVE  SettledBefore(m, symbolOf)
  <2>1. \A k \in 2 .. m - 1 : k \in 2 .. (Len(tree) + 1) - 1
    BY <1>1, TreeShape
  <2> QED
    BY <1>3, <2>1 DEF SettledBefore
<1>5. \A m \in DOMAIN tree : \A d, e \in Visible(m) : d = e
  BY <1>1, <1>4, OneVisible
<1>6. ResolvesStatically
  BY ResolvedAtTheEnd
<1>7. Wrong = {}
  BY <1>6 DEF ResolvesStatically
<1> QED
  BY <1>5, <1>6, <1>7 DEF Resolved, ResolvesStatically, Wrong

-----------------------------------------------------------------------------
(* Why the generation ends.                                                  *)

\* An assertion fails at a variable below a call.
LEMMA AssertCause ==
  ASSUME Running, Resolved, AssertSymbol
  PROVE  \E m \in Arguments : tree[m].kind = "VarExpr"
<1> DEFINE m == job.node
<1>1. m \in DOMAIN tree /\ tree[m].kind = "VarExpr" /\ symbolOf[m] = NoSymbol
  BY AtJob DEF AssertSymbol, Generate, here, symbolThere
<1>2. ASSUME m \notin Arguments PROVE FALSE
  <2>1. Variables(m) = {0}
    BY <1>1, <1>2 DEF Resolved, NoSymbol
  <2>2. 0 \in DOMAIN tree
    BY <2>1 DEF Variables, Visible, Declarations
  <2> QED
    BY <2>2, TreeShape DEF Running, TypeOK
<1> QED
  BY <1>1, <1>2

LEMMA ExpressionsSeen ==
  ASSUME WellFormed(tree), Resolved, NEW m \in DOMAIN tree,
         tree[m].kind \in {"AssignSt", "VarExpr"}, symbolOf[m] # NoSymbol
  PROVE  /\ m \notin Arguments
         /\ Variables(m) = {symbolOf[m].declaredAt} /\ Visible(m) = {symbolOf[m].declaredAt}
         /\ symbolOf[m].declaredAt \in Storage /\ symbolOf[m].declaredAt < m
<1> DEFINE d == symbolOf[m].declaredAt
<1>1. m \notin Arguments
  BY DEF Resolved, ArgsBare
<1>2. Variables(m) = {d}
  BY <1>1 DEF Resolved
<1>3. d \in Visible(m) /\ tree[d].kind # "FnDef"
  BY <1>2 DEF Variables
<1>4. d \in DOMAIN tree /\ tree[d].kind \in {"VarDecl", "FnParam", "FnDef"} /\ d < m
  BY <1>3 DEF Visible, Declarations
<1>5. d \in Storage
  BY <1>3, <1>4 DEF Storage, Of
<1>6. Visible(m) = {d}
  BY <1>3 DEF Resolved
<1> QED
  BY <1>1, <1>2, <1>4, <1>5, <1>6

\* A variable that is not allocated where it is used is used in its initial value.
LEMMA UnallocatedCause ==
  ASSUME Running, Resolved, RefuseUnallocated,
         NEW c \in 1 .. Len(tree) + 1, Progress(c, todo, functions, allocated)
  PROVE  InitialisesWithItself
<1> DEFINE m == job.node
           d == symbolOf[m].declaredAt
<1>1. /\ m \in DOMAIN tree /\ tree[m].kind \in {"AssignSt", "VarExpr"}
      /\ symbolOf[m] # NoSymbol /\ allocated[d] = 0 /\ job.do = "generate"
      /\ todo \in Seq(Jobs(tree)) /\ todo # <<>> /\ job = todo[1] /\ WellFormed(tree)
      /\ 1 \in DOMAIN todo
  BY AtJob DEF RefuseUnallocated, Generate, Do, here, symbolThere, Running, TypeOK
<1>2. /\ Variables(m) = {d} /\ d \in Storage /\ d < m
  BY <1>1, ExpressionsSeen
<1>3. m = c
  BY <1>1, CursorHere DEF Progress
<1> HIDE DEF d
<1>4. PICK k \in DOMAIN todo : todo[k].do = "VarDecl" /\ todo[k].node = d
  BY <1>1, <1>2, <1>3 DEF Progress, Allocates
<1>5. k # 1 /\ k \in Nat /\ k > 0
  BY <1>1, <1>4
<1>6. 1 < k
  BY <1>5
<1>7. MayPrecede(job, d)
  BY <1>1, <1>4, <1>6 DEF Progress, Initialising
<1>8. m \in Subtree(d) /\ tree[m].kind = "VarExpr"
  BY <1>1, <1>7 DEF MayPrecede, ExpressionKinds, Literals, Operations
<1>9. tree[d].kind = "VarDecl"
  <2>1. JobFits(tree, functions, blocks, todo[k])
    BY <1>1, <1>4 DEF Running, CodeInv, Generating, TodoInv
  <2> QED
    BY <1>4, <2>1 DEF JobFits, About
<1>10. d \in DOMAIN tree /\ d # m
  BY <1>1, <1>2, TreeShape DEF Storage, Of
<1>11. d \in Around(m, {"VarDecl"})
  BY <1>8, <1>9, <1>10 DEF Around, Of
<1>12. m \in Of({"VarExpr"})
  BY <1>1, <1>8 DEF Of
<1> QED
  BY <1>2, <1>11, <1>12 DEF InitialisesWithItself

\* A function that is not there is called below a call.
LEMMA CalleeCause ==
  ASSUME Running, Resolved, RefuseCallee,
         NEW c \in 1 .. Len(tree) + 1, Progress(c, todo, functions, allocated)
  PROVE  \E m \in Arguments : ~Correct(m)
<1> DEFINE m == job.node
<1>1. /\ m \in DOMAIN tree /\ tree[m].kind = "FnCallExpr" /\ job.do = "generate"
      /\ named(tree[m].name) = {}
      /\ todo \in Seq(Jobs(tree)) /\ todo # <<>> /\ job = todo[1] /\ WellFormed(tree)
  BY AtJob DEF RefuseCallee, Generate, Do, here, Running, TypeOK
<1>2. m = c
  BY <1>1, CursorHere DEF Progress
<1>3. ASSUME Correct(m) PROVE FALSE
  <2>1. PICK f \in Functions(m) : TRUE
    <3>1. m \notin Declarations
      BY <1>1 DEF Declarations
    <3> QED
      BY <1>1, <1>3, <3>1 DEF Correct
  <2>2. /\ f \in DOMAIN tree /\ tree[f].kind = "FnDef" /\ f < m
        /\ tree[f].name = tree[m].name
    BY DEF Functions, Variables, Visible, Declarations
  <2>3. PICK g \in DOMAIN functions : functions[g] = Signature(f)
    BY <1>2, <2>2 DEF Progress, Knows, Of
  <2>4. functions[g].name = tree[m].name
    BY <2>2, <2>3 DEF Signature
  <2>5. g \in named(tree[m].name)
    BY <2>4 DEF named
  <2> QED
    BY <1>1, <2>5
<1> QED
  BY <1>1, <1>3 DEF Resolved

\* A null pointer is refused only where a value is left out before any function.
LEMMA NullCause ==
  ASSUME Running, NullsFor(values), fatalCodegenError
  PROVE  LacksGlobalValue
<1> DEFINE count == Len(values)
<1>1. \E what \in {"VarDecl", "statement", "AssignSt", "IfSt", "else", "merge"} :
        job.do = what
  BY DEF fatalCodegenError, Do
<1>2. count = 1 /\ DOMAIN values = 1 .. count
  BY <1>1, AtJob DEF DepthFits, Jumps
<1>3. count \in DOMAIN values
  BY <1>2
<1>4. values[count] = Null
  BY DEF fatalCodegenError, top
<1> HIDE DEF count
<1> QED
  BY <1>3, <1>4 DEF NullsFor

\* A variable is declared where there is no block only outside of functions.
LEMMA NowhereCause ==
  ASSUME Running, DeclareNowhere,
         NEW c \in 1 .. Len(tree) + 1, Progress(c, todo, functions, allocated)
  PROVE  HasGlobalVariable
<1> DEFINE m == job.node
<1>1. /\ m \in DOMAIN tree /\ job.do = "VarDecl" /\ insertBlock = 0
      /\ 1 \in DOMAIN todo /\ job = todo[1] /\ WellFormed(tree)
      /\ About(tree, job)
  BY AtJob DEF DeclareNowhere, Do, Running, TypeOK, JobFits
<1>2. functions = <<>>
  BY <1>1 DEF Running, CodeInv, Place
<1>3. m < c
  BY <1>1 DEF Progress, OnItsWay
<1>4. tree[m].kind = "VarDecl"
  BY <1>1 DEF About
<1>5. m # 1
  BY <1>1, <1>4, TreeShape
<1>6. Knows(c, <<>>) /\ c \in Int
  BY <1>1, <1>2, TreeShape DEF Progress
<1> QED
  BY <1>1, <1>3, <1>5, <1>6, FirstIsVariable DEF Running

\* In the end every function has been generated.
LEMMA EndCause ==
  ASSUME Running, EndRoot,
         NEW c \in 1 .. Len(tree) + 1, Progress(c, todo, functions, allocated)
  PROVE  /\ outcome' \in {"generated", "no_main"}
         /\ outcome' = "no_main" <=> mains = {}
<1>1. /\ job.do = "Root" /\ job = todo[1] /\ WellFormed(tree) /\ Linked(tree, todo)
      /\ 1 \in DOMAIN todo /\ outcome' = IF named("main") = {} THEN "no_main" ELSE "generated"
  BY AtJob DEF EndRoot, Stop, Do, Running, TypeOK
<1>2. /\ Len(tree) \in Nat /\ DOMAIN tree = 1 .. Len(tree)
      /\ \A k \in 2 .. Len(tree) : Parent(k) \in 1 .. k - 1
  BY <1>1, TreeShape
<1>3. 1 = Len(todo) /\ DOMAIN todo = {1}
  <2>1. 1 = Len(todo)
    BY <1>1 DEF Linked, IsRoot
  <2>2. DOMAIN todo = 1 .. Len(todo)
    BY AtJob, LenProperties
  <2>3. 1 .. 1 = {1}
    OBVIOUS
  <2> QED
    BY <2>1, <2>2, <2>3
<1>4. ToCome(todo) = {}
  BY <1>1, <1>3 DEF ToCome, Comes
<1>5. c \notin 1 .. Len(tree)
  <2> SUFFICES ASSUME c \in 1 .. Len(tree) PROVE FALSE
    OBVIOUS
  <2>1. c \in c .. Len(tree) /\ (c = 1 \/ c \in 2 .. Len(tree))
    BY <1>2
  <2>2. c \in 2 .. Len(tree) => Parent(c) < c
    BY <1>2
  <2>3. c \in Coming(c)
    BY <2>1, <2>2 DEF Coming
  <2> QED
    BY <1>4, <2>3 DEF Progress, OnItsWay
<1>6. \A f \in DOMAIN tree : f < c
  BY <1>2, <1>5
<1>7. ASSUME NEW f \in mains PROVE named("main") # {}
  <2>1. f \in Of({"FnDef"}) /\ f \in DOMAIN tree /\ tree[f].name = "main"
    BY DEF mains, Of
  <2>2. PICK g \in DOMAIN functions : functions[g] = Signature(f)
    BY <1>6, <2>1 DEF Progress, Knows
  <2>3. functions[g].name = "main"
    BY <2>1, <2>2 DEF Signature
  <2> QED
    BY <2>3 DEF named
<1>8. ASSUME NEW g \in named("main") PROVE mains # {}
  <2>1. g \in DOMAIN functions /\ functions[g].name = "main"
    BY DEF named
  <2>2. PICK f \in Of({"FnDef"}) : functions[g] = Signature(f)
    BY <2>1 DEF Progress, Knows
  <2>3. tree[f].name = "main"
    BY <2>1, <2>2 DEF Signature
  <2> QED
    BY <2>3 DEF mains
<1>9. named("main") = {} <=> mains = {}
  BY <1>7, <1>8
<1> QED
  BY <1>1, <1>9

-----------------------------------------------------------------------------
(* The types of expressions.                                                 *)

\* The type of m, when f gives those of the nodes below it.
TypeStep(m, f) ==
  IF tree[m].kind \notin Operations THEN TypeOfOperand(m)
  ELSE IF Negated(m) THEN "i1"
  ELSE f[tree[m].kids[1]]

SomeTypes == {"f32", "none", "i1", "i32"}

LEMMA FirstBelow ==
  ASSUME WellFormed(tree), Generable, NEW m \in DOMAIN tree, tree[m].kind \in Operations
  PROVE  tree[m].kids[1] \in DOMAIN tree /\ m < tree[m].kids[1]
<1> DEFINE kids == tree[m].kids
<1>1. Len(kids) \in Nat /\ DOMAIN kids = 1 .. Len(kids)
  BY KidsInOrder
<1>2. Len(kids) > 0
  <2>1. CanBeGenerated(tree, m)
    BY DEF Generable
  <2>2. tree[m].kind \in Chains \cup {"PrefixExpr"}
    BY DEF Operations, Chains
  <2>3. Len(kids) > 1 \/ Len(kids) = 1
    BY <2>1, <2>2 DEF CanBeGenerated
  <2> HIDE DEF kids
  <2> QED
    BY <1>1, <2>3
<1>3. 1 \in DOMAIN kids
  <2> HIDE DEF kids
  <2> QED
    BY <1>1, <1>2
<1>4. kids[1] \in Kids(m)
  BY <1>3 DEF Kids, ChildrenOf
<1>5. kids[1] \in m + 1 .. Len(tree) /\ Len(tree) \in Nat /\ DOMAIN tree = 1 .. Len(tree)
      /\ m \in 1 .. Len(tree)
  BY <1>4, TreeShape
<1> HIDE DEF kids
<1>6. kids[1] \in 1 .. Len(tree) /\ m < kids[1]
  BY <1>5
<1> QED
  BY <1>5, <1>6 DEF kids

LEMMA OperandTypes ==
  ASSUME NEW m
  PROVE  /\ TypeOfOperand(m) \in SomeTypes
         /\ tree[m].kind = "FloatExpr" => TypeOfOperand(m) = "f32"
         /\ tree[m].kind \in {"VarExpr", "FnCallExpr"} /\ Visible(m) # {} =>
              TypeOfOperand(m) = TypeOfDeclaration(Declared(m))
         /\ tree[m].kind \in {"IntegerExpr", "BoolExpr"} => TypeOfOperand(m) = "i32"
<1> DEFINE kind == tree[m].kind
           seen == IF Visible(m) = {} THEN "none" ELSE TypeOfDeclaration(Declared(m))
<1>1. TypeOfOperand(m) = CASE kind = "FloatExpr" -> "f32"
                           [] kind \in {"VarExpr", "FnCallExpr"} -> seen
                           [] OTHER -> "i32"
  BY DEF TypeOfOperand
<1>2. \A d : TypeOfDeclaration(d) \in SomeTypes
  BY DEF TypeOfDeclaration, toLLVMType, SomeTypes
<1>3. seen \in SomeTypes /\ {"f32", "i32"} \subseteq SomeTypes
  BY <1>2 DEF SomeTypes
<1>4. Visible(m) # {} => seen = TypeOfDeclaration(Declared(m))
  OBVIOUS
<1> HIDE DEF kind, seen, SomeTypes
<1>5. TypeOfOperand(m) \in SomeTypes
  BY <1>1, <1>3
<1>6. kind = "FloatExpr" => TypeOfOperand(m) = "f32"
  BY <1>1
<1>7. kind \in {"VarExpr", "FnCallExpr"} => TypeOfOperand(m) = seen
  BY <1>1
<1>8. kind \in {"IntegerExpr", "BoolExpr"} => TypeOfOperand(m) = "i32"
  BY <1>1
<1> QED
  BY <1>4, <1>5, <1>6, <1>7, <1>8 DEF kind

LEMMA TypeStepTypes ==
  ASSUME WellFormed(tree), Generable, NEW f \in [DOMAIN tree -> SomeTypes],
         NEW m \in DOMAIN tree
  PROVE  TypeStep(m, f) \in SomeTypes
<1>1. tree[m].kind \in Operations => f[tree[m].kids[1]] \in SomeTypes
  BY FirstBelow
<1>2. TypeOfOperand(m) \in SomeTypes /\ "i1" \in SomeTypes
  BY OperandTypes DEF SomeTypes
<1> QED
  BY <1>1, <1>2 DEF TypeStep

\* Nodes with the same type below them have the same type.
LEMMA TypeStepSame ==
  ASSUME NEW m \in DOMAIN tree, NEW f, NEW g,
         tree[m].kind \in Operations => f[tree[m].kids[1]] = g[tree[m].kids[1]]
  PROVE  TypeStep(m, f) = TypeStep(m, g)
BY DEF TypeStep

LEMMA TypeOfChosen == TypeOf = CHOOSE h : h = [m \in DOMAIN tree |-> TypeStep(m, h)]
BY Zenon DEF TypeOf, TypeStep

\* A function on the natural numbers given by its first value and the steps from
\* each to the next.
Unfolds(f, a, step) == f[0] = a /\ \A k \in Nat : f[k + 1] = step[<<k, f[k]>>]

LEMMA Recursion ==
  ASSUME NEW S, NEW a \in S, NEW step \in [Nat \X S -> S]
  PROVE  \E f \in [Nat -> S] : Unfolds(f, a, step)
<1> USE DEF Unfolds
<1> DEFINE UpTo(k, g) == /\ g \in [0 .. k -> S] /\ g[0] = a
                         /\ \A j \in 0 .. k - 1 : g[j + 1] = step[<<j, g[j]>>]
<1>1. ASSUME NEW k \in Nat, NEW g, UpTo(k, g), NEW l \in Nat, NEW h, UpTo(l, h),
             NEW j \in 0 .. k, j \in 0 .. l
      PROVE  g[j] = h[j]
  <2> DEFINE Bad == {i \in Nat : i <= k /\ i <= l /\ g[i] # h[i]}
  <2>1. SUFFICES ASSUME Bad # {} PROVE FALSE
    BY <1>1
  <2>2. PICK i \in Bad : \A x \in Bad : i <= x
    <3>1. Bad \in SUBSET Nat
      OBVIOUS
    <3> HIDE DEF Bad
    <3> QED
      BY <2>1, <3>1, LeastOfNaturals
  <2>3. i # 0
    BY <1>1, <2>2
  <2>4. i - 1 \in Nat /\ i - 1 \notin Bad
    BY <2>2, <2>3
  <2>5. g[i - 1] = h[i - 1]
    BY <2>2, <2>4
  <2>6. i - 1 \in 0 .. k - 1 /\ i - 1 \in 0 .. l - 1 /\ i - 1 + 1 = i
    BY <1>1, <2>2, <2>3
  <2>7. g[i] = step[<<i - 1, g[i - 1]>>] /\ h[i] = step[<<i - 1, h[i - 1]>>]
    BY <1>1, <2>6
  <2> QED
    BY <2>2, <2>5, <2>7
<1>2. \A k \in Nat : \E g : UpTo(k, g)
  <2> DEFINE Bad == {k \in Nat : ~\E g : UpTo(k, g)}
  <2>1. SUFFICES ASSUME Bad # {} PROVE FALSE
    OBVIOUS
  <2>2. PICK i \in Bad : \A x \in Bad : i <= x
    <3>1. Bad \in SUBSET Nat
      OBVIOUS
    <3> HIDE DEF Bad
    <3> QED
      BY <2>1, <3>1, LeastOfNaturals
  <2>3. CASE i = 0
    <3> DEFINE g == [j \in 0 .. 0 |-> a]
    <3>1. UpTo(0, g)
      OBVIOUS
    <3> QED
      BY <2>2, <2>3, <3>1
  <2>4. CASE i # 0
    <3> DEFINE p == i - 1
    <3>1. p \in Nat /\ p + 1 = i /\ p \notin Bad
      BY <2>2, <2>4
    <3>2. PICK g : UpTo(p, g)
      BY <3>1
    <3> DEFINE h == [j \in 0 .. i |-> IF j = i THEN step[<<p, g[p]>>] ELSE g[j]]
    <3> HIDE DEF p
    <3>3. p \in 0 .. p /\ \A j \in 0 .. i : j # i => j \in 0 .. p
      BY <3>1
    <3>4. g[p] \in S /\ step[<<p, g[p]>>] \in S
      BY <3>1, <3>2, <3>3
    <3>5. h \in [0 .. i -> S]
      BY <3>2, <3>3, <3>4
    <3>6. h[0] = a
      BY <2>4, <3>1, <3>2
    <3>7. ASSUME NEW j \in 0 .. i - 1 PROVE h[j + 1] = step[<<j, h[j]>>]
      <4>1. h[j] = g[j] /\ j \in 0 .. p /\ j + 1 \in 0 .. i
        BY <3>1, <3>7
      <4>2. CASE j = p
        BY <3>1, <4>1, <4>2
      <4>3. CASE j # p
        <5>1. j \in 0 .. p - 1 /\ j + 1 # i
          BY <3>1, <4>1, <4>3
        <5> QED
          BY <3>2, <4>1, <5>1
      <4> QED
        BY <4>2, <4>3
    <3>8. UpTo(i, h)
      BY <3>5, <3>6, <3>7
    <3> QED
      BY <2>2, <3>8
  <2> QED
    BY <2>3, <2>4
<1> DEFINE part(k) == CHOOSE g : UpTo(k, g)
           f == [k \in Nat |-> part(k)[k]]
<1>3. \A k \in Nat : UpTo(k, part(k))
  BY <1>2
<1>4. ASSUME NEW k \in Nat
      PROVE  /\ part(k)[k] \in S
             /\ part(k + 1)[k] = part(k)[k]
             /\ part(k + 1)[k + 1] = step[<<k, part(k + 1)[k]>>]
             /\ part(0)[0] = a
  <2>1. k + 1 \in Nat /\ k \in 0 .. k /\ k \in 0 .. k + 1 /\ k \in 0 .. (k + 1) - 1
    OBVIOUS
  <2>2. UpTo(k, part(k)) /\ UpTo(k + 1, part(k + 1)) /\ UpTo(0, part(0))
    BY <1>3, <2>1
  <2> HIDE DEF part
  <2>3. part(k + 1)[k] = part(k)[k]
    <3> HIDE DEF UpTo
    <3> QED
      BY <1>1, <2>1, <2>2
  <2> QED
    BY <2>1, <2>2, <2>3
<1>5. f \in [Nat -> S]
  BY <1>4
<1>6. f[0] = a /\ \A k \in Nat : f[k + 1] = step[<<k, f[k]>>]
  <2>1. \A k \in Nat : f[k] = part(k)[k]
    OBVIOUS
  <2>2. \A k \in Nat : k + 1 \in Nat
    OBVIOUS
  <2> HIDE DEF part, f
  <2>3. f[0] = a
    BY <1>4, <2>1
  <2>4. ASSUME NEW k \in Nat PROVE f[k + 1] = step[<<k, f[k]>>]
    <3>1. f[k + 1] = part(k + 1)[k + 1] /\ f[k] = part(k)[k]
      BY <2>1, <2>2
    <3>2. part(k + 1)[k + 1] = step[<<k, part(k)[k]>>]
      BY <1>4
    <3> QED
      BY <3>1, <3>2
  <2> QED
    BY <2>3, <2>4
<1> HIDE DEF f
<1> QED
  BY <1>5, <1>6

LEMMA TypeOfUnfolds ==
  ASSUME WellFormed(tree), Generable, NEW m \in DOMAIN tree
  PROVE  TypeOf[m] = TypeStep(m, TypeOf)
<1> DEFINE S == [DOMAIN tree -> SomeTypes]
           a == [k \in DOMAIN tree |-> "i32"]
           down(f) == [k \in DOMAIN tree |-> TypeStep(k, f)]
           stepping == [p \in Nat \X S |-> down(p[2])]
           N == Len(tree)
<1>1. N \in Nat /\ DOMAIN tree = 1 .. N
  BY TreeShape
<1>2. a \in S
  BY DEF SomeTypes
<1>3. \A f \in S : down(f) \in S
  BY TypeStepTypes
<1>4. stepping \in [Nat \X S -> S]
  BY <1>3
<1>5. \E g \in [Nat -> S] : Unfolds(g, a, stepping)
  <2> HIDE DEF S, a, stepping
  <2> QED
    BY <1>2, <1>4, Recursion
<1>6. PICK g \in [Nat -> S] : Unfolds(g, a, stepping)
  BY <1>5
<1>7. ASSUME NEW k \in Nat PROVE g[k] \in S /\ g[k + 1] = down(g[k])
  <2>1. g[k + 1] = stepping[<<k, g[k]>>]
    BY <1>6 DEF Unfolds
  <2>2. g[k] \in S /\ <<k, g[k]>> \in Nat \X S
    OBVIOUS
  <2> QED
    BY <2>1, <2>2
<1>8. ASSUME NEW k \in Nat, NEW j \in DOMAIN tree, N < j + k
      PROVE  g[k + 1][j] = g[k][j]
  <2> DEFINE Bad == {i \in Nat : \E l \in DOMAIN tree : N < l + i /\ g[i + 1][l] # g[i][l]}
  <2>1. SUFFICES ASSUME Bad # {} PROVE FALSE
    BY <1>8
  <2>2. PICK i \in Bad : \A x \in Bad : i <= x
    <3>1. Bad \in SUBSET Nat
      OBVIOUS
    <3> HIDE DEF Bad
    <3> QED
      BY <2>1, <3>1, LeastOfNaturals
  <2>3. PICK l \in DOMAIN tree : N < l + i /\ g[i + 1][l] # g[i][l]
    BY <2>2
  <2>4. i \in Nat /\ l \in 1 .. N
    BY <1>1, <2>2
  <2>5. i # 0
    BY <1>1, <2>3, <2>4
  <2>6. i - 1 \in Nat /\ (i - 1) + 1 = i /\ ~(i <= i - 1)
    BY <2>4, <2>5
  <2>7. i - 1 \notin Bad
    BY <2>2, <2>6
  <2> HIDE DEF down, S
  <2>8. g[i] = down(g[i - 1]) /\ g[i + 1] = down(g[i])
    BY <1>7, <2>4, <2>6
  <2> USE DEF down
  <2>9. ASSUME tree[l].kind \in Operations
        PROVE  g[i][tree[l].kids[1]] = g[i - 1][tree[l].kids[1]]
    <3> DEFINE first == tree[l].kids[1]
    <3>1. first \in DOMAIN tree /\ l < first
      BY <2>9, FirstBelow
    <3> HIDE DEF first
    <3>2. first \in Nat
      BY <1>1, <3>1
    <3>3. N < first + (i - 1)
      BY <1>1, <2>3, <2>4, <3>1, <3>2
    <3>4. g[(i - 1) + 1][first] = g[i - 1][first]
      BY <2>6, <2>7, <3>1, <3>3
    <3> QED
      BY <2>6, <3>4 DEF first
  <2>10. TypeStep(l, g[i]) = TypeStep(l, g[i - 1])
    BY <2>9, TypeStepSame
  <2> QED
    BY <2>3, <2>8, <2>10
<1> DEFINE f == g[N]
<1>9. f = [k \in DOMAIN tree |-> TypeStep(k, f)]
  <2>1. f \in S /\ g[N + 1] = down(f)
    BY <1>1, <1>7
  <2>2. ASSUME NEW k \in DOMAIN tree PROVE f[k] = down(f)[k]
    <3>1. N < k + N
      BY <1>1
    <3> HIDE DEF down, S
    <3>2. g[N + 1][k] = g[N][k]
      BY <1>1, <1>8, <3>1
    <3> QED
      BY <2>1, <3>2
  <2>3. f = [k \in DOMAIN tree |-> f[k]]
    BY <2>1
  <2> HIDE DEF f
  <2> QED
    BY <2>2, <2>3
<1> HIDE DEF f
<1>10. TypeOf = CHOOSE h : h = [k \in DOMAIN tree |-> TypeStep(k, h)]
  BY TypeOfChosen
<1>11. TypeOf = [k \in DOMAIN tree |-> TypeStep(k, TypeOf)]
  <2> DEFINE P(h) == h = [k \in DOMAIN tree |-> TypeStep(k, h)]
  <2>1. P(f) /\ TypeOf = CHOOSE h : P(h)
    BY <1>9, <1>10
  <2> HIDE DEF P
  <2>2. P(CHOOSE h : P(h))
    BY <2>1
  <2>3. P(TypeOf)
    BY <2>1, <2>2
  <2> QED
    BY <2>3 DEF P
<1> QED
  BY <1>11

LEMMA TypesOfKinds ==
  ASSUME WellFormed(tree), Generable, NEW m \in DOMAIN tree
  PROVE  /\ tree[m].kind \notin Operations => TypeOf[m] = TypeOfOperand(m)
         /\ tree[m].kind \in Chains => TypeOf[m] = TypeOf[tree[m].kids[1]]
         /\ tree[m].kind = "PrefixExpr" =>
              TypeOf[m] = IF \E k \in DOMAIN tree[m].ops : tree[m].ops[k] = "NOT"
                            THEN "i1" ELSE TypeOf[tree[m].kids[1]]
<1>1. TypeOf[m] = TypeStep(m, TypeOf)
  BY TypeOfUnfolds
<1>2. Chains \cup {"PrefixExpr"} = Operations /\ "PrefixExpr" \notin Chains
  BY DEF Chains, Operations
<1> QED
  BY <1>1, <1>2 DEF TypeStep, Negated

-----------------------------------------------------------------------------
(* The types of the values that wait.  A stack of n entries gives for each    *)
(* value the set of its type, or the empty set where nobody looks.            *)

\* The type that a step promises for its result.
Promise(j) ==
  IF IsOf(tree, j, Proper) \/ j.do = "call" THEN {TypeOf[j.node]}
  ELSE IF j.do = "NOT" THEN {"i1"}
  ELSE {}

\* How many of the n entries it leaves as they are.
Keeps(j, number) ==
  IF IsOf(tree, j, Kind \ {"Root"}) \/ j.do = "MINUS" THEN number
  ELSE IF j.do \in {"combine", "NOT"} THEN number - 1
  ELSE IF j.do = "call" THEN number - Len(tree[j.node].kids)
  ELSE 0

Stack(number, t) == [count |-> number, types |-> [i \in 1 .. number |-> t[i]]]

\* The stack after a step.
After(j, x) ==
  Stack(x.count + Gain(tree, j),
        [i \in 1 .. x.count + Gain(tree, j) |->
           IF i <= Keeps(j, x.count) THEN x.types[i] ELSE Promise(j)])

\* What the step needs: its operands, or its arguments.
Demands(j, x) ==
  /\ j.do = "combine" => /\ x.types[x.count - 1] = {TypeOf[tree[j.node].kids[1]]}
                         /\ \E k \in Kids(j.node) : x.types[x.count] = {TypeOf[k]}
  /\ j.do = "call" => \A i \in DOMAIN tree[j.node].kids :
       x.types[(x.count - Len(tree[j.node].kids)) + i] = {TypeOf[tree[j.node].kids[i]]}

\* y gives the stack before each of the steps s.
Typed(s, y) ==
  \A k \in DOMAIN s : /\ Demands(s[k], y[k])
                      /\ k + 1 \in DOMAIN s => y[k + 1] = After(s[k], y[k])

Holds(x, vs) ==
  /\ x.count = Len(vs)
  /\ \A i \in 1 .. x.count : x.types[i] \subseteq {vs[i].type}

TypesFit(s, vs) == \E y : Typed(s, y) /\ Holds(y[1], vs)

\* A step gives way to the steps js, which leave the stack as it would.
LEMMA TypesOn ==
  ASSUME NEW s, NEW js, IsSeq(js), js # <<>>, NEW t, Joined(t, js, s),
         NEW y, Typed(s, y), NEW z, Typed(js, z),
         After(js[Len(js)], z[Len(js)]) = After(s[1], y[1]),
         NEW vs, Holds(z[1], vs)
  PROVE  TypesFit(t, vs)
<1> DEFINE a == Len(js)
<1>1. /\ \A k \in DOMAIN t :
              \/ k \in DOMAIN js /\ t[k] = js[k]
              \/ \E l \in DOMAIN s : l > 1 /\ k = a + (l - 1) /\ t[k] = s[l]
      /\ \A k \in DOMAIN js : k \in DOMAIN t /\ t[k] = js[k]
      /\ \A l \in DOMAIN s : l > 1 => a + (l - 1) \in DOMAIN t /\ t[a + (l - 1)] = s[l]
      /\ a \in Nat /\ DOMAIN js = 1 .. a
      /\ DOMAIN s \subseteq Nat \ {0} /\ 1 \in DOMAIN s
  BY DEF Joined
<1>2. After(js[a], z[a]) = After(s[1], y[1])
  OBVIOUS
<1> DEFINE w == [k \in Nat |-> IF k <= a THEN z[k] ELSE y[(k - a) + 1]]
<1>3. \A k \in Nat : w[k] = IF k <= a THEN z[k] ELSE y[(k - a) + 1]
  OBVIOUS
<1> HIDE DEF a, w
<1>4. ASSUME NEW k \in DOMAIN js
      PROVE  w[k] = z[k] /\ k \in Nat
  BY <1>1, <1>3
<1>5. ASSUME NEW l \in DOMAIN s, l > 1
      PROVE  w[a + (l - 1)] = y[l]
  <2>1. a + (l - 1) \in Nat /\ ~(a + (l - 1) <= a) /\ ((a + (l - 1)) - a) + 1 = l
    BY <1>1, <1>5
  <2> QED
    BY <1>3, <2>1
<1>6. ASSUME NEW k \in DOMAIN t
      PROVE  Demands(t[k], w[k])
  <2>1. CASE k \in DOMAIN js /\ t[k] = js[k]
    BY <1>4, <2>1 DEF Typed
  <2>2. CASE \E l \in DOMAIN s : l > 1 /\ k = a + (l - 1) /\ t[k] = s[l]
    BY <1>5, <2>2 DEF Typed
  <2> QED
    BY <1>1, <2>1, <2>2
<1>7. ASSUME NEW k \in DOMAIN t, k + 1 \in DOMAIN t
      PROVE  w[k + 1] = After(t[k], w[k])
  <2>1. CASE k \in DOMAIN js /\ t[k] = js[k] /\ k + 1 \in DOMAIN js
    BY <1>4, <2>1 DEF Typed
  <2>2. CASE /\ k \in DOMAIN js /\ t[k] = js[k]
             /\ \E l \in DOMAIN s : l > 1 /\ k + 1 = a + (l - 1)
    <3>1. PICK l \in DOMAIN s : l > 1 /\ k + 1 = a + (l - 1)
      BY <2>2
    <3>2. k \in Nat /\ k <= a /\ l \in Nat /\ k > 0
      BY <1>1, <2>2
    <3>3. l = 2 /\ k = a
      BY <1>1, <3>1, <3>2
    <3>4. 1 + 1 \in DOMAIN s /\ w[k + 1] = y[2]
      BY <1>5, <3>1, <3>3
    <3>5. y[2] = After(s[1], y[1])
      BY <1>1, <3>4 DEF Typed
    <3> QED
      BY <1>2, <1>4, <2>2, <3>3, <3>4, <3>5
  <2>3. CASE /\ \E l \in DOMAIN s : l > 1 /\ k = a + (l - 1) /\ t[k] = s[l]
             /\ k + 1 \in DOMAIN js
    <3>1. PICK l \in DOMAIN s : l > 1 /\ k = a + (l - 1)
      BY <2>3
    <3>2. l \in Nat /\ k + 1 <= a
      BY <1>1, <2>3
    <3>3. FALSE
      BY <1>1, <3>1, <3>2
    <3> QED
      BY <3>3
  <2>4. CASE /\ \E l \in DOMAIN s : l > 1 /\ k = a + (l - 1) /\ t[k] = s[l]
             /\ \E l \in DOMAIN s : l > 1 /\ k + 1 = a + (l - 1)
    <3>1. PICK l \in DOMAIN s : l > 1 /\ k = a + (l - 1) /\ t[k] = s[l]
      BY <2>4
    <3>2. PICK i \in DOMAIN s : i > 1 /\ k + 1 = a + (i - 1)
      BY <2>4
    <3>3. l \in Nat /\ i \in Nat
      BY <1>1
    <3>4. i = l + 1
      BY <1>1, <3>1, <3>2, <3>3
    <3>5. w[k + 1] = y[l + 1] /\ w[k] = y[l]
      BY <1>5, <3>1, <3>2, <3>4
    <3> QED
      BY <3>1, <3>2, <3>4, <3>5 DEF Typed
  <2>5. \/ k \in DOMAIN js /\ t[k] = js[k]
        \/ \E l \in DOMAIN s : l > 1 /\ k = a + (l - 1) /\ t[k] = s[l]
    BY <1>1
  <2>6. k + 1 \in DOMAIN js \/ \E l \in DOMAIN s : l > 1 /\ k + 1 = a + (l - 1)
    BY <1>1, <1>7
  <2> QED
    BY <2>1, <2>2, <2>3, <2>4, <2>5, <2>6
<1>8. Typed(t, w)
  BY <1>6, <1>7 DEF Typed
<1>9. w[1] = z[1]
  <2>1. 1 \in DOMAIN js
    <3>1. 1 .. a # {}
      <4>1. Len(js) # 0
        BY EmptySeq DEF IsSeq
      <4> QED
        BY <1>1, <4>1 DEF a
    <3> QED
      BY <1>1, <3>1
  <2> QED
    BY <1>4, <2>1
<1> QED
  BY <1>8, <1>9 DEF TypesFit

\* A step that is done leaves the stack that it promised.
LEMMA TypesReturn ==
  ASSUME NEW s, NEW t, Joined(t, <<>>, s), NEW y, Typed(s, y),
         NEW vs, Holds(After(s[1], y[1]), vs)
  PROVE  TypesFit(t, vs)
<1> DEFINE x == After(s[1], y[1])
<1>1. /\ \A k \in DOMAIN t : \E l \in DOMAIN s : l > 1 /\ k = l - 1 /\ t[k] = s[l]
      /\ DOMAIN s \subseteq Nat \ {0} /\ 1 \in DOMAIN s
  <2>1. Len(<<>>) = 0 /\ DOMAIN <<>> = {}
    OBVIOUS
  <2>2. DOMAIN s \subseteq Nat \ {0} /\ 1 \in DOMAIN s
    BY DEF Joined
  <2>3. \A l \in DOMAIN s : 0 + (l - 1) = l - 1
    BY <2>2
  <2>4. \A k \in DOMAIN t : \E l \in DOMAIN s : l > 1 /\ k = 0 + (l - 1) /\ t[k] = s[l]
    BY <2>1 DEF Joined
  <2> QED
    BY <2>2, <2>3, <2>4
<1>2. \A l \in DOMAIN s : l + 1 \in DOMAIN s => y[l + 1] = After(s[l], y[l])
  BY DEF Typed
<1>3. \A l \in DOMAIN s : Demands(s[l], y[l])
  BY DEF Typed
<1>4. 2 \in DOMAIN s => y[2] = x
  <2>1. 1 + 1 = 2
    OBVIOUS
  <2> QED
    BY <1>1, <1>2, <2>1
<1> DEFINE w == [k \in Nat |-> IF k = 1 THEN x ELSE y[k + 1]]
<1>5. (\A k \in Nat : w[k] = IF k = 1 THEN x ELSE y[k + 1]) /\ w[1] = x
  OBVIOUS
<1>6. Holds(x, vs)
  OBVIOUS
<1> HIDE DEF w, x
<1>7. ASSUME NEW l \in DOMAIN s, l > 1 PROVE w[l - 1] = y[l] /\ l - 1 \in Nat
  <2>1. l \in Nat /\ l - 1 \in Nat /\ (l - 1) + 1 = l /\ (l - 1 = 1 => l = 2)
    BY <1>1, <1>7
  <2> QED
    BY <1>4, <1>5, <2>1
<1>8. ASSUME NEW k \in DOMAIN t PROVE Demands(t[k], w[k])
  BY <1>1, <1>3, <1>7
<1>9. ASSUME NEW k \in DOMAIN t, k + 1 \in DOMAIN t
      PROVE  w[k + 1] = After(t[k], w[k])
  <2>1. PICK l \in DOMAIN s : l > 1 /\ k = l - 1 /\ t[k] = s[l]
    BY <1>1
  <2>2. PICK i \in DOMAIN s : i > 1 /\ k + 1 = i - 1
    BY <1>1, <1>9
  <2>3. l \in Nat /\ i \in Nat
    BY <1>1
  <2>4. i = l + 1
    BY <2>1, <2>2, <2>3
  <2>5. w[k + 1] = y[i] /\ w[k] = y[l]
    BY <1>7, <2>1, <2>2
  <2> QED
    BY <1>2, <2>1, <2>4, <2>5
<1>10. Typed(t, w)
  BY <1>8, <1>9 DEF Typed
<1> QED
  BY <1>5, <1>6, <1>10 DEF TypesFit

LEMMA StackAfter ==
  ASSUME NEW j, NEW x, NEW more \in Int, Gain(tree, j) = more, x.count \in Nat
  PROVE  /\ After(j, x).count = x.count + more
         /\ \A i \in 1 .. x.count + more :
              After(j, x).types[i] = IF i <= Keeps(j, x.count) THEN x.types[i] ELSE Promise(j)
BY DEF After, Stack

\* What a step puts in the place of others is as it promises.
LEMMA UseTypes ==
  ASSUME Running, NEW x, Holds(x, values),
         NEW used \in Nat, used <= Len(values), NEW v, Use(used, v),
         Gain(tree, job) = 1 - used, Promise(job) \subseteq {v.type},
         \/ Keeps(job, Len(values)) = Len(values) - used
         \/ /\ Promise(job) = {}
            /\ \/ Keeps(job, Len(values)) = 0
               \/ /\ Keeps(job, Len(values)) = Len(values) - used + 1
                  /\ used > 0 /\ v.type = values[Len(values) - used + 1].type
  PROVE  Holds(After(job, x), values')
<1> DEFINE count == Len(values)
           number == count - used
           kept == SubSeq(values, 1, number)
           fewer == Len(kept)
           us == values'
           keep == Keeps(job, count)
           promise == Promise(job)
<1>1. count \in Nat /\ number \in 0 .. count /\ IsSeq(values)
  <2>1. count \in Nat
    BY AtJob
  <2> QED
    BY <2>1 DEF Running, CodeInv, ValuesInv
<1>2. us = Append(kept, v)
  BY DEF Use
<1>3. /\ IsSeq(kept) /\ fewer = number /\ DOMAIN kept = 1 .. number
      /\ \A k \in 1 .. number : kept[k] = values[k]
  <2> HIDE DEF number
  <2>1. kept = SubSeq(values, 1, number)
    OBVIOUS
  <2> HIDE DEF kept
  <2>2. IsSeq(kept) /\ Len(kept) = number /\ DOMAIN kept = 1 .. number
    BY <1>1, <2>1, FirstOf
  <2>3. \A k \in 1 .. number : kept[k] = values[k]
    BY <1>1, <2>1, FirstOf
  <2> QED
    BY <2>2, <2>3 DEF fewer
<1>4. /\ Len(us) = number + 1
      /\ \A k \in 1 .. number : us[k] = values[k]
      /\ us[number + 1] = v
  <2> HIDE DEF kept, us, number
  <2>1. Len(us) = Len(kept) + 1 /\ us[Len(kept) + 1] = v
    BY <1>2, <1>3, Appended
  <2>2. \A k \in DOMAIN kept : us[k] = kept[k]
    BY <1>2, <1>3, Appended
  <2> QED
    BY <1>3, <2>1, <2>2 DEF fewer
<1>5. x.count = count /\ \A i \in 1 .. count : x.types[i] \subseteq {values[i].type}
  BY DEF Holds
<1>6. 1 - used \in Int /\ Gain(tree, job) = 1 - used
  OBVIOUS
<1>7. After(job, x).count = count + (1 - used)
  <2> DEFINE more == 1 - used
  <2>1. more \in Int /\ Gain(tree, job) = more /\ x.count \in Nat
    BY <1>1, <1>5
  <2> HIDE DEF more
  <2>2. After(job, x).count = x.count + more
    BY <2>1, StackAfter
  <2> QED
    BY <1>5, <2>2 DEF more
<1>8. \A i \in 1 .. count + (1 - used) :
        After(job, x).types[i] = IF i <= keep THEN x.types[i] ELSE promise
  <2>1. x.count \in Nat
    BY <1>1, <1>5
  <2>2. \A i \in 1 .. x.count + (1 - used) :
          After(job, x).types[i] = IF i <= Keeps(job, x.count) THEN x.types[i] ELSE Promise(job)
    <3> DEFINE more == 1 - used
    <3>1. more \in Int /\ Gain(tree, job) = more
      OBVIOUS
    <3> HIDE DEF more
    <3>2. \A i \in 1 .. x.count + more :
            After(job, x).types[i] = IF i <= Keeps(job, x.count) THEN x.types[i] ELSE Promise(job)
      BY <2>1, <3>1, StackAfter
    <3> QED
      BY <3>2 DEF more
  <2> QED
    BY <1>5, <2>2
<1>9. /\ promise \subseteq {v.type}
      /\ \/ keep = number
         \/ /\ promise = {}
            /\ \/ keep = 0
               \/ keep = number + 1 /\ used > 0 /\ v.type = values[number + 1].type
  OBVIOUS
<1>10. number = count - used
  OBVIOUS
<1> HIDE DEF count, number, kept, fewer, us, keep, promise
<1>11. count + (1 - used) = number + 1
  BY <1>1, <1>10
<1>12. ASSUME NEW i \in 1 .. number + 1
       PROVE  After(job, x).types[i] \subseteq {us[i].type}
  <2>1. i \in 1 .. number \/ i = number + 1
    BY <1>1
  <2>2. \A k \in 1 .. number : k \in 1 .. count
    BY <1>1
  <2>3. CASE i <= keep
    <3>1. After(job, x).types[i] = x.types[i]
      BY <1>8, <1>11, <2>3
    <3>2. CASE i \in 1 .. number
      BY <1>4, <1>5, <2>2, <3>1, <3>2
    <3>3. CASE i = number + 1
      <4>1. keep = number + 1 /\ used > 0 /\ v.type = values[number + 1].type
        <5>1. keep # number /\ keep # 0
          BY <1>1, <2>3, <3>3
        <5> QED
          BY <1>9, <5>1
      <4>2. i \in 1 .. count
        BY <1>1, <1>10, <3>3, <4>1
      <4> QED
        BY <1>4, <1>5, <3>1, <3>3, <4>1, <4>2
    <3> QED
      BY <2>1, <3>2, <3>3
  <2>4. CASE ~(i <= keep)
    <3>1. After(job, x).types[i] = promise
      BY <1>8, <1>11, <2>4
    <3>2. CASE keep = number
      <4>1. i = number + 1
        BY <1>1, <2>4, <3>2
      <4> QED
        BY <1>4, <1>9, <3>1, <4>1
    <3>3. CASE promise = {}
      BY <3>1, <3>3
    <3> QED
      BY <1>9, <3>2, <3>3
  <2> QED
    BY <2>3, <2>4
<1>13. After(job, x).count = Len(us)
  BY <1>4, <1>7, <1>11
<1>14. \A i \in 1 .. Len(us) : After(job, x).types[i] \subseteq {us[i].type}
  BY <1>4, <1>12
<1>15. Holds(After(job, x), us)
  BY <1>13, <1>14 DEF Holds
<1> QED
  BY <1>15 DEF us

\* A step of which nobody expects a type.
LEMMA AnyTypes ==
  ASSUME Running, NEW x, Holds(x, values), NEW more \in Int, Gain(tree, job) = more,
         Keeps(job, Len(values)) = 0, Promise(job) = {},
         NEW us, Len(us) = Len(values) + more
  PROVE  Holds(After(job, x), us)
<1> DEFINE count == Len(values)
           total == Len(us)
<1>1. count \in Nat /\ x.count = count
  BY AtJob DEF Holds
<1>2. total = count + more /\ Keeps(job, count) = 0
  OBVIOUS
<1> HIDE DEF count, total
<1>3. After(job, x).count = count + more
  BY <1>1, StackAfter
<1>4. \A i \in 1 .. count + more :
        After(job, x).types[i] = IF i <= Keeps(job, count) THEN x.types[i] ELSE Promise(job)
  <2>1. \A i \in 1 .. x.count + more :
          After(job, x).types[i] = IF i <= Keeps(job, x.count) THEN x.types[i] ELSE Promise(job)
    BY <1>1, StackAfter
  <2> QED
    BY <1>1, <2>1
<1>5. \A i \in 1 .. count + more : ~(i <= 0)
  OBVIOUS
<1>6. \A i \in 1 .. total : After(job, x).types[i] = {}
  BY <1>2, <1>4, <1>5
<1>7. After(job, x).count = total
  BY <1>2, <1>3
<1> QED
  BY <1>6, <1>7 DEF Holds, total

-----------------------------------------------------------------------------
(* Stacks with entries on top of another one.                                *)

\* m entries u on top of those of x.
On(x, m, u) ==
  Stack(x.count + m, [i \in 1 .. x.count + m |->
                        IF i <= x.count THEN x.types[i] ELSE u[i - x.count]])

\* The stack w shows the same.
Shows(w, x, m, u) ==
  /\ w.count = x.count + m
  /\ \A i \in 1 .. x.count + m :
       w.types[i] = IF i <= x.count THEN x.types[i] ELSE u[i - x.count]

LEMMA SameStack ==
  ASSUME NEW k, NEW t, NEW s, \A i \in 1 .. k : t[i] = s[i]
  PROVE  Stack(k, t) = Stack(k, s)
<1>1. [i \in 1 .. k |-> t[i]] = [i \in 1 .. k |-> s[i]]
  OBVIOUS
<1> QED
  BY <1>1 DEF Stack

LEMMA OnShows ==
  ASSUME NEW x, NEW m, NEW u
  PROVE  Shows(On(x, m, u), x, m, u)
BY DEF On, Shows, Stack

\* A step that keeps so many entries turns the m entries u into the entries v.
Turns(j, x, m, u, keep, total, v) ==
  \A i \in 1 .. total :
    \/ x.count + i <= keep /\ i <= m /\ v[i] = u[i]
    \/ ~(x.count + i <= keep) /\ v[i] = Promise(j)

\* The stack after a step on top of others.
LEMMA AfterOn ==
  ASSUME NEW x, x.count \in Nat, NEW m \in Nat, NEW u, NEW w, Shows(w, x, m, u),
         NEW j, NEW more \in Int, Gain(tree, j) = more,
         NEW keep \in Int, Keeps(j, w.count) = keep, keep >= x.count,
         NEW total \in Int, total = m + more, NEW v,
         Turns(j, x, m, u, keep, total, v)
  PROVE  After(j, w) = On(x, total, v)
<1> DEFINE b == x.count
           promise == Promise(j)
<1>1. /\ w.count = b + m /\ b \in Nat
      /\ \A i \in 1 .. b + m : w.types[i] = IF i <= b THEN x.types[i] ELSE u[i - b]
  BY DEF Shows
<1>2. After(j, w) = Stack((b + m) + more,
        [i \in 1 .. (b + m) + more |-> IF i <= keep THEN w.types[i] ELSE promise])
  BY <1>1 DEF After
<1>3. On(x, total, v) = Stack(b + total,
        [i \in 1 .. b + total |-> IF i <= b THEN x.types[i] ELSE v[i - b]])
  BY DEF On
<1>4. /\ keep >= b
      /\ \A i \in 1 .. total :
           \/ b + i <= keep /\ i <= m /\ v[i] = u[i]
           \/ ~(b + i <= keep) /\ v[i] = promise
      /\ total = m + more
  <2>1. b + m + more = b + total
    BY <1>1
  <2> QED
    BY <2>1 DEF Turns
<1> HIDE DEF b, promise
<1>5. (b + m) + more = b + total /\ total \in Int
  BY <1>1, <1>4
<1>6. ASSUME NEW i \in 1 .. b + total
      PROVE  (IF i <= keep THEN w.types[i] ELSE promise)
               = IF i <= b THEN x.types[i] ELSE v[i - b]
  <2>1. i \in Int /\ i - b \in Int
    BY <1>1
  <2>2. CASE i <= b
    <3>1. i <= keep /\ i \in 1 .. b + m
      BY <1>1, <1>4, <1>5, <2>1, <2>2
    <3> QED
      BY <1>1, <2>2, <3>1
  <2>3. CASE ~(i <= b)
    <3>1. i - b \in 1 .. total /\ b + (i - b) = i
      BY <1>1, <1>5, <2>1, <2>3
    <3>2. CASE i <= keep /\ i - b <= m /\ v[i - b] = u[i - b]
      <4>1. i \in 1 .. b + m
        BY <1>1, <2>1, <3>1, <3>2
      <4> QED
        BY <1>1, <2>3, <3>2, <4>1
    <3>3. CASE ~(i <= keep) /\ v[i - b] = promise
      BY <2>3, <3>3
    <3> QED
      BY <1>4, <3>1, <3>2, <3>3
  <2> QED
    BY <2>2, <2>3
<1> DEFINE t == [i \in 1 .. b + total |-> IF i <= keep THEN w.types[i] ELSE promise]
           s == [i \in 1 .. b + total |-> IF i <= b THEN x.types[i] ELSE v[i - b]]
<1>7. \A i \in 1 .. b + total : t[i] = s[i]
  BY <1>6
<1>8. After(j, w) = Stack(b + total, t)
  BY <1>2, <1>5
<1>9. On(x, total, v) = Stack(b + total, s)
  BY <1>3
<1> HIDE DEF t, s
<1>10. Stack(b + total, t) = Stack(b + total, s)
  BY <1>7, SameStack
<1> QED
  BY <1>8, <1>9, <1>10

LEMMA AfterGenerate ==
  ASSUME NEW x, x.count \in Nat, NEW m \in Nat, NEW u, NEW w, Shows(w, x, m, u),
         NEW j, IsOf(tree, j, Proper), NEW v,
         \A i \in 1 .. m : v[i] = u[i], NEW total, total = m + 1, v[total] = {TypeOf[j.node]}
  PROVE  After(j, w) = On(x, total, v)
<1>1. /\ Gain(tree, j) = 1 /\ Promise(j) = {TypeOf[j.node]}
      /\ \A k : Keeps(j, k) = k
  <2>1. j.do = "generate" /\ tree[j.node].kind \in Proper
    BY DEF IsOf
  <2>2. tree[j.node].kind # "Root" /\ tree[j.node].kind \in Kind
    BY <2>1 DEF Proper, Kind, ExpressionKinds, Literals, Operations
  <2> QED
    BY <2>1, <2>2 DEF Gain, Promise, Keeps, IsOf
<1> DEFINE keep == w.count
           more == 1
<1>2. /\ keep = x.count + m /\ keep \in Int /\ Keeps(j, w.count) = keep /\ keep >= x.count
      /\ Promise(j) = v[total] /\ more \in Int /\ total \in Int /\ total = m + more
  BY <1>1 DEF Shows
<1>3. Gain(tree, j) = more
  BY <1>1
<1> HIDE DEF keep, more
<1>4. ASSUME NEW i \in 1 .. total
      PROVE  \/ x.count + i <= keep /\ i <= m /\ v[i] = u[i]
             \/ ~(x.count + i <= keep) /\ v[i] = Promise(j)
  <2>1. CASE i \in 1 .. m
    BY <1>2, <2>1
  <2>2. CASE i = m + 1
    BY <1>2, <2>2
  <2> QED
    BY <2>1, <2>2
<1>5. Turns(j, x, m, u, keep, total, v)
  BY <1>4 DEF Turns
<1> QED
  BY <1>2, <1>3, <1>5, AfterOn

LEMMA AfterCombine ==
  ASSUME NEW x, x.count \in Nat, NEW u, NEW w, Shows(w, x, 2, u),
         NEW j, j.do = "combine", NEW v, v[1] = u[1]
  PROVE  After(j, w) = On(x, 1, v)
<1> DEFINE m == 2
           more == -1
           keep == x.count + 1
           total == 1
<1>1. w.count = x.count + 2 /\ Shows(w, x, m, u)
  BY DEF Shows
<1>2. /\ Gain(tree, j) = more /\ Keeps(j, w.count) = w.count - 1
  BY DEF Keeps, IsOf, Gain, Promise
<1>3. /\ keep \in Int /\ keep >= x.count /\ Keeps(j, w.count) = keep
      /\ m \in Nat /\ more \in Int /\ total \in Int /\ total = m + more
  BY <1>1, <1>2
<1>4. Turns(j, x, m, u, keep, total, v)
  BY <1>2 DEF Turns
<1> HIDE DEF m, more, keep, total
<1>5. After(j, w) = On(x, total, v)
  BY <1>1, <1>2, <1>3, <1>4, AfterOn
<1> QED
  BY <1>5 DEF total

LEMMA AfterNot ==
  ASSUME NEW x, x.count \in Nat, NEW u, NEW w, Shows(w, x, 1, u),
         NEW j, j.do = "NOT", NEW v, v[1] = {"i1"}
  PROVE  After(j, w) = On(x, 1, v)
<1> DEFINE m == 1
           more == 0
           keep == x.count
           total == 1
<1>1. w.count = x.count + 1 /\ Shows(w, x, m, u)
  BY DEF Shows
<1>2. /\ Gain(tree, j) = more /\ Keeps(j, w.count) = w.count - 1 /\ Promise(j) = v[1]
  BY DEF Keeps, IsOf, Gain, Promise
<1>3. /\ keep \in Int /\ keep >= x.count /\ Keeps(j, w.count) = keep
      /\ m \in Nat /\ more \in Int /\ total \in Int /\ total = m + more
  BY <1>1, <1>2
<1>4. Turns(j, x, m, u, keep, total, v)
  BY <1>2 DEF Turns
<1> HIDE DEF m, more, keep, total
<1>5. After(j, w) = On(x, total, v)
  BY <1>1, <1>2, <1>3, <1>4, AfterOn
<1> QED
  BY <1>5 DEF total

LEMMA AfterMinus ==
  ASSUME NEW x, x.count \in Nat, NEW u, NEW w, Shows(w, x, 1, u),
         NEW j, j.do = "MINUS", NEW v, v[1] = u[1]
  PROVE  After(j, w) = On(x, 1, v)
<1> DEFINE m == 1
           more == 0
           keep == x.count + 1
           total == 1
<1>1. w.count = x.count + 1 /\ Shows(w, x, m, u)
  BY DEF Shows
<1>2. /\ Gain(tree, j) = more /\ Keeps(j, w.count) = w.count
  BY DEF Keeps, IsOf, Gain, Promise
<1>3. /\ keep \in Int /\ keep >= x.count /\ Keeps(j, w.count) = keep
      /\ m \in Nat /\ more \in Int /\ total \in Int /\ total = m + more
  BY <1>1, <1>2
<1>4. Turns(j, x, m, u, keep, total, v)
  BY <1>2 DEF Turns
<1> HIDE DEF m, more, keep, total
<1>5. After(j, w) = On(x, total, v)
  BY <1>1, <1>2, <1>3, <1>4, AfterOn
<1> QED
  BY <1>5 DEF total

LEMMA AfterCall ==
  ASSUME NEW x, x.count \in Nat, NEW u, NEW w, NEW m \in Nat, Shows(w, x, m, u),
         NEW j, j.do = "call", Len(tree[j.node].kids) = m,
         NEW v, v[1] = {TypeOf[j.node]}
  PROVE  After(j, w) = On(x, 1, v)
<1> DEFINE keep == x.count
           more == 1 - m
           total == 1
<1>1. w.count = x.count + m
  BY DEF Shows
<1>2. Gain(tree, j) = more /\ Keeps(j, w.count) = w.count - m /\ Promise(j) = v[1]
  BY DEF Keeps, IsOf, Gain, Promise
<1>3. /\ keep \in Int /\ keep >= x.count /\ Keeps(j, w.count) = keep
      /\ more \in Int /\ total \in Int /\ total = m + more
  BY <1>1, <1>2
<1>4. Turns(j, x, m, u, keep, total, v)
  BY <1>2 DEF Turns
<1> HIDE DEF more, keep, total
<1>5. After(j, w) = On(x, total, v)
  BY <1>2, <1>3, <1>4, AfterOn
<1> QED
  BY <1>5 DEF total

None(x) == On(x, 0, <<>>)
One(x, p) == On(x, 1, <<p>>)
Two(x, p, q) == On(x, 2, <<p, q>>)

LEMMA Entries ==
  ASSUME NEW x, x.count \in Nat, NEW p, NEW q
  PROVE  /\ \A vs : Holds(x, vs) => Holds(None(x), vs)
         /\ One(x, p).count = x.count + 1 /\ One(x, p).types[x.count + 1] = p
         /\ Two(x, p, q).count = x.count + 2
         /\ Two(x, p, q).types[x.count + 1] = p
         /\ Two(x, p, q).types[x.count + 2] = q
<1>1. ASSUME NEW vs, Holds(x, vs) PROVE Holds(None(x), vs)
  <2>1. Shows(None(x), x, 0, <<>>)
    BY OnShows DEF None
  <2>2. None(x).count = x.count /\ \A i \in 1 .. x.count : None(x).types[i] = x.types[i]
    <3>1. x.count + 0 = x.count /\ \A i \in 1 .. x.count : i <= x.count
      OBVIOUS
    <3> QED
      BY <2>1, <3>1 DEF Shows
  <2> QED
    BY <1>1, <2>2 DEF Holds
<1>2. One(x, p).count = x.count + 1 /\ One(x, p).types[x.count + 1] = p
  <2>1. Shows(One(x, p), x, 1, <<p>>)
    BY OnShows DEF One
  <2>2. /\ x.count + 1 \in 1 .. x.count + 1 /\ ~(x.count + 1 <= x.count)
        /\ (x.count + 1) - x.count = 1
    OBVIOUS
  <2> QED
    BY <2>1, <2>2 DEF Shows
<1>3. /\ Two(x, p, q).count = x.count + 2
      /\ Two(x, p, q).types[x.count + 1] = p
      /\ Two(x, p, q).types[x.count + 2] = q
  <2>1. Shows(Two(x, p, q), x, 2, <<p, q>>)
    BY OnShows DEF Two
  <2>2. /\ x.count + 1 \in 1 .. x.count + 2 /\ ~(x.count + 1 <= x.count)
        /\ (x.count + 1) - x.count = 1
        /\ x.count + 2 \in 1 .. x.count + 2 /\ ~(x.count + 2 <= x.count)
        /\ (x.count + 2) - x.count = 2
    OBVIOUS
  <2> QED
    BY <2>1, <2>2 DEF Shows
<1> QED
  BY <1>1, <1>2, <1>3

LEMMA ItselfShows ==
  ASSUME NEW x, x.count \in Nat
  PROVE  Shows(x, x, 0, <<>>)
BY DEF Shows

LEMMA AfterExpression ==
  ASSUME NEW x, x.count \in Nat, NEW j, IsOf(tree, j, Proper)
  PROVE  /\ After(j, x) = One(x, {TypeOf[j.node]})
         /\ After(j, None(x)) = One(x, {TypeOf[j.node]})
         /\ \A p : After(j, One(x, p)) = Two(x, p, {TypeOf[j.node]})
<1> DEFINE t == {TypeOf[j.node]}
           none == <<>>
           one == <<t>>
           m == 0
           total == 1
<1>1. m \in Nat /\ total = m + 1 /\ one[total] = t /\ \A i \in 1 .. m : one[i] = none[i]
  OBVIOUS
<1>2. Shows(None(x), x, m, none) /\ Shows(x, x, m, none)
  BY OnShows, ItselfShows DEF None
<1>3. One(x, t) = On(x, total, one)
  BY DEF One
<1>4. After(j, x) = One(x, t) /\ After(j, None(x)) = One(x, t)
  <2> HIDE DEF none, one, m, total
  <2>1. After(j, x) = On(x, total, one)
    BY <1>1, <1>2, AfterGenerate
  <2>2. After(j, None(x)) = On(x, total, one)
    BY <1>1, <1>2, AfterGenerate
  <2> QED
    BY <1>3, <2>1, <2>2
<1>5. ASSUME NEW p PROVE After(j, One(x, p)) = Two(x, p, t)
  <2> DEFINE lone == <<p>>
             both == <<p, t>>
             k == 1
             whole == 2
  <2>1. k \in Nat /\ whole = k + 1 /\ both[whole] = t /\ \A i \in 1 .. k : both[i] = lone[i]
    OBVIOUS
  <2>2. Shows(One(x, p), x, k, lone)
    BY OnShows DEF One
  <2>3. Two(x, p, t) = On(x, whole, both)
    BY DEF Two
  <2> HIDE DEF lone, both, k, whole
  <2>4. After(j, One(x, p)) = On(x, whole, both)
    BY <2>1, <2>2, AfterGenerate
  <2> QED
    BY <2>3, <2>4
<1> QED
  BY <1>4, <1>5

LEMMA AfterOperator ==
  ASSUME NEW x, x.count \in Nat, NEW j
  PROVE  /\ j.do = "combine" => \A p, q : After(j, Two(x, p, q)) = One(x, p)
         /\ j.do = "NOT" => \A p : After(j, One(x, p)) = One(x, {"i1"})
         /\ j.do = "MINUS" => \A p : After(j, One(x, p)) = One(x, p)
<1>1. ASSUME NEW p, NEW q, j.do = "combine" PROVE After(j, Two(x, p, q)) = One(x, p)
  <2> DEFINE u == <<p, q>>
             v == <<p>>
  <2>1. v[1] = u[1] /\ Shows(Two(x, p, q), x, 2, u) /\ One(x, p) = On(x, 1, v)
    BY OnShows DEF Two, One
  <2> HIDE DEF u, v
  <2> QED
    BY <1>1, <2>1, AfterCombine
<1>2. ASSUME NEW p, j.do = "NOT" PROVE After(j, One(x, p)) = One(x, {"i1"})
  <2> DEFINE u == <<p>>
             v == <<{"i1"}>>
  <2>1. v[1] = {"i1"} /\ Shows(One(x, p), x, 1, u) /\ One(x, {"i1"}) = On(x, 1, v)
    BY OnShows DEF One
  <2> HIDE DEF u, v
  <2> QED
    BY <1>2, <2>1, AfterNot
<1>3. ASSUME NEW p, j.do = "MINUS" PROVE After(j, One(x, p)) = One(x, p)
  <2> DEFINE u == <<p>>
  <2>1. u[1] = u[1] /\ Shows(One(x, p), x, 1, u) /\ One(x, p) = On(x, 1, u)
    BY OnShows DEF One
  <2> HIDE DEF u
  <2> QED
    BY <1>3, <2>1, AfterMinus
<1> QED
  BY <1>1, <1>2, <1>3

-----------------------------------------------------------------------------
(* Every action leaves the stack that was promised.                          *)

LEMMA AtStack ==
  ASSUME Running, NEW y, Typed(todo, y), Holds(y[1], values)
  PROVE  /\ y[1].count = Len(values) /\ y[1].count \in Nat
         /\ Demands(job, y[1])
<1>1. 1 \in DOMAIN todo /\ job = todo[1] /\ Len(values) \in Nat
  BY AtJob
<1> QED
  BY <1>1 DEF Typed, Holds

LEMMA TypesBegin ==
  ASSUME Running, NEW y, Typed(todo, y), Holds(y[1], values),
         NEW js, IsSeq(js), js # <<>>, Then(js), NEW z, Typed(js, z), Holds(z[1], values'),
         After(js[Len(js)], z[Len(js)]) = After(job, y[1])
  PROVE  TypesFit(todo', values')
<1> DEFINE t == todo'
           vs == values'
<1>1. Joined(t, js, todo) /\ job = todo[1]
  BY TodoJoined
<1>2. After(js[Len(js)], z[Len(js)]) = After(todo[1], y[1]) /\ Holds(z[1], vs)
  BY <1>1
<1> HIDE DEF t, vs
<1>3. TypesFit(t, vs)
  BY <1>1, <1>2, TypesOn
<1> QED
  BY <1>3 DEF t, vs

LEMMA TypesEnd ==
  ASSUME Running, NEW y, Typed(todo, y), Then(<<>>), Holds(After(job, y[1]), values')
  PROVE  TypesFit(todo', values')
<1> DEFINE t == todo'
           vs == values'
<1>1. Joined(t, <<>>, todo) /\ job = todo[1]
  BY NothingMore, TodoJoined
<1>2. Holds(After(todo[1], y[1]), vs)
  BY <1>1
<1> HIDE DEF t, vs
<1>3. TypesFit(t, vs)
  BY <1>1, <1>2, TypesReturn
<1> QED
  BY <1>3 DEF t, vs

\* The steps of a chain of operands.
chainJobs ==
  <<codegen(kid(1))>>
    \o [k \in 1 .. 2 * (Len(here.kids) - 1) |->
          IF k % 2 = 1 THEN codegen(kid((k + 3) \div 2)) ELSE Step("combine")]

LEMMA ChainListed ==
  ASSUME Running, here.kind \in Chains, NEW js, js = chainJobs
  PROVE  /\ IsSeq(js) /\ DOMAIN js = 1 .. 2 * Len(here.kids) - 1
         /\ Len(js) = 2 * Len(here.kids) - 1
         /\ Len(here.kids) \in Nat /\ Len(here.kids) > 1
         /\ \A k \in DOMAIN js :
              /\ k = 1 => js[k] = codegen(kid(1))
              /\ k # 1 /\ k % 2 = 0 => /\ (k + 2) \div 2 \in 1 .. Len(here.kids)
                                       /\ js[k] = codegen(kid((k + 2) \div 2))
              /\ k # 1 /\ k % 2 # 0 => js[k] = Step("combine")
<1> DEFINE number == Len(here.kids)
           more == 2 * (number - 1)
           rest == [k \in 1 .. more |->
                      IF k % 2 = 1 THEN codegen(kid((k + 3) \div 2))
                      ELSE Step("combine")]
           whole == 2 * number - 1
           x == codegen(kid(1))
<1>1. number \in Nat /\ number > 1
  BY Here DEF CanBeGenerated, here
<1>2. more \in Nat /\ whole = 1 + more
  <2> HIDE DEF number
  <2> QED
    BY <1>1
<1>3. IsSeq(rest) /\ Len(rest) = more
  <2>1. DOMAIN rest = 1 .. more /\ rest = [k \in 1 .. more |-> rest[k]]
    OBVIOUS
  <2> HIDE DEF rest, more
  <2> QED
    BY <1>2, <2>1, SeqFromFunction
<1>4. js = <<x>> \o rest
  BY DEF chainJobs
<1>5. \A k \in 1 .. more :
        rest[k] = IF k % 2 = 1 THEN codegen(kid((k + 3) \div 2)) ELSE Step("combine")
  OBVIOUS
<1>6. IsSeq(js) /\ Len(js) = whole /\ DOMAIN js = 1 .. whole
      /\ \A k \in 1 .. whole : js[k] = IF k <= 1 THEN x ELSE rest[k - 1]
  <2> HIDE DEF x, rest, more
  <2>1. IsSeq(js) /\ Len(js) = 1 + Len(rest) /\ DOMAIN js = 1 .. 1 + Len(rest)
    BY <1>3, <1>4, OneBefore
  <2>2. \A k \in DOMAIN js : js[k] = IF k <= 1 THEN x ELSE rest[k - 1]
    BY <1>3, <1>4, OneBefore
  <2> QED
    BY <1>2, <1>3, <2>1, <2>2
<1> HIDE DEF rest
<1>7. ASSUME NEW k \in 1 .. whole
      PROVE  /\ k = 1 => js[k] = x
             /\ k # 1 /\ k % 2 = 0 => /\ (k + 2) \div 2 \in 1 .. number
                                      /\ js[k] = codegen(kid((k + 2) \div 2))
             /\ k # 1 /\ k % 2 # 0 => js[k] = Step("combine")
  <2>1. CASE k = 1
    BY <1>6, <2>1
  <2>2. CASE k # 1 /\ k % 2 = 0
    <3>1. /\ k - 1 \in 1 .. more /\ (k - 1) % 2 = 1 /\ ((k - 1) + 3) \div 2 = (k + 2) \div 2
          /\ (k + 2) \div 2 \in 1 .. number /\ ~(k <= 1)
      <4> HIDE DEF number
      <4> QED
        BY <1>1, <2>2
    <3> HIDE DEF number, more, whole
    <3>2. js[k] = rest[k - 1]
      BY <1>6, <3>1
    <3>3. rest[k - 1] = codegen(kid(((k - 1) + 3) \div 2))
      BY <1>5, <3>1
    <3> QED
      BY <2>2, <3>1, <3>2, <3>3
  <2>3. CASE k # 1 /\ k % 2 # 0
    <3>1. k - 1 \in 1 .. more /\ (k - 1) % 2 # 1 /\ ~(k <= 1)
      <4> HIDE DEF number
      <4> QED
        BY <1>1, <2>3
    <3> HIDE DEF number, more, whole
    <3>2. js[k] = rest[k - 1]
      BY <1>6, <3>1
    <3>3. rest[k - 1] = Step("combine")
      BY <1>5, <3>1
    <3> QED
      BY <2>3, <3>2, <3>3
  <2> QED
    BY <2>1, <2>2, <2>3
<1> QED
  BY <1>1, <1>6, <1>7

\* The first operand, on top of it each other one in its turn.
LEMMA ChainTypes ==
  ASSUME TypeOK, Generable, CodeInv, GenerateChain,
         NEW y, Typed(todo, y), Holds(y[1], values)
  PROVE  TypesFit(todo', values')
<1> DEFINE js == chainJobs
           x == y[1]
           number == Len(here.kids)
           whole == 2 * number - 1
           first == {TypeOf[kid(1)]}
           type(i) == {TypeOf[kid(i)]}
<1>1. /\ Running /\ job.do = "generate" /\ here.kind \in Chains
      /\ Then(js) /\ values' = values
  BY Doing DEF GenerateChain, Generate, chainJobs
<1>2. /\ IsSeq(js) /\ DOMAIN js = 1 .. whole /\ Len(js) = whole
      /\ number \in Nat /\ number > 1
      /\ \A k \in 1 .. whole :
           /\ k = 1 => js[k] = codegen(kid(1))
           /\ k # 1 /\ k % 2 = 0 => /\ (k + 2) \div 2 \in 1 .. number
                                    /\ js[k] = codegen(kid((k + 2) \div 2))
           /\ k # 1 /\ k % 2 # 0 => js[k] = Step("combine")
  <2>1. js = chainJobs
    OBVIOUS
  <2> HIDE DEF js
  <2>2. /\ IsSeq(js) /\ DOMAIN js = 1 .. 2 * Len(here.kids) - 1
        /\ Len(js) = 2 * Len(here.kids) - 1
        /\ Len(here.kids) \in Nat /\ Len(here.kids) > 1
    BY <1>1, <2>1, ChainListed
  <2>3. \A k \in DOMAIN js :
          /\ k = 1 => js[k] = codegen(kid(1))
          /\ k # 1 /\ k % 2 = 0 => /\ (k + 2) \div 2 \in 1 .. Len(here.kids)
                                   /\ js[k] = codegen(kid((k + 2) \div 2))
          /\ k # 1 /\ k % 2 # 0 => js[k] = Step("combine")
    BY <1>1, <2>1, ChainListed
  <2> QED
    BY <2>2, <2>3
<1>3. /\ \A i \in 1 .. number : /\ kid(i) \in Kids(job.node)
                                /\ IsOf(tree, codegen(kid(i)), Proper)
                                /\ codegen(kid(i)).node = kid(i)
                                /\ codegen(kid(i)).do = "generate"
      /\ here = tree[job.node]
  <2>1. /\ DOMAIN here.kids = 1 .. number /\ here = tree[job.node]
        /\ \A i \in 1 .. number : tree[kid(i)].kind \in Proper
    BY <1>1, Here DEF CanBeGenerated, here, kid
  <2> QED
    BY <2>1 DEF Kids, ChildrenOf, kid, codegen, IsOf
<1>4. /\ x.count = Len(values) /\ x.count \in Nat /\ Holds(x, values)
  BY <1>1, AtStack
<1>5. Step("combine").do = "combine" /\ Step("combine").node = job.node
  BY DEF Step
<1> DEFINE z == [k \in Nat |-> IF k = 1 THEN None(x)
                               ELSE IF k % 2 = 0 THEN One(x, first)
                               ELSE Two(x, first, type((k + 1) \div 2))]
<1>6. \A k \in Nat : z[k] = IF k = 1 THEN None(x)
                            ELSE IF k % 2 = 0 THEN One(x, first)
                            ELSE Two(x, first, type((k + 1) \div 2))
  OBVIOUS
<1>7. /\ \A k \in 1 .. whole : k \in Nat /\ k + 1 \in Nat
      /\ 1 \in 1 .. number /\ whole \in 1 .. whole /\ whole # 1 /\ whole % 2 # 0
      /\ 1 \in 1 .. whole /\ 1 \in Nat
      /\ whole - 1 \in Nat
  <2> HIDE DEF number
  <2> QED
    BY <1>2
<1>8. IsOf(tree, job, Proper) /\ TypeOf[job.node] = TypeOf[kid(1)]
  <2>1. IsOf(tree, job, Proper)
    BY <1>1, <1>3 DEF IsOf, Proper, ExpressionKinds, Operations, Chains
  <2>2. TypeOf[job.node] = TypeOf[tree[job.node].kids[1]]
    BY <1>1, <1>3, AtJob, TypesOfKinds DEF Running, TypeOK
  <2> QED
    BY <1>3, <2>1, <2>2 DEF kid
<1> HIDE DEF js, z, number, whole, first, type, x
<1>9. ASSUME NEW k \in 1 .. whole
      PROVE  Demands(js[k], z[k])
  <2>1. CASE k = 1
    BY <1>2, <1>3, <1>7, <2>1 DEF Demands
  <2>2. CASE k # 1 /\ k % 2 = 0
    <3>1. js[k].do = "generate"
      BY <1>2, <1>3, <2>2
    <3> QED
      BY <3>1 DEF Demands
  <2>3. CASE k # 1 /\ k % 2 # 0
    <3> DEFINE i == (k + 1) \div 2
               m == kid(i)
    <3>1. i \in 1 .. number
      BY <1>2 DEF whole
    <3> HIDE DEF i
    <3>2. m \in Kids(job.node) /\ type(i) = {TypeOf[m]}
      BY <1>3, <3>1 DEF type
    <3>3. z[k] = Two(x, first, type(i))
      BY <1>6, <1>7, <2>3 DEF i
    <3> HIDE DEF m
    <3>4. /\ z[k].count = x.count + 2 /\ z[k].types[x.count + 1] = first
          /\ z[k].types[x.count + 2] = type(i)
      BY <1>4, <3>3, Entries
    <3>5. z[k].count - 1 = x.count + 1
      BY <1>4, <3>4
    <3>6. js[k].do = "combine" /\ js[k].node = job.node
      BY <1>2, <1>5, <2>3
    <3>7. first = {TypeOf[tree[job.node].kids[1]]}
      BY <1>3 DEF first, kid
    <3> QED
      BY <3>2, <3>4, <3>5, <3>6, <3>7 DEF Demands
  <2> QED
    BY <2>1, <2>2, <2>3
<1>10. ASSUME NEW k \in 1 .. whole
       PROVE  /\ k = 1 => After(js[k], z[k]) = One(x, first)
              /\ k # 1 /\ k % 2 = 0 => After(js[k], z[k]) = Two(x, first, type((k + 2) \div 2))
              /\ k # 1 /\ k % 2 # 0 => After(js[k], z[k]) = One(x, first)
  <2>1. ASSUME k = 1 PROVE After(js[k], z[k]) = One(x, first)
    <3>1. z[k] = None(x) /\ js[k] = codegen(kid(1))
      BY <1>2, <1>6, <1>7, <2>1
    <3>2. IsOf(tree, js[k], Proper) /\ js[k].node = kid(1)
      BY <1>3, <1>7, <3>1
    <3> QED
      BY <1>4, <3>1, <3>2, AfterExpression DEF first
  <2>2. ASSUME k # 1, k % 2 = 0
        PROVE  After(js[k], z[k]) = Two(x, first, type((k + 2) \div 2))
    <3> DEFINE i == (k + 2) \div 2
    <3>1. z[k] = One(x, first) /\ js[k] = codegen(kid(i)) /\ i \in 1 .. number
      BY <1>2, <1>6, <1>7, <2>2
    <3> HIDE DEF i
    <3>2. IsOf(tree, js[k], Proper) /\ js[k].node = kid(i)
      BY <1>3, <3>1
    <3>3. After(js[k], One(x, first)) = Two(x, first, {TypeOf[js[k].node]})
      BY <1>4, <3>2, AfterExpression
    <3>4. type(i) = {TypeOf[js[k].node]}
      BY <3>2 DEF type
    <3> QED
      BY <3>1, <3>3, <3>4 DEF i
  <2>3. ASSUME k # 1, k % 2 # 0 PROVE After(js[k], z[k]) = One(x, first)
    <3>1. z[k] = Two(x, first, type((k + 1) \div 2)) /\ js[k].do = "combine"
      BY <1>2, <1>5, <1>6, <1>7, <2>3
    <3> QED
      BY <1>4, <3>1, AfterOperator
  <2> QED
    BY <2>1, <2>2, <2>3
<1>11. ASSUME NEW k \in 1 .. whole, k + 1 \in 1 .. whole
       PROVE  z[k + 1] = After(js[k], z[k])
  <2>1. /\ k = 1 => k + 1 # 1 /\ (k + 1) % 2 = 0
        /\ k # 1 /\ k % 2 = 0 => /\ k + 1 # 1 /\ (k + 1) % 2 # 0
                                 /\ ((k + 1) + 1) \div 2 = (k + 2) \div 2
        /\ k # 1 /\ k % 2 # 0 => k + 1 # 1 /\ (k + 1) % 2 = 0
    BY <1>7
  <2> QED
    BY <1>6, <1>7, <1>10, <2>1
<1>12. Typed(js, z)
  BY <1>2, <1>9, <1>11 DEF Typed
<1>13. After(js[Len(js)], z[Len(js)]) = After(job, x)
  <2>1. After(js[whole], z[whole]) = One(x, first)
    BY <1>7, <1>10
  <2>2. After(job, x) = One(x, first)
    BY <1>4, <1>8, AfterExpression DEF first
  <2> QED
    BY <1>2, <2>1, <2>2
<1>14. js # <<>>
  BY <1>2, <1>7, NothingMore
<1>15. Holds(z[1], values')
  <2>1. z[1] = None(x)
    BY <1>6, <1>7
  <2> QED
    BY <1>1, <1>4, <2>1, Entries
<1> QED
  BY <1>1, <1>2, <1>12, <1>13, <1>14, <1>15, TypesBegin DEF x

\* The steps of an operand and the operators before it.
prefixJobs == <<codegen(kid(1))>> \o [k \in DOMAIN here.ops |-> Step(here.ops[k])]

LEMMA PrefixListed ==
  ASSUME Running, here.kind = "PrefixExpr", NEW js, js = prefixJobs
  PROVE  /\ IsSeq(js) /\ DOMAIN js = 1 .. 1 + Len(here.ops) /\ Len(js) = 1 + Len(here.ops)
         /\ Len(here.ops) \in Nat /\ DOMAIN here.ops = 1 .. Len(here.ops)
         /\ \A k \in DOMAIN here.ops : here.ops[k] \in {"NOT", "MINUS"}
         /\ \A k \in DOMAIN js : js[k] = IF k <= 1 THEN codegen(kid(1))
                                         ELSE Step(here.ops[k - 1])
         /\ Len(here.kids) = 1 /\ kid(1) \in DOMAIN tree /\ tree[kid(1)].kind \in Proper
<1> DEFINE rest == [k \in DOMAIN here.ops |-> Step(here.ops[k])]
           x == codegen(kid(1))
           more == Len(here.ops)
           whole == 1 + more
<1>1. /\ more \in Nat /\ DOMAIN here.ops = 1 .. more
      /\ \A k \in DOMAIN here.ops : here.ops[k] \in {"NOT", "MINUS"}
      /\ kid(1) \in DOMAIN tree /\ tree[kid(1)].kind \in Proper /\ Len(here.kids) = 1
  <2>1. here \in TreeNode /\ CanBeGenerated(tree, job.node)
    BY Here
  <2>2. here.ops \in Seq(STRING)
    BY <2>1 DEF TreeNode
  <2>3. \A k \in DOMAIN here.ops : here.ops[k] \in {"NOT", "MINUS"}
    BY <2>1 DEF CanBeGenerated, here
  <2>4. kid(1) \in DOMAIN tree /\ tree[kid(1)].kind \in Proper /\ Len(here.kids) = 1
    BY <2>1, Here DEF CanBeGenerated, here, kid
  <2> QED
    BY <2>2, <2>3, <2>4, LenProperties
<1>2. IsSeq(rest) /\ Len(rest) = more
  <2>1. DOMAIN rest = 1 .. more /\ rest = [k \in 1 .. more |-> rest[k]]
    BY <1>1
  <2> HIDE DEF rest, more
  <2> QED
    BY <1>1, <2>1, SeqFromFunction
<1>3. \A k \in 1 .. more : rest[k] = Step(here.ops[k])
  BY <1>1
<1>4. /\ IsSeq(js) /\ Len(js) = whole /\ DOMAIN js = 1 .. whole
      /\ \A k \in 1 .. whole : js[k] = IF k <= 1 THEN x ELSE rest[k - 1]
  <2>1. js = <<x>> \o rest
    BY DEF prefixJobs
  <2> HIDE DEF x, rest, more
  <2>2. IsSeq(js) /\ Len(js) = 1 + Len(rest) /\ DOMAIN js = 1 .. 1 + Len(rest)
    BY <1>2, <2>1, OneBefore
  <2>3. \A k \in DOMAIN js : js[k] = IF k <= 1 THEN x ELSE rest[k - 1]
    BY <1>2, <2>1, OneBefore
  <2> QED
    BY <1>2, <2>2, <2>3
<1>5. \A k \in 1 .. whole : k <= 1 \/ k - 1 \in 1 .. more
  <2> HIDE DEF more
  <2> QED
    BY <1>1
<1> HIDE DEF rest, more, x
<1>6. \A k \in 1 .. whole : js[k] = IF k <= 1 THEN x ELSE Step(here.ops[k - 1])
  BY <1>3, <1>4, <1>5
<1> QED
  BY <1>1, <1>4, <1>6 DEF more, x

\* The type is that of the operand until a NOT makes it i1.
LEMMA PrefixTypes ==
  ASSUME TypeOK, Generable, CodeInv, GeneratePrefixExpr,
         NEW y, Typed(todo, y), Holds(y[1], values)
  PROVE  TypesFit(todo', values')
<1> DEFINE js == prefixJobs
           x == y[1]
           ops == here.ops
           more == Len(ops)
           whole == 1 + more
           first == {TypeOf[kid(1)]}
           post(k) == IF \E l \in 1 .. k - 1 : ops[l] = "NOT" THEN {"i1"} ELSE first
<1>1. /\ Running /\ job.do = "generate" /\ here.kind = "PrefixExpr"
      /\ Then(js) /\ values' = values
  BY Doing DEF GeneratePrefixExpr, Generate, prefixJobs
<1>2. /\ IsSeq(js) /\ DOMAIN js = 1 .. whole /\ Len(js) = whole
      /\ more \in Nat /\ DOMAIN ops = 1 .. more
      /\ \A k \in 1 .. more : ops[k] \in {"NOT", "MINUS"}
      /\ \A k \in 1 .. whole : js[k] = IF k <= 1 THEN codegen(kid(1)) ELSE Step(ops[k - 1])
      /\ kid(1) \in DOMAIN tree /\ tree[kid(1)].kind \in Proper
  <2>1. js = prefixJobs
    OBVIOUS
  <2> HIDE DEF js
  <2>2. /\ IsSeq(js) /\ DOMAIN js = 1 .. 1 + Len(here.ops) /\ Len(js) = 1 + Len(here.ops)
        /\ Len(here.ops) \in Nat /\ DOMAIN here.ops = 1 .. Len(here.ops)
        /\ kid(1) \in DOMAIN tree /\ tree[kid(1)].kind \in Proper
    BY <1>1, <2>1, PrefixListed
  <2>3. \A k \in DOMAIN here.ops : here.ops[k] \in {"NOT", "MINUS"}
    BY <1>1, <2>1, PrefixListed
  <2>4. \A k \in DOMAIN js : js[k] = IF k <= 1 THEN codegen(kid(1)) ELSE Step(here.ops[k - 1])
    BY <1>1, <2>1, PrefixListed
  <2> QED
    BY <2>2, <2>3, <2>4
<1>3. /\ IsOf(tree, codegen(kid(1)), Proper) /\ codegen(kid(1)).node = kid(1)
      /\ codegen(kid(1)).do = "generate"
      /\ \A what : Step(what).do = what
      /\ here = tree[job.node]
  BY <1>1, <1>2, Here DEF codegen, IsOf, Step
<1>4. /\ x.count = Len(values) /\ x.count \in Nat /\ Holds(x, values)
  BY <1>1, AtStack
<1> DEFINE z == [k \in Nat |-> IF k <= 1 THEN None(x) ELSE One(x, post(k - 1))]
<1>5. \A k \in Nat : z[k] = IF k <= 1 THEN None(x) ELSE One(x, post(k - 1))
  OBVIOUS
<1>6. /\ \A k \in 1 .. whole : /\ k \in Nat /\ k + 1 \in Nat /\ ~(k + 1 <= 1) /\ (k + 1) - 1 = k
                               /\ k <= 1 => k = 1
                               /\ ~(k <= 1) => k - 1 \in 1 .. more
      /\ whole \in 1 .. whole /\ 1 \in 1 .. whole /\ 1 <= 1 /\ 1 \in Nat
      /\ whole \in Nat /\ whole - 1 = more
  <2> HIDE DEF more
  <2> QED
    BY <1>2
<1>7. IsOf(tree, job, Proper) /\ {TypeOf[job.node]} = post(whole)
  <2>1. IsOf(tree, job, Proper)
    BY <1>1, <1>3 DEF IsOf, Proper, ExpressionKinds, Operations
  <2>2. TypeOf[job.node] = IF \E k \in DOMAIN tree[job.node].ops : tree[job.node].ops[k] = "NOT"
                             THEN "i1" ELSE TypeOf[tree[job.node].kids[1]]
    BY <1>1, <1>3, AtJob, TypesOfKinds DEF Running, TypeOK
  <2>3. tree[job.node].kids[1] = kid(1)
    BY <1>3 DEF kid
  <2>4. DOMAIN tree[job.node].ops = 1 .. whole - 1 /\ tree[job.node].ops = ops
    BY <1>2, <1>3, <1>6
  <2> QED
    BY <2>1, <2>2, <2>3, <2>4
<1>8. post(1) = first
  OBVIOUS
<1>9. ASSUME NEW k \in 1 .. whole, ~(k <= 1)
      PROVE  /\ ops[k - 1] = "NOT" => post(k) = {"i1"}
             /\ ops[k - 1] = "MINUS" => post(k) = post(k - 1)
  <2>1. \A l \in Int : l \in 1 .. k - 1 <=> l \in 1 .. (k - 1) - 1 \/ l = k - 1
    BY <1>6, <1>9
  <2>2. k - 1 \in Int /\ \A l \in 1 .. k - 1 : l \in Int
    BY <1>6
  <2>3. \A l \in 1 .. (k - 1) - 1 : l \in Int
    BY <1>6
  <2> QED
    BY <2>1, <2>2, <2>3
<1> HIDE DEF js, z, more, whole, first, post, x, ops
<1>10. ASSUME NEW k \in 1 .. whole
       PROVE  /\ Demands(js[k], z[k])
              /\ After(js[k], z[k]) = One(x, post(k))
  <2>1. CASE k <= 1
    <3>1. k = 1 /\ z[k] = None(x) /\ js[k] = codegen(kid(1))
      BY <1>2, <1>5, <1>6, <2>1
    <3>2. After(js[k], z[k]) = One(x, {TypeOf[js[k].node]})
      BY <1>3, <1>4, <3>1, AfterExpression
    <3> QED
      BY <1>3, <1>8, <3>1, <3>2 DEF Demands, first
  <2>2. CASE ~(k <= 1)
    <3> DEFINE what == ops[k - 1]
    <3>1. js[k].do = what /\ what \in {"NOT", "MINUS"} /\ z[k] = One(x, post(k - 1))
      BY <1>2, <1>3, <1>5, <1>6, <2>2
    <3>2. /\ what = "NOT" => post(k) = {"i1"}
          /\ what = "MINUS" => post(k) = post(k - 1)
      BY <1>9, <2>2
    <3> HIDE DEF what
    <3>3. Demands(js[k], z[k])
      BY <3>1 DEF Demands
    <3> DEFINE p == post(k - 1)
               j == js[k]
    <3>4. z[k] = One(x, p) /\ j.do = what
      BY <3>1
    <3>5. what = "NOT" => After(j, One(x, p)) = One(x, {"i1"})
      <4> HIDE DEF p, j
      <4> QED
        BY <1>4, <3>4, AfterOperator
    <3>6. what = "MINUS" => After(j, One(x, p)) = One(x, p)
      <4> HIDE DEF p, j
      <4> QED
        BY <1>4, <3>4, AfterOperator
    <3> QED
      BY <3>1, <3>2, <3>3, <3>5, <3>6
  <2> QED
    BY <2>1, <2>2
<1>11. ASSUME NEW k \in 1 .. whole, k + 1 \in 1 .. whole
       PROVE  z[k + 1] = After(js[k], z[k])
  BY <1>5, <1>6, <1>10
<1>12. Typed(js, z)
  BY <1>2, <1>10, <1>11 DEF Typed
<1>13. After(js[Len(js)], z[Len(js)]) = After(job, x)
  <2>1. After(js[whole], z[whole]) = One(x, post(whole))
    BY <1>6, <1>10
  <2>2. After(job, x) = One(x, post(whole))
    BY <1>4, <1>7, AfterExpression
  <2> QED
    BY <1>2, <2>1, <2>2
<1>14. js # <<>>
  BY <1>2, <1>6, NothingMore
<1>15. Holds(z[1], values')
  <2>1. z[1] = None(x)
    BY <1>5, <1>6
  <2> QED
    BY <1>1, <1>4, <2>1, Entries
<1> QED
  BY <1>1, <1>2, <1>12, <1>13, <1>14, <1>15, TypesBegin DEF x

\* NOT goes on with MINUS.
LEMMA NegateTypes ==
  ASSUME TypeOK, Generable, CodeInv, Negate,
         NEW y, Typed(todo, y), Holds(y[1], values)
  PROVE  TypesFit(todo', values')
<1> DEFINE j == Step("MINUS")
           js == <<j>>
           x == y[1]
           b == After(job, x)
           built == Build("EQ", "i1", top, Zero(top.type))
           v == built.value
           used == 1
<1>1. /\ Running /\ job.do = "NOT" /\ Then(js) /\ Use(1, v)
  BY Doing DEF Negate
<1>2. IsSeq(js) /\ DOMAIN js = {1} /\ js[1] = j /\ Len(js) = 1
  BY OneStep
<1>3. /\ x.count = Len(values) /\ x.count \in Nat /\ Holds(x, values)
  BY <1>1, AtStack
<1>4. v.type = "i1"
  BY DEF Build, Insert, Register, Instruction, Constant
<1>5. j.do = "MINUS"
  BY DEF Step
<1>6. /\ Gain(tree, job) = 0 /\ Promise(job) = {"i1"} /\ Keeps(job, Len(values)) = Len(values) - 1
      /\ Len(values) > 0
  BY <1>1, AtJob DEF Gain, Promise, Keeps, IsOf, DepthFits
<1>7. /\ used \in Nat /\ used <= Len(values) /\ Gain(tree, job) = 1 - used
      /\ Keeps(job, Len(values)) = Len(values) - used
      /\ Promise(job) \subseteq {v.type} /\ Use(used, v)
  <2>1. Len(values) \in Nat
    BY <1>3
  <2> HIDE DEF v
  <2> QED
    BY <1>1, <1>4, <1>6, <2>1
<1> HIDE DEF v, js, j, x, used
<1>8. Holds(b, values')
  BY <1>1, <1>3, <1>7, UseTypes
<1>9. After(j, b) = b
  <2> DEFINE number == x.count
  <2>1. number \in Nat
    BY <1>3
  <2>2. b = Stack(number, [i \in 1 .. number |->
              IF i <= Keeps(job, number) THEN x.types[i] ELSE Promise(job)])
    BY <1>3, <1>6 DEF After
  <2>3. b.count = number
    BY <2>2 DEF Stack
  <2>4. After(j, b) = Stack(number, [i \in 1 .. number |->
              IF i <= number THEN b.types[i] ELSE Promise(j)])
    <3>1. Gain(tree, j) = 0 /\ Keeps(j, b.count) = b.count /\ number + 0 = number
      BY <1>5, <2>1 DEF Keeps, Gain, IsOf
    <3> HIDE DEF b, number
    <3> QED
      BY <2>3, <3>1 DEF After
  <2> DEFINE t == [i \in 1 .. number |-> IF i <= Keeps(job, number) THEN x.types[i] ELSE Promise(job)]
             s == [i \in 1 .. number |-> IF i <= number THEN b.types[i] ELSE Promise(j)]
  <2>5. \A i \in 1 .. number : i <= number
    BY <2>1
  <2>6. \A i \in 1 .. number : b.types[i] = t[i]
    BY <2>2 DEF Stack
  <2>7. \A i \in 1 .. number : t[i] = s[i]
    BY <2>5, <2>6
  <2>8. b = Stack(number, t) /\ After(j, b) = Stack(number, s)
    BY <2>2, <2>4
  <2> HIDE DEF t, s, number, b
  <2> QED
    BY <2>7, <2>8, SameStack
<1> DEFINE z == <<b>>
<1>10. z[1] = b
  OBVIOUS
<1> HIDE DEF b, z
<1>11. Typed(js, z)
  <2>1. 1 + 1 \notin {1}
    OBVIOUS
  <2> QED
    BY <1>2, <1>5, <2>1 DEF Typed, Demands
<1>12. js # <<>>
  BY <1>2, NothingMore
<1>13. After(js[Len(js)], z[Len(js)]) = After(job, y[1])
  BY <1>2, <1>9, <1>10 DEF b, x
<1>14. Holds(z[1], values')
  BY <1>8, <1>10
<1>15. Holds(y[1], values)
  OBVIOUS
<1> QED
  BY <1>1, <1>2, <1>11, <1>12, <1>13, <1>14, <1>15, TypesBegin

\* The steps of the arguments and the call.
callJobs == codegenEach(here.kids) \o <<Step("call")>>

LEMMA CallListed ==
  ASSUME Running, NEW js, js = callJobs
  PROVE  /\ IsSeq(js) /\ DOMAIN js = 1 .. Len(here.kids) + 1 /\ Len(js) = Len(here.kids) + 1
         /\ \A k \in 1 .. Len(here.kids) : js[k] = codegen(kid(k))
         /\ js[Len(here.kids) + 1] = Step("call")
<1> DEFINE each == codegenEach(here.kids)
           last == Step("call")
           number == Len(here.kids)
<1>1. number \in Nat /\ DOMAIN here.kids = 1 .. number
  BY Here
<1>2. /\ IsSeq(each) /\ Len(each) = number
      /\ \A k \in 1 .. number : each[k] = codegen(kid(k))
  <2>1. /\ DOMAIN each = 1 .. number /\ each = [k \in 1 .. number |-> each[k]]
        /\ \A k \in 1 .. number : each[k] = codegen(kid(k))
    BY <1>1 DEF codegenEach, kid
  <2> HIDE DEF each, number
  <2> QED
    BY <1>1, <2>1, SeqFromFunction
<1>3. js = each \o <<last>>
  BY DEF callJobs
<1> HIDE DEF each, last
<1>4. js = Append(each, last)
  <2>1. each \in Seq({each[k] : k \in DOMAIN each} \cup {last})
    BY <1>2, SeqOf
  <2> QED
    BY <1>3, <2>1, AppendIsConcat
<1>5. IsSeq(js) /\ Len(js) = Len(each) + 1 /\ DOMAIN js = 1 .. Len(each) + 1
  BY <1>2, <1>4, Appended
<1>6. (\A k \in DOMAIN each : js[k] = each[k]) /\ js[Len(each) + 1] = last
  BY <1>2, <1>4, Appended
<1>7. DOMAIN each = 1 .. number
  BY <1>2, SeqFacts
<1> QED
  BY <1>2, <1>5, <1>6, <1>7 DEF last

\* The arguments come to lie on top of each other.
LEMMA CallTypes ==
  ASSUME TypeOK, Generable, CodeInv, GenerateFnCallExpr,
         NEW y, Typed(todo, y), Holds(y[1], values)
  PROVE  TypesFit(todo', values')
<1> DEFINE js == callJobs
           x == y[1]
           number == Len(here.kids)
           whole == number + 1
           u == [i \in Nat |-> {TypeOf[kid(i)]}]
           own == {TypeOf[job.node]}
<1>1. /\ Running /\ job.do = "generate" /\ here.kind = "FnCallExpr"
      /\ Then(js) /\ values' = values
  BY Doing DEF GenerateFnCallExpr, Generate, callJobs
<1>2. /\ IsSeq(js) /\ DOMAIN js = 1 .. whole /\ Len(js) = whole
      /\ \A k \in 1 .. number : js[k] = codegen(kid(k))
      /\ js[whole] = Step("call")
  <2>1. js = callJobs
    OBVIOUS
  <2> HIDE DEF js
  <2>2. IsSeq(js) /\ DOMAIN js = 1 .. Len(here.kids) + 1 /\ Len(js) = Len(here.kids) + 1
    BY <1>1, <2>1, CallListed
  <2>3. /\ \A k \in 1 .. Len(here.kids) : js[k] = codegen(kid(k))
        /\ js[Len(here.kids) + 1] = Step("call")
    BY <1>1, <2>1, CallListed
  <2> QED
    BY <2>2, <2>3
<1>3. /\ number \in Nat /\ DOMAIN here.kids = 1 .. number /\ here = tree[job.node]
      /\ \A i \in 1 .. number : /\ IsOf(tree, codegen(kid(i)), Proper)
                                /\ codegen(kid(i)).node = kid(i)
                                /\ codegen(kid(i)).do = "generate"
  <2>1. /\ number \in Nat /\ DOMAIN here.kids = 1 .. number /\ here = tree[job.node]
        /\ \A i \in 1 .. number : tree[kid(i)].kind \in Proper
    BY <1>1, Here DEF CanBeGenerated, here, kid
  <2> QED
    BY <2>1 DEF codegen, IsOf
<1>4. /\ x.count = Len(values) /\ x.count \in Nat /\ Holds(x, values)
  BY <1>1, AtStack
<1>5. Step("call").do = "call" /\ Step("call").node = job.node
  BY DEF Step
<1>6. \A i \in Nat : u[i] = {TypeOf[kid(i)]}
  OBVIOUS
<1> DEFINE z == [k \in Nat |-> On(x, k - 1, u)]
<1>7. \A k \in Nat : z[k] = On(x, k - 1, u)
  OBVIOUS
<1>8. /\ \A k \in 1 .. whole : /\ k \in Nat /\ k + 1 \in Nat /\ (k + 1) - 1 = k
                               /\ k - 1 \in Nat /\ (k - 1) + 1 = k
                               /\ k = whole \/ k \in 1 .. number
                               /\ k = whole => k - 1 = number
      /\ \A k \in 1 .. number : k + 1 \in 1 .. whole
      /\ 1 \in 1 .. whole /\ whole \in 1 .. whole /\ whole \notin 1 .. number
      /\ whole + 1 \notin 1 .. whole
  <2> HIDE DEF number
  <2> QED
    BY <1>3
<1>9. IsOf(tree, job, Proper)
  BY <1>1, <1>3 DEF IsOf, Proper, ExpressionKinds, Operations
<1> HIDE DEF js, z, number, whole, u, x
<1>10. ASSUME NEW k \in 1 .. number
       PROVE  Demands(js[k], z[k]) /\ After(js[k], z[k]) = z[k + 1]
  <2> DEFINE m == k - 1
             j == js[k]
             w == z[k]
  <2>1. k \in 1 .. whole /\ k \in Nat /\ m \in Nat /\ k = m + 1 /\ k + 1 \in Nat
        /\ (k + 1) - 1 = k
    BY <1>3, <1>8
  <2>2. IsOf(tree, j, Proper) /\ j.do = "generate" /\ u[k] = {TypeOf[j.node]}
    BY <1>2, <1>3, <1>6, <2>1
  <2>3. Shows(w, x, m, u)
    BY <1>7, <2>1, OnShows
  <2>4. \A i \in 1 .. m : u[i] = u[i]
    OBVIOUS
  <2>5. After(j, w) = On(x, k, u)
    <3> HIDE DEF m, j, w
    <3> QED
      BY <1>4, <2>1, <2>2, <2>3, <2>4, AfterGenerate
  <2>6. z[k + 1] = On(x, k, u)
    BY <1>7, <2>1
  <2> QED
    BY <2>2, <2>5, <2>6 DEF Demands
<1>11. Demands(js[whole], z[whole]) /\ After(js[whole], z[whole]) = One(x, own)
  <2> DEFINE j == js[whole]
             w == z[whole]
             v == <<own>>
  <2>1. Shows(w, x, number, u)
    BY <1>7, <1>8, OnShows
  <2>2. j.do = "call" /\ j.node = job.node /\ Len(tree[j.node].kids) = number
    BY <1>2, <1>3, <1>5 DEF number
  <2>3. v[1] = {TypeOf[j.node]} /\ One(x, own) = On(x, 1, v)
    BY <2>2 DEF One
  <2>4. After(j, w) = One(x, own)
    <3> HIDE DEF j, w, v, own
    <3> QED
      BY <1>3, <1>4, <2>1, <2>2, <2>3, AfterCall
  <2>5. ASSUME NEW i \in 1 .. number
        PROVE  w.types[(w.count - number) + i] = {TypeOf[tree[j.node].kids[i]]}
    <3> DEFINE b == x.count
    <3>1. b + i \in 1 .. b + number /\ ~(b + i <= b) /\ (b + i) - b = i
          /\ ((b + number) - number) + i = b + i /\ i \in Nat
      BY <1>3, <1>4
    <3>2. w.count = b + number
      BY <2>1 DEF Shows
    <3>3. w.types[b + i] = u[i]
      BY <2>1, <3>1 DEF Shows
    <3>4. u[i] = {TypeOf[tree[j.node].kids[i]]}
      BY <1>3, <1>6, <2>2, <3>1 DEF kid
    <3> QED
      BY <3>1, <3>2, <3>3, <3>4
  <2>6. Demands(j, w)
    <3>1. DOMAIN tree[j.node].kids = 1 .. number
      BY <1>3, <2>2
    <3> HIDE DEF j, w
    <3> QED
      BY <2>2, <2>5, <3>1 DEF Demands
  <2> QED
    BY <2>4, <2>6
<1>12. Typed(js, z)
  <2>1. ASSUME NEW k \in 1 .. whole PROVE Demands(js[k], z[k])
    BY <1>8, <1>10, <1>11
  <2>2. ASSUME NEW k \in 1 .. whole, k + 1 \in 1 .. whole PROVE z[k + 1] = After(js[k], z[k])
    <3>1. k \in 1 .. number
      BY <1>8, <2>2
    <3> QED
      BY <1>10, <3>1
  <2> QED
    BY <1>2, <2>1, <2>2 DEF Typed
<1>13. After(js[Len(js)], z[Len(js)]) = After(job, x)
  <2>1. After(job, x) = One(x, own)
    BY <1>4, <1>9, AfterExpression
  <2> QED
    BY <1>2, <1>11, <2>1
<1>14. js # <<>>
  BY <1>2, <1>8, NothingMore
<1>15. Holds(z[1], values')
  <2>1. Shows(z[1], x, 0, u)
    <3>1. 1 \in Nat /\ 1 - 1 = 0
      OBVIOUS
    <3> QED
      BY <1>7, <3>1, OnShows
  <2>2. z[1].count = x.count /\ \A i \in 1 .. x.count : z[1].types[i] = x.types[i]
    <3>1. x.count + 0 = x.count /\ \A i \in 1 .. x.count : i <= x.count
      BY <1>4
    <3> QED
      BY <2>1, <3>1 DEF Shows
  <2>3. Holds(z[1], values)
    BY <1>4, <2>2 DEF Holds
  <2> QED
    BY <1>1, <2>3
<1> QED
  BY <1>1, <1>2, <1>12, <1>13, <1>14, <1>15, TypesBegin DEF x

\* A stack of which nobody expects a type.
Bare(m) == Stack(m, [i \in 1 .. m |-> {}])

PlainSteps == {"VarDecl", "AssignSt", "ReturnSt", "IfSt", "Block", "Root", "statement",
               "else", "merge"}

LEMMA AfterPlain ==
  ASSUME NEW j, NEW w, w.count \in Nat, NEW more \in Int, Gain(tree, j) = more,
         Promise(j) = {}, Keeps(j, w.count) = 0, NEW total, total = w.count + more
  PROVE  After(j, w) = Bare(total)
<1>1. /\ \A i \in 1 .. total : ~(i <= 0)
      /\ After(j, w) = Stack(total, [i \in 1 .. total |->
           IF i <= 0 THEN w.types[i] ELSE {}])
  BY DEF After
<1> DEFINE t == [i \in 1 .. total |-> IF i <= 0 THEN w.types[i] ELSE {}]
           s == [i \in 1 .. total |-> {}]
<1>2. \A i \in 1 .. total : t[i] = s[i]
  BY <1>1
<1>3. After(j, w) = Stack(total, t) /\ Bare(total) = Stack(total, s)
  BY <1>1 DEF Bare
<1> HIDE DEF t, s
<1> QED
  BY <1>2, <1>3, SameStack

\* The steps of statements and of what has no type.
LEMMA PlainFacts ==
  ASSUME NEW j
  PROVE  /\ j.do \in PlainSteps => Promise(j) = {} /\ \A k : Keeps(j, k) = 0
         /\ j.do = "generate" /\ tree[j.node].kind \notin Proper =>
              Promise(j) = {} /\ Keeps(j, 0) = 0
BY DEF PlainSteps, Promise, Keeps, IsOf

LEMMA BareCount ==
  ASSUME NEW m \in Nat
  PROVE  /\ Bare(m).count = m
         /\ \A vs : Len(vs) = m => Holds(Bare(m), vs)
<1>1. Bare(m).count = m /\ \A i \in 1 .. m : Bare(m).types[i] = {}
  BY DEF Bare, Stack
<1> QED
  BY <1>1 DEF Holds

\* A child that leaves a value, and the step that takes it away or not.
LEMMA AfterBoth ==
  ASSUME NEW w, w.count = 0, NEW j, Gain(tree, j) = 1,
         NEW k, k.do \in PlainSteps, NEW more \in Int, Gain(tree, k) = more,
         NEW total, total = 1 + more
  PROVE  After(k, After(j, w)) = Bare(total)
<1> DEFINE b == After(j, w)
<1>1. b.count = 1
  <2> DEFINE one == 1
  <2>1. one \in Int /\ Gain(tree, j) = one /\ w.count \in Nat /\ w.count + one = 1
    OBVIOUS
  <2> HIDE DEF one
  <2> QED
    BY <2>1, StackAfter
<1>2. Promise(k) = {} /\ Keeps(k, b.count) = 0 /\ b.count \in Nat /\ total = b.count + more
  BY <1>1, PlainFacts
<1> HIDE DEF b
<1>3. After(k, b) = Bare(total)
  BY <1>2, AfterPlain
<1> QED
  BY <1>3 DEF b

\* A node without a type leaves one entry.
LEMMA AfterNode ==
  ASSUME NEW j, j.do = "generate", tree[j.node].kind \notin Proper, NEW w, w.count = 0
  PROVE  After(j, w) = Bare(IF tree[j.node].kind = "Root" THEN 0 ELSE 1)
<1> DEFINE more == IF tree[j.node].kind = "Root" THEN 0 ELSE 1
<1>1. Gain(tree, j) = more
  BY DEF Gain
<1>2. Promise(j) = {} /\ Keeps(j, w.count) = 0 /\ w.count \in Nat
  BY PlainFacts
<1>3. more \in Int /\ more = w.count + more
  OBVIOUS
<1> HIDE DEF more
<1>4. After(j, w) = Bare(more)
  BY <1>1, <1>2, <1>3, AfterPlain
<1> QED
  BY <1>4 DEF more

\* The value of a statement comes first.
LEMMA StatementTypes ==
  ASSUME TypeOK, Generable, CodeInv, GenerateOperand,
         NEW y, Typed(todo, y), Holds(y[1], values)
  PROVE  TypesFit(todo', values')
<1> DEFINE j == codegen(kid(1))
           k == Step(here.kind)
           js == <<j, k>>
           x == y[1]
           z == <<x, After(j, x)>>
<1>1. /\ Running /\ job.do = "generate" /\ here = tree[job.node]
      /\ here.kind \in {"VarDecl", "ReturnSt", "IfSt", "AssignSt"}
      /\ Then(js) /\ values' = values
  BY Doing DEF GenerateOperand, Generate, here
<1>2. IsSeq(js) /\ DOMAIN js = {1, 2} /\ js[1] = j /\ js[2] = k /\ Len(js) = 2
  BY TwoSteps
<1>3. /\ x.count = Len(values) /\ x.count \in Nat /\ Holds(x, values)
  BY <1>1, AtStack
<1>4. tree[job.node].kind \notin Proper /\ tree[job.node].kind # "Root" /\ x.count = 0
  <2>1. tree[job.node].kind \notin Proper /\ tree[job.node].kind # "Root"
    BY <1>1 DEF Proper, ExpressionKinds, Literals, Operations
  <2> QED
    BY <1>1, <1>3, <2>1, AtJob DEF DepthFits
<1>5. Gain(tree, j) = 1
  <2> DEFINE m == kid(1)
  <2>1. tree[m].kind # "Root"
    <3>1. 1 \in DOMAIN here.kids
      <4> DEFINE number == Len(here.kids)
      <4>1. DOMAIN here.kids = 1 .. number
        BY <1>1, Here
      <4>2. number = 1 \/ number = 3
        <5>1. here.kind = "IfSt" => Len(here.kids) = 3
          BY <1>1, AtJob DEF WellFormed, HasParts, Running, TypeOK
        <5>2. here.kind # "IfSt" => Len(here.kids) = 1
          BY <1>1, Here DEF CanBeGenerated, here
        <5> QED
          BY <5>1, <5>2
      <4> HIDE DEF number
      <4> QED
        BY <4>1, <4>2
    <3> QED
      BY <1>1, <3>1, Here
  <2> HIDE DEF m
  <2>2. j = codegen(m)
    BY DEF m
  <2> QED
    BY <2>1, <2>2 DEF Gain, codegen
<1>6. k.do \in PlainSteps /\ Gain(tree, k) = 0 /\ k.do # "combine" /\ k.do # "call"
  BY <1>1 DEF Step, PlainSteps, Gain
<1>7. j.do = "generate"
  BY DEF codegen
<1>8. z[1] = x /\ z[2] = After(j, x)
  OBVIOUS
<1> HIDE DEF js, j, k, z, x
<1>9. Typed(js, z)
  <2>1. 1 + 1 = 2 /\ 2 + 1 \notin {1, 2}
    OBVIOUS
  <2> QED
    BY <1>2, <1>6, <1>7, <1>8, <2>1 DEF Typed, Demands
<1>10. After(js[Len(js)], z[Len(js)]) = After(job, x)
  <2> DEFINE total == 1
             more == 0
  <2>1. more \in Int /\ Gain(tree, k) = more /\ total = 1 + more
    BY <1>6
  <2> HIDE DEF total, more
  <2>2. After(k, After(j, x)) = Bare(total)
    BY <1>4, <1>5, <1>6, <2>1, AfterBoth
  <2>3. After(job, x) = Bare(1)
    BY <1>1, <1>4, AfterNode
  <2> QED
    BY <1>2, <1>8, <2>2, <2>3 DEF total
<1>11. js # <<>>
  BY <1>2, NothingMore
<1>12. Holds(z[1], values')
  BY <1>1, <1>3, <1>8
<1> QED
  BY <1>1, <1>2, <1>9, <1>10, <1>11, <1>12, TypesBegin DEF x

LEMMA EachTypes ==
  ASSUME TypeOK, Generable, CodeInv, GenerateEach,
         NEW y, Typed(todo, y), Holds(y[1], values)
  PROVE  TypesFit(todo', values')
<1> DEFINE js == Append(Each(here.kids), Step(here.kind))
           whole == 2 * Len(here.kids) + 1
           x == y[1]
           nothing == Bare(0)
           final == Bare(IF here.kind = "Root" THEN 0 ELSE 1)
<1>1. /\ Running /\ job.do = "generate" /\ here = tree[job.node]
      /\ here.kind \in {"Block", "Root"}
      /\ Then(js) /\ values' = values
  BY Doing DEF GenerateEach, Generate, here
<1>2. /\ IsSeq(js) /\ DOMAIN js = 1 .. whole /\ Len(js) = whole
      /\ \A k \in DOMAIN js :
           /\ EachStep(k) = "end" => js[k] = Step(here.kind)
           /\ EachStep(k) = "child" => js[k].do = "generate" /\ tree[js[k].node].kind # "Root"
           /\ EachStep(k) = "statement" => js[k] = Step("statement")
  <2>1. js = Append(Each(here.kids), Step(here.kind))
    OBVIOUS
  <2> HIDE DEF js
  <2>2. IsSeq(js) /\ DOMAIN js = 1 .. whole /\ Len(js) = whole
    BY <1>1, <2>1, EachSteps
  <2>3. \A k \in DOMAIN js : /\ EachStep(k) = "end" => js[k] = Step(here.kind)
                             /\ EachStep(k) = "statement" => js[k] = Step("statement")
    BY <1>1, <2>1, EachSteps
  <2>4. \A k \in DOMAIN js : EachStep(k) = "child" =>
          js[k].do = "generate" /\ tree[js[k].node].kind # "Root"
    BY <1>1, <2>1, EachBalanced
  <2> QED
    BY <2>2, <2>3, <2>4
<1>3. /\ x.count = Len(values) /\ x.count \in Nat /\ Holds(x, values)
  BY <1>1, AtStack
<1>4. tree[job.node].kind \notin Proper /\ x.count = 0 /\ Len(values) = 0
  <2>1. tree[job.node].kind \notin Proper
    BY <1>1 DEF Proper, ExpressionKinds, Literals, Operations
  <2> QED
    BY <1>1, <1>3, <2>1, AtJob DEF DepthFits
<1>5. nothing.count = 0 /\ Holds(nothing, values)
  BY <1>4, BareCount
<1>6. /\ whole \in 1 .. whole /\ 1 \in 1 .. whole /\ EachStep(whole) = "end"
      /\ \A k \in 1 .. whole :
           /\ k \in Nat
           /\ k = whole => k % 2 = 1
           /\ k # whole => EachStep(k) = IF k % 2 = 1 THEN "child" ELSE "statement"
           /\ k % 2 # 1 => k - 1 \in 1 .. whole /\ k - 1 # whole /\ (k - 1) % 2 = 1
           /\ k + 1 \in 1 .. whole => k # whole /\ k + 1 \in Nat /\ (k + 1) - 1 = k
                                      /\ (k % 2 = 1 <=> (k + 1) % 2 # 1)
  <2> DEFINE number == Len(here.kids)
  <2>1. number \in Nat
    BY <1>1, Here
  <2>2. /\ whole \in 1 .. whole /\ 1 \in 1 .. whole
        /\ \A k \in 1 .. whole :
             /\ k \in Nat
             /\ k = whole => k % 2 = 1
             /\ k % 2 # 1 => k - 1 \in 1 .. whole /\ k - 1 # whole /\ (k - 1) % 2 = 1
             /\ k + 1 \in 1 .. whole => k # whole /\ k + 1 \in Nat /\ (k + 1) - 1 = k
                                        /\ (k % 2 = 1 <=> (k + 1) % 2 # 1)
    <3> HIDE DEF number
    <3> QED
      BY <2>1
  <2> QED
    BY <2>2 DEF EachStep
<1>7. /\ Step(here.kind).do = here.kind /\ Step("statement").do = "statement"
      /\ Gain(tree, Step("statement")) = -1
      /\ Gain(tree, Step(here.kind)) = IF here.kind = "Root" THEN 0 ELSE 1
  BY <1>1 DEF Step, Gain
<1> DEFINE z == [k \in Nat |-> IF k % 2 = 1 THEN nothing ELSE After(js[k - 1], nothing)]
<1>8. \A k \in Nat : z[k] = IF k % 2 = 1 THEN nothing ELSE After(js[k - 1], nothing)
  OBVIOUS
<1> HIDE DEF js, z, whole, x, nothing
<1>9. ASSUME NEW k \in 1 .. whole
      PROVE  js[k].do # "combine" /\ js[k].do # "call"
  <2>1. EachStep(k) \in {"end", "child", "statement"}
    BY DEF EachStep
  <2> QED
    BY <1>1, <1>2, <1>7, <2>1
<1>10. ASSUME NEW k \in 1 .. whole, k + 1 \in 1 .. whole
       PROVE  z[k + 1] = After(js[k], z[k])
  <2>1. CASE k % 2 = 1
    BY <1>6, <1>8, <1>10, <2>1
  <2>2. CASE k % 2 # 1
    <3> DEFINE m == k - 1
               first == js[m]
               second == js[k]
               total == 0
               more == -1
    <3>1. /\ m \in 1 .. whole /\ m # whole /\ m % 2 = 1 /\ k # whole
          /\ z[k] = After(first, nothing) /\ z[k + 1] = nothing
      BY <1>6, <1>8, <1>10, <2>2
    <3>2. EachStep(m) = "child" /\ EachStep(k) = "statement"
      BY <1>6, <2>2, <3>1
    <3>3. first.do = "generate" /\ tree[first.node].kind # "Root" /\ second = Step("statement")
      BY <1>2, <3>1, <3>2
    <3>4. Gain(tree, first) = 1 /\ second.do \in PlainSteps
      BY <1>7, <3>3 DEF Gain, PlainSteps
    <3>5. more \in Int /\ Gain(tree, second) = more /\ total = 1 + more
      BY <1>7, <3>3
    <3> HIDE DEF m, first, second, total, more
    <3>6. After(second, After(first, nothing)) = Bare(total)
      BY <1>5, <3>4, <3>5, AfterBoth
    <3> QED
      BY <3>1, <3>6 DEF nothing, total, second
  <2> QED
    BY <2>1, <2>2
<1>11. Typed(js, z)
  <2>1. \A k \in 1 .. whole : Demands(js[k], z[k])
    BY <1>9 DEF Demands
  <2> QED
    BY <1>2, <1>10, <2>1 DEF Typed
<1>12. After(js[Len(js)], z[Len(js)]) = After(job, x)
  <2> DEFINE j == js[whole]
             more == IF here.kind = "Root" THEN 0 ELSE 1
  <2>1. j = Step(here.kind) /\ z[whole] = nothing
    BY <1>2, <1>6, <1>8
  <2>2. j.do \in PlainSteps /\ Gain(tree, j) = more
    BY <1>1, <1>7, <2>1 DEF PlainSteps
  <2>3. /\ nothing.count \in Nat /\ more \in Int /\ more = nothing.count + more
        /\ Promise(j) = {} /\ Keeps(j, nothing.count) = 0
    <3>1. \A k : Promise(j) = {} /\ Keeps(j, k) = 0
      <4> HIDE DEF j
      <4> QED
        BY <2>2, PlainFacts
    <3> QED
      BY <1>5, <3>1
  <2>4. After(job, x) = Bare(more)
    BY <1>1, <1>4, AfterNode
  <2> HIDE DEF j, more
  <2>5. After(j, nothing) = Bare(more)
    BY <2>2, <2>3, AfterPlain
  <2> QED
    BY <1>2, <2>1, <2>4, <2>5 DEF j
<1>13. js # <<>>
  BY <1>2, <1>6, NothingMore
<1>14. Holds(z[1], values')
  <2>1. 1 % 2 = 1 /\ 1 \in Nat
    OBVIOUS
  <2> QED
    BY <1>1, <1>5, <1>8, <2>1
<1> QED
  BY <1>1, <1>2, <1>11, <1>12, <1>13, <1>14, TypesBegin DEF x

LEMMA FnDefTypes ==
  ASSUME TypeOK, Generable, CodeInv, GenerateFnDef,
         NEW y, Typed(todo, y), Holds(y[1], values)
  PROVE  TypesFit(todo', values')
<1> DEFINE body == kid(Len(here.kids))
           j == codegen(body)
           js == <<j>>
           x == y[1]
           z == <<x>>
<1>1. /\ Running /\ job.do = "generate" /\ here.kind = "FnDef" /\ here = tree[job.node]
      /\ Then(js) /\ values' = values
  BY Doing DEF GenerateFnDef, Generate, here
<1>2. /\ IsSeq(js) /\ DOMAIN js = {1} /\ js[1] = j /\ Len(js) = 1
  BY OneStep
<1>3. z[1] = x
  OBVIOUS
<1>4. /\ x.count = Len(values) /\ x.count \in Nat /\ Holds(x, values)
  BY <1>1, AtStack
<1>5. /\ tree[job.node].kind \notin Proper /\ tree[job.node].kind # "Root" /\ x.count = 0
  <2>1. tree[job.node].kind \notin Proper /\ tree[job.node].kind # "Root"
    BY <1>1 DEF Proper, ExpressionKinds, Literals, Operations
  <2> QED
    BY <1>1, <1>4, <2>1, AtJob DEF DepthFits
<1>6. tree[body].kind = "Block"
  <2> DEFINE last == Len(here.kids)
  <2>1. last \in Nat
    BY <1>1, Here
  <2>2. CanBeGenerated(tree, job.node)
    BY <1>1, Here
  <2>3. \A k \in last .. last : tree[here.kids[k]].kind = "Block"
    BY <1>1, <2>2 DEF CanBeGenerated, here
  <2> HIDE DEF last
  <2>4. tree[here.kids[last]].kind = "Block"
    BY <2>1, <2>3
  <2> QED
    BY <2>4 DEF kid, last
<1>7. j.do = "generate" /\ j.node = body
  BY DEF codegen
<1>8. tree[j.node].kind \notin Proper /\ tree[j.node].kind # "Root"
  BY <1>6, <1>7 DEF Proper, ExpressionKinds, Literals, Operations
<1> HIDE DEF body, j, js, x, z
<1>9. Typed(js, z)
  <2>1. 1 + 1 \notin {1}
    OBVIOUS
  <2> QED
    BY <1>2, <1>7, <2>1 DEF Typed, Demands
<1>10. After(js[Len(js)], z[Len(js)]) = After(job, x)
  <2>1. After(j, x) = Bare(1)
    BY <1>5, <1>7, <1>8, AfterNode
  <2>2. After(job, x) = Bare(1)
    BY <1>1, <1>5, AfterNode
  <2> QED
    BY <1>2, <1>3, <2>1, <2>2
<1>11. js # <<>>
  BY <1>2, NothingMore
<1>12. Holds(z[1], values')
  BY <1>1, <1>3, <1>4
<1> QED
  BY <1>1, <1>2, <1>9, <1>10, <1>11, <1>12, TypesBegin DEF x

LEMMA BranchTypes ==
  ASSUME TypeOK, Generable, CodeInv, Branch,
         NEW y, Typed(todo, y), Holds(y[1], values)
  PROVE  TypesFit(todo', values')
<1> DEFINE j1 == codegen(kid(2))
           j2 == Jump("else", newBlock(3), newBlock(2))
           j3 == codegen(kid(3))
           j4 == Jump("merge", newBlock(3), newBlock(3))
           js == <<j1, j2, j3, j4>>
           x == y[1]
           nothing == Bare(0)
           z == <<nothing, After(j1, nothing), nothing, After(j3, nothing)>>
<1>1. /\ Running /\ job.do = "IfSt" /\ here = tree[job.node]
      /\ Then(js) /\ values' = SubSeq(values, 1, Len(values) - 1)
  BY Doing DEF Branch, here
<1>2. /\ IsSeq(js) /\ DOMAIN js = {1, 2, 3, 4} /\ Len(js) = 4
      /\ js[1] = j1 /\ js[2] = j2 /\ js[3] = j3 /\ js[4] = j4
  BY FourSteps
<1>3. z[1] = nothing /\ z[2] = After(j1, nothing) /\ z[3] = nothing /\ z[4] = After(j3, nothing)
  OBVIOUS
<1>4. /\ x.count = Len(values) /\ x.count \in Nat /\ Holds(x, values) /\ x.count = 1
      /\ Len(values) = 1
  BY <1>1, AtStack, AtJob DEF DepthFits
<1>5. here.kind = "IfSt"
  BY <1>1, AtJob DEF JobFits, About
<1>6. /\ j1.do = "generate" /\ tree[j1.node].kind # "Root"
      /\ j3.do = "generate" /\ tree[j3.node].kind # "Root"
      /\ j2.do = "else" /\ j4.do = "merge"
  <2>1. Len(here.kids) = 3
    BY <1>1, <1>5, AtJob DEF WellFormed, HasParts, Running, TypeOK
  <2>2. 2 \in DOMAIN here.kids /\ 3 \in DOMAIN here.kids
    <3>1. DOMAIN here.kids = 1 .. 3
      BY <1>1, <2>1, Here
    <3> QED
      BY <3>1
  <2>3. tree[kid(2)].kind # "Root" /\ tree[kid(3)].kind # "Root"
    BY <1>1, <2>2, Here
  <2> QED
    BY <2>3 DEF codegen, Jump
<1>7. nothing.count = 0 /\ \A vs : Len(vs) = 0 => Holds(nothing, vs)
  BY BareCount
<1> HIDE DEF j1, j2, j3, j4, js, x, z, nothing
<1>8. /\ Gain(tree, j1) = 1 /\ Gain(tree, j3) = 1 /\ Gain(tree, j2) = -1 /\ Gain(tree, j4) = 0
      /\ j2.do \in PlainSteps /\ j4.do \in PlainSteps
      /\ Gain(tree, job) = 0 /\ job.do \in PlainSteps
  BY <1>1, <1>6 DEF Gain, PlainSteps
<1>9. After(j2, After(j1, nothing)) = nothing
  <2> DEFINE total == 0
             more == -1
  <2>1. more \in Int /\ Gain(tree, j2) = more /\ total = 1 + more
    BY <1>8
  <2> HIDE DEF total, more
  <2>2. After(j2, After(j1, nothing)) = Bare(total)
    BY <1>7, <1>8, <2>1, AfterBoth
  <2> QED
    BY <2>2 DEF total, nothing
<1>10. After(j4, After(j3, nothing)) = Bare(1)
  <2> DEFINE total == 1
             more == 0
  <2>1. more \in Int /\ Gain(tree, j4) = more /\ total = 1 + more
    BY <1>8
  <2> HIDE DEF total, more
  <2>2. After(j4, After(j3, nothing)) = Bare(total)
    BY <1>7, <1>8, <2>1, AfterBoth
  <2> QED
    BY <2>2 DEF total
<1>11. After(job, x) = Bare(1)
  <2> DEFINE total == 1
             more == 0
  <2>1. /\ more \in Int /\ Gain(tree, job) = more /\ total = x.count + more
        /\ Promise(job) = {} /\ Keeps(job, x.count) = 0
    BY <1>4, <1>8, PlainFacts
  <2> HIDE DEF total, more
  <2>2. After(job, x) = Bare(total)
    BY <1>4, <2>1, AfterPlain
  <2> QED
    BY <2>2 DEF total
<1>12. Typed(js, z)
  <2>1. 1 + 1 = 2 /\ 2 + 1 = 3 /\ 3 + 1 = 4 /\ 4 + 1 \notin {1, 2, 3, 4}
    OBVIOUS
  <2>2. \A k \in DOMAIN js : Demands(js[k], z[k])
    BY <1>2, <1>6 DEF Demands
  <2>3. z[2] = After(js[1], z[1]) /\ z[3] = After(js[2], z[2]) /\ z[4] = After(js[3], z[3])
    BY <1>2, <1>3, <1>9
  <2> QED
    BY <1>2, <2>1, <2>2, <2>3 DEF Typed
<1>13. After(js[Len(js)], z[Len(js)]) = After(job, x)
  BY <1>2, <1>3, <1>10, <1>11
<1>14. js # <<>>
  BY <1>2, NothingMore
<1>15. Holds(z[1], values')
  <2> DEFINE us == values'
  <2>1. us = SubSeq(values, 1, Len(values) - 1)
    BY <1>1
  <2> HIDE DEF us
  <2>2. Len(us) = 0
    BY <1>4, <2>1, OneDropped DEF CodeInv
  <2> QED
    BY <1>3, <1>7, <2>2 DEF us
<1> QED
  BY <1>1, <1>2, <1>12, <1>13, <1>14, <1>15, TypesBegin DEF x

\* A step that is done and leaves a value of the type that it promised.
LEMMA ResultTypes ==
  ASSUME Running, NEW y, Typed(todo, y), Holds(y[1], values), Then(<<>>),
         NEW used \in Nat, used <= Len(values), NEW v, Use(used, v),
         Gain(tree, job) = 1 - used, Promise(job) \subseteq {v.type},
         Keeps(job, Len(values)) = Len(values) - used
  PROVE  TypesFit(todo', values')
<1> DEFINE x == y[1]
           us == values'
<1>1. Holds(x, values)
  OBVIOUS
<1> HIDE DEF x
<1>2. Holds(After(job, x), values')
  BY <1>1, UseTypes
<1> QED
  BY <1>2, TypesEnd DEF x

\* One that leaves a value of the type of the first that it uses.
LEMMA SameTypes ==
  ASSUME Running, NEW y, Typed(todo, y), Holds(y[1], values), Then(<<>>),
         NEW used \in Nat, used <= Len(values), used > 0, NEW v, Use(used, v),
         Gain(tree, job) = 1 - used, Promise(job) = {},
         Keeps(job, Len(values)) = Len(values) - used + 1,
         v.type = values[Len(values) - used + 1].type
  PROVE  TypesFit(todo', values')
<1> DEFINE x == y[1]
<1>1. Holds(x, values) /\ Promise(job) \subseteq {v.type}
  OBVIOUS
<1> HIDE DEF x
<1>2. Holds(After(job, x), values')
  BY <1>1, UseTypes
<1> QED
  BY <1>2, TypesEnd DEF x

\* One at whose result nobody looks.
LEMMA PlainTypes ==
  ASSUME Running, NEW y, Typed(todo, y), Holds(y[1], values), Then(<<>>),
         NEW more \in Int, Gain(tree, job) = more,
         Keeps(job, Len(values)) = 0, Promise(job) = {},
         NEW us, us = values', Len(us) = Len(values) + more
  PROVE  TypesFit(todo', values')
<1> DEFINE x == y[1]
<1>1. Holds(x, values)
  OBVIOUS
<1> HIDE DEF x
<1>2. Holds(After(job, x), us)
  BY <1>1, AnyTypes
<1> QED
  BY <1>2, TypesEnd DEF x

\* What the stack holds after a value was put in the place of others.
LEMMA UsedCount ==
  ASSUME Running, NEW used \in Nat, used <= Len(values), NEW v, NEW us,
         us = Append(SubSeq(values, 1, Len(values) - used), v)
  PROVE  Len(us) = Len(values) + (1 - used)
<1> DEFINE count == Len(values)
           number == count - used
           kept == SubSeq(values, 1, number)
<1>1. count \in Nat /\ number \in 0 .. count /\ IsSeq(values)
  <2>1. count \in Nat
    BY AtJob
  <2> QED
    BY <2>1 DEF Running, CodeInv, ValuesInv
<1>2. us = Append(kept, v)
  OBVIOUS
<1>3. kept = SubSeq(values, 1, number) /\ number \in 0 .. Len(values)
  BY <1>1
<1> HIDE DEF number, kept
<1>4. IsSeq(kept) /\ Len(kept) = number
  BY <1>1, <1>3, FirstOf
<1>5. Len(us) = number + 1
  <2>1. Len(us) = Len(kept) + 1
    BY <1>2, <1>4, Appended
  <2> QED
    BY <1>4, <2>1
<1> HIDE DEF count
<1> QED
  BY <1>1, <1>5 DEF number, count

\* The steps of statements, which change no type that somebody looks at.
LEMMA StepTypes ==
  ASSUME TypeOK, Generable, CodeInv,
         Declare \/ CreateStore \/ CreateRet \/ Statement \/ Merge \/ EndBlock,
         NEW y, Typed(todo, y), Holds(y[1], values)
  PROVE  TypesFit(todo', values')
<1> DEFINE us == values'
           count == Len(values)
<1>1. /\ Running /\ Then(<<>>)
      /\ job.do \in {"VarDecl", "AssignSt", "ReturnSt", "statement", "else", "merge", "Block"}
      /\ Gain(tree, job) = IF job.do \in {"statement", "else"} THEN -1
                           ELSE IF job.do = "Block" THEN 1 ELSE 0
      /\ job.do \in PlainSteps
  <2>1. /\ Running /\ Then(<<>>)
        /\ job.do \in {"VarDecl", "AssignSt", "ReturnSt", "statement", "else", "merge", "Block"}
    BY Doing DEF Declare, CreateStore, CreateRet, Statement, Merge, EndBlock, Yield
  <2> QED
    BY <2>1 DEF Gain, PlainSteps
<1>2. count \in Nat /\ (job.do = "Block" => count = 0) /\ (job.do # "Block" => count = 1)
  BY <1>1, AtJob DEF DepthFits, Jumps
<1>3. Promise(job) = {} /\ Keeps(job, count) = 0
  BY <1>1, PlainFacts
<1>4. ASSUME NEW total, Len(us) = total,
             total = IF job.do \in {"statement", "else"} THEN 0 ELSE 1
      PROVE  TypesFit(todo', values')
  <2> DEFINE more == IF job.do \in {"statement", "else"} THEN -1
                     ELSE IF job.do = "Block" THEN 1 ELSE 0
  <2> HIDE DEF count
  <2>1. more \in Int /\ total = count + more
    BY <1>1, <1>2, <1>4
  <2>2. Gain(tree, job) = more
    BY <1>1
  <2> HIDE DEF more
  <2>3. us = values' /\ Len(us) = Len(values) + more
    BY <1>4, <2>1 DEF count
  <2>4. Keeps(job, Len(values)) = 0
    BY <1>3 DEF count
  <2> HIDE DEF us
  <2> QED
    BY <1>1, <1>3, <2>1, <2>2, <2>3, <2>4, PlainTypes
<1>5. CASE Declare
  <2>1. us = values /\ job.do = "VarDecl"
    BY <1>5, Doing DEF Declare
  <2> QED
    BY <1>2, <1>4, <2>1
<1>6. CASE CreateStore \/ CreateRet
  <2>1. Use(1, top) /\ job.do \in {"AssignSt", "ReturnSt"}
    BY <1>6, Doing DEF CreateStore, CreateRet, Yield
  <2> DEFINE used == 1
             v == top
  <2>2. used \in Nat /\ used <= Len(values) /\ count + (1 - used) = 1
    BY <1>2, <2>1
  <2>3. us = Append(SubSeq(values, 1, Len(values) - used), v)
    BY <2>1 DEF Use
  <2> HIDE DEF used, us, v, count
  <2>4. Len(us) = Len(values) + (1 - used)
    BY <1>1, <2>2, <2>3, UsedCount
  <2> QED
    BY <1>1, <1>4, <2>1, <2>2, <2>4 DEF count
<1>7. CASE Statement \/ (Merge /\ job.do = "else")
  <2>1. us = SubSeq(values, 1, Len(values) - 1) /\ job.do \in {"statement", "else"}
    BY <1>7, Doing DEF Statement, Merge
  <2> HIDE DEF us
  <2>2. Len(us) = 0
    BY <1>2, <2>1, OneDropped DEF CodeInv
  <2> QED
    BY <1>4, <2>1, <2>2
<1>8. CASE Merge /\ job.do # "else"
  <2>1. Use(1, Label(job.goOnIn)) /\ job.do = "merge"
    BY <1>8, Doing DEF Merge
  <2> DEFINE used == 1
             v == Label(job.goOnIn)
  <2>2. used \in Nat /\ used <= Len(values) /\ count + (1 - used) = 1
    <3>1. count = 1
      BY <1>2, <2>1
    <3> QED
      BY <3>1
  <2>3. us = Append(SubSeq(values, 1, Len(values) - used), v)
    BY <2>1 DEF Use
  <2> HIDE DEF used, us, v, count
  <2>4. Len(us) = Len(values) + (1 - used)
    BY <1>1, <2>2, <2>3, UsedCount
  <2> QED
    BY <1>1, <1>4, <2>1, <2>2, <2>4 DEF count
<1>9. CASE EndBlock
  <2> DEFINE used == 0
             v == GetInsertBlock.value
  <2>1. Use(used, v) /\ job.do = "Block"
    BY <1>9, Doing DEF EndBlock, Yield
  <2>2. used \in Nat /\ used <= Len(values) /\ count + (1 - used) = 1
    BY <1>2, <2>1
  <2>3. us = Append(SubSeq(values, 1, Len(values) - used), v)
    BY <2>1 DEF Use
  <2> HIDE DEF used, us, v, count
  <2>4. Len(us) = Len(values) + (1 - used)
    BY <1>1, <2>2, <2>3, UsedCount
  <2> QED
    BY <1>1, <1>4, <2>1, <2>2, <2>4 DEF count
<1> QED
  BY <1>5, <1>6, <1>7, <1>8, <1>9

LEMMA EmptyTypes ==
  ASSUME TypeOK, Generable, CodeInv, GenerateEmpty,
         NEW y, Typed(todo, y), Holds(y[1], values)
  PROVE  TypesFit(todo', values')
<1> DEFINE us == values'
           count == Len(values)
           used == 0
           more == 1
           v == GetInsertBlock.value
<1>1. /\ Running /\ Then(<<>>) /\ Use(used, v)
      /\ job.do = "generate" /\ tree[job.node].kind = "Empty"
  BY Doing DEF GenerateEmpty, Generate, Yield, here
<1>2. tree[job.node].kind \notin Proper /\ tree[job.node].kind # "Root"
  BY <1>1 DEF Proper, ExpressionKinds, Literals, Operations
<1>3. count = 0 /\ Gain(tree, job) = more
  BY <1>1, <1>2, AtJob DEF DepthFits, Gain
<1>4. Promise(job) = {} /\ Keeps(job, count) = 0
  BY <1>1, <1>2, <1>3, PlainFacts
<1>5. used \in Nat /\ used <= Len(values) /\ more \in Int /\ more = 1 - used
  BY <1>3
<1>6. us = Append(SubSeq(values, 1, Len(values) - used), v)
  BY <1>1 DEF Use
<1>7. us = values'
  OBVIOUS
<1> HIDE DEF used, us, v, count, more
<1>8. Len(us) = Len(values) + more
  BY <1>1, <1>5, <1>6, UsedCount
<1>9. Keeps(job, Len(values)) = 0
  BY <1>4 DEF count
<1> QED
  BY <1>1, <1>3, <1>4, <1>5, <1>7, <1>8, <1>9, PlainTypes

LEMMA ExpressionFacts ==
  ASSUME NEW j, IsOf(tree, j, Proper)
  PROVE  /\ Gain(tree, j) = 1 /\ Promise(j) = {TypeOf[j.node]}
         /\ \A k : Keeps(j, k) = k
<1>1. j.do = "generate" /\ tree[j.node].kind \in Proper
  BY DEF IsOf
<1>2. tree[j.node].kind # "Root" /\ tree[j.node].kind \in Kind
  BY <1>1 DEF Proper, Kind, ExpressionKinds, Literals, Operations
<1> QED
  BY <1>1, <1>2 DEF Gain, Promise, Keeps, IsOf

\* An expression without a part leaves a value of its type.
LEMMA LeafTypes ==
  ASSUME Running, NEW y, Typed(todo, y), Holds(y[1], values), Then(<<>>),
         IsOf(tree, job, Proper), NEW v, Use(0, v), v.type = TypeOf[job.node]
  PROVE  TypesFit(todo', values')
<1> DEFINE used == 0
           count == Len(values)
<1>1. /\ Gain(tree, job) = 1 /\ Promise(job) = {v.type}
      /\ \A k : Keeps(job, k) = k
  BY ExpressionFacts
<1>2. count \in Nat
  BY AtJob
<1>3. Keeps(job, count) = count
  BY <1>1
<1>4. used \in Nat /\ used <= count /\ Use(used, v) /\ Gain(tree, job) = 1 - used
      /\ Keeps(job, count) = count - used
  <2>1. Keeps(job, count) = count
    BY <1>3
  <2>2. used <= count /\ Keeps(job, count) = count - used
    <3> HIDE DEF count
    <3> QED
      BY <1>2, <2>1
  <2> QED
    BY <1>1, <2>2
<1> HIDE DEF used
<1> QED
  BY <1>1, <1>4, ResultTypes

LEMMA LiteralTypes ==
  ASSUME TypeOK, Generable, CodeInv, GenerateLiteral,
         NEW y, Typed(todo, y), Holds(y[1], values)
  PROVE  TypesFit(todo', values')
<1> DEFINE m == job.node
           v == IF here.kind = "FloatExpr" THEN Constant("f32", Unknown)
                ELSE Constant("i32", here.value % PowerOf2[ValueBits])
<1>1. /\ Running /\ Then(<<>>) /\ Use(0, v) /\ job.do = "generate" /\ here = tree[m]
      /\ here.kind \in {"FloatExpr", "IntegerExpr", "BoolExpr"}
  BY Doing DEF GenerateLiteral, Generate, Yield, here
<1>2. IsOf(tree, job, Proper) /\ here.kind \notin Operations
  BY <1>1 DEF IsOf, Proper, ExpressionKinds, Literals, Operations
<1>3. TypeOf[m] = TypeOfOperand(m)
  BY <1>1, <1>2, AtJob, TypesOfKinds DEF Running, TypeOK
<1>4. v.type = IF here.kind = "FloatExpr" THEN "f32" ELSE "i32"
  <2> DEFINE w == here.value % PowerOf2[ValueBits]
  <2>1. v = IF here.kind = "FloatExpr" THEN Constant("f32", Unknown) ELSE Constant("i32", w)
    OBVIOUS
  <2> HIDE DEF w, v
  <2> QED
    BY <2>1 DEF Constant
<1>5. v.type = TypeOf[m]
  BY <1>1, <1>3, <1>4, OperandTypes
<1> HIDE DEF v
<1> QED
  BY <1>1, <1>2, <1>5, LeafTypes

LEMMA VariableTypes ==
  ASSUME TypeOK, Generable, CodeInv, Resolved, GenerateVarExpr,
         NEW y, Typed(todo, y), Holds(y[1], values)
  PROVE  TypesFit(todo', values')
<1> DEFINE m == job.node
           d == symbolThere.declaredAt
           i == Instruction("load", toLLVMType(tree[d].typeName), <<>>, <<d>>)
           v == Insert(i).value
<1>1. /\ Running /\ Then(<<>>) /\ Use(0, v) /\ job.do = "generate" /\ here = tree[m]
      /\ here.kind = "VarExpr" /\ symbolThere # NoSymbol /\ symbolThere = symbolOf[m]
      /\ m \in DOMAIN tree
  BY Doing, AtJob DEF GenerateVarExpr, Generate, Yield, here, symbolThere
<1>2. IsOf(tree, job, Proper) /\ here.kind \notin Operations
  BY <1>1 DEF IsOf, Proper, ExpressionKinds, Literals, Operations
<1>3. TypeOf[m] = TypeOfOperand(m)
  BY <1>1, <1>2, TypesOfKinds DEF Running, TypeOK
<1>4. Visible(m) = {d}
  BY <1>1, ExpressionsSeen DEF Running, TypeOK
<1>5. TypeOfOperand(m) = TypeOfDeclaration(d)
  BY <1>1, <1>4, OperandTypes DEF Declared
<1>6. v.type = toLLVMType(tree[d].typeName)
  <2>1. v.type = i.type
    <3> HIDE DEF i
    <3> QED
      BY DEF Insert, Register
  <2>2. i.type = toLLVMType(tree[d].typeName)
    BY DEF Instruction
  <2> QED
    BY <2>1, <2>2
<1>7. v.type = TypeOf[m]
  BY <1>3, <1>5, <1>6 DEF TypeOfDeclaration
<1> HIDE DEF v
<1> QED
  BY <1>1, <1>2, <1>7, LeafTypes

LEMMA BuiltType ==
  ASSUME NEW op, NEW type, NEW a, NEW b
  PROVE  Build(op, type, a, b).value.type = type
<1> DEFINE w == Compute(op, Bits(a.type), a.v, b.v)
           i == Instruction(op, type, <<a, b>>, <<>>)
<1>1. i.type = type
  BY DEF Instruction
<1>2. Build(op, type, a, b) = IF a.is = "constant" /\ b.is = "constant"
                                THEN [value |-> Constant(type, w), code |-> <<>>]
                                ELSE Insert(i)
  BY DEF Build
<1> HIDE DEF w, i
<1>3. Insert(i).value.type = type
  BY <1>1 DEF Insert, Register
<1>4. Constant(type, w).type = type
  BY DEF Constant
<1> QED
  BY <1>2, <1>3, <1>4

LEMMA CombineTypes ==
  ASSUME TypeOK, Generable, CodeInv, Combine,
         NEW y, Typed(todo, y), Holds(y[1], values)
  PROVE  TypesFit(todo', values')
<1> DEFINE count == Len(values)
           used == 2
           v == Build(operator, top.type, operands[1], operands[2]).value
<1>1. /\ Running /\ Then(<<>>) /\ Use(used, v) /\ job.do = "combine"
      /\ left.type = top.type
  BY Doing DEF Combine, Yield, sameIntegers
<1>2. v.type = top.type
  BY BuiltType
<1>3. count \in Nat /\ count > 1
  BY <1>1, AtJob DEF DepthFits
<1>4. Promise(job) = {} /\ Keeps(job, count) = count - 1 /\ Gain(tree, job) = -1
  BY <1>1 DEF Promise, Keeps, Gain, IsOf
<1>5. left = values[count - 1]
  BY DEF left
<1> HIDE DEF v, count
<1>6. /\ used \in Nat /\ used <= count /\ used > 0 /\ Gain(tree, job) = 1 - used
      /\ count - used + 1 = count - 1
  BY <1>3, <1>4
<1>7. Keeps(job, count) = count - used + 1 /\ v.type = values[count - used + 1].type
  BY <1>1, <1>2, <1>4, <1>5, <1>6
<1> HIDE DEF used
<1> USE DEF count
<1> QED
  BY <1>1, <1>4, <1>6, <1>7, SameTypes

LEMMA MinusTypes ==
  ASSUME TypeOK, Generable, CodeInv, Minus,
         NEW y, Typed(todo, y), Holds(y[1], values)
  PROVE  TypesFit(todo', values')
<1> DEFINE count == Len(values)
           used == 1
           v == Build("MUL", top.type, top, MinusOne(top.type)).value
<1>1. Running /\ Then(<<>>) /\ Use(used, v) /\ job.do = "MINUS"
  BY Doing DEF Minus, Yield
<1>2. v.type = top.type
  BY BuiltType
<1>3. count \in Nat /\ count > 0
  BY <1>1, AtJob DEF DepthFits
<1>4. Promise(job) = {} /\ Keeps(job, count) = count /\ Gain(tree, job) = 0
  BY <1>1 DEF Promise, Keeps, Gain, IsOf
<1>5. top = values[count]
  BY DEF top
<1> HIDE DEF v, count
<1>6. /\ used \in Nat /\ used <= count /\ used > 0 /\ Gain(tree, job) = 1 - used
      /\ count - used + 1 = count
  BY <1>3, <1>4
<1>7. Keeps(job, count) = count - used + 1 /\ v.type = values[count - used + 1].type
  BY <1>2, <1>4, <1>5, <1>6
<1> HIDE DEF used
<1> USE DEF count
<1> QED
  BY <1>1, <1>4, <1>6, <1>7, SameTypes

\* A name is that of one function.
LEMMA LaterFunction ==
  ASSUME WellFormed(tree), Resolved, NEW f \in Of({"FnDef"}), NEW e \in Of({"FnDef"}),
         tree[f].name = tree[e].name, f < e
  PROVE  FALSE
<1>1. /\ f \in DOMAIN tree /\ tree[f].kind = "FnDef"
      /\ e \in DOMAIN tree /\ tree[e].kind = "FnDef"
  BY DEF Of
<1>2. f \in Declarations /\ Parent(f) = 1 /\ e \in Declarations
  BY <1>1, Bounding DEF Declarations, IsFn
<1>3. f \in Visible(e)
  BY <1>1, <1>2, AtTop
<1>4. e \notin Arguments
  BY <1>2, ArgumentsDeclareNothing
<1>5. Correct(e)
  BY <1>1, <1>4 DEF Resolved
<1> QED
  BY <1>1, <1>2, <1>3, <1>5 DEF Correct

LEMMA OneFunction ==
  ASSUME WellFormed(tree), Resolved, NEW f \in Of({"FnDef"}), NEW e \in Of({"FnDef"}),
         tree[f].name = tree[e].name
  PROVE  f = e
<1>1. f \in Int /\ e \in Int
  BY TreeShape DEF Of
<1> QED
  BY <1>1, LaterFunction

\* What is called is the function that can be seen.
LEMMA CalledFunction ==
  ASSUME Running, Resolved, job.do = "call",
         NEW c \in 1 .. Len(tree) + 1, Progress(c, todo, functions, allocated)
  PROVE  /\ job.node \in DOMAIN tree /\ tree[job.node].kind = "FnCallExpr"
         /\ \E f \in Functions(job.node) :
              Visible(job.node) = {f} /\ functions[callee] = Signature(f)
<1> DEFINE m == job.node
<1>1. /\ m \in DOMAIN tree /\ tree[m].kind = "FnCallExpr" /\ WellFormed(tree)
      /\ 1 \in DOMAIN todo /\ job = todo[1] /\ here.name = tree[m].name
      /\ \E g \in DOMAIN functions : functions[g].name = tree[m].name
  BY AtJob DEF JobFits, About, Running, TypeOK, here
<1>2. callee \in DOMAIN functions /\ functions[callee].name = tree[m].name
  <2>1. named(here.name) # {}
    BY <1>1 DEF named
  <2>2. callee \in named(here.name)
    BY <2>1 DEF callee
  <2> QED
    BY <1>1, <2>2 DEF named
<1>3. PICK f \in Functions(m) : TRUE
  BY <1>1 DEF Progress, Accounted
<1>4. f \in Visible(m) /\ f \in Of({"FnDef"}) /\ tree[f].name = tree[m].name
  BY <1>3 DEF Functions, Variables, Visible, Declarations, Of
<1>5. Visible(m) = {f}
  BY <1>1, <1>4 DEF Resolved
<1>6. PICK e \in Of({"FnDef"}) : functions[callee] = Signature(e)
  BY <1>2 DEF Progress, Knows
<1>7. tree[e].name = tree[m].name
  BY <1>2, <1>6 DEF Signature
<1>8. e = f
  BY <1>1, <1>4, <1>7, OneFunction
<1> QED
  BY <1>1, <1>3, <1>5, <1>6, <1>8

LEMMA ResultOfCallTypes ==
  ASSUME TypeOK, Generable, CodeInv, Resolved, CreateCall,
         NEW c \in 1 .. Len(tree) + 1, Progress(c, todo, functions, allocated),
         NEW y, Typed(todo, y), Holds(y[1], values)
  PROVE  TypesFit(todo', values')
<1> DEFINE m == job.node
           count == Len(values)
           used == Len(here.kids)
           i == Instruction("call", functions[callee].type, arguments, <<callee>>)
           v == Insert(i).value
<1>1. /\ Running /\ Then(<<>>) /\ Use(used, v) /\ job.do = "call" /\ here = tree[m]
  BY Doing DEF CreateCall, Yield, here
<1>2. m \in DOMAIN tree /\ tree[m].kind = "FnCallExpr"
  BY <1>1, CalledFunction
<1>3. PICK f \in Functions(m) : Visible(m) = {f} /\ functions[callee] = Signature(f)
  BY <1>1, CalledFunction
<1>4. TypeOf[m] = TypeOfDeclaration(f)
  <2>1. tree[m].kind \notin Operations
    BY <1>2 DEF Operations
  <2>2. TypeOf[m] = TypeOfOperand(m)
    BY <1>1, <1>2, <2>1, TypesOfKinds DEF Running, TypeOK
  <2>3. Declared(m) = f
    BY <1>3 DEF Declared
  <2> QED
    BY <1>2, <1>3, <2>2, <2>3, OperandTypes
<1>5. v.type = functions[callee].type
  <2>1. i.type = functions[callee].type
    BY DEF Instruction
  <2> HIDE DEF i
  <2> QED
    BY <2>1 DEF Insert, Register
<1>6. functions[callee].type = TypeOfDeclaration(f)
  BY <1>3 DEF Signature
<1>7. used \in Nat /\ count \in Nat
  BY <1>1, Here, AtJob
<1>8. count >= used /\ Gain(tree, job) = 1 - used /\ Promise(job) = {TypeOf[m]}
      /\ Keeps(job, count) = count - used
  BY <1>1, AtJob DEF DepthFits, Gain, Promise, Keeps, IsOf
<1> HIDE DEF v, count, used
<1>9. used <= count /\ Promise(job) \subseteq {v.type}
  BY <1>4, <1>5, <1>6, <1>7, <1>8
<1> USE DEF count
<1> QED
  BY <1>1, <1>7, <1>8, <1>9, ResultTypes

\* Every step that does not end the generation.
LEMMA TypesStep ==
  ASSUME TypeOK, Generable, CodeInv, Resolved, CodegenNext, ~Stops,
         NEW c \in 1 .. Len(tree) + 1, Progress(c, todo, functions, allocated),
         TypesFit(todo, values)
  PROVE  TypesFit(todo', values')
<1>1. PICK y : Typed(todo, y) /\ Holds(y[1], values)
  BY DEF TypesFit
<1>2. CASE Declare \/ CreateStore \/ CreateRet \/ Statement \/ Merge \/ EndBlock
  BY <1>1, <1>2, StepTypes
<1>3. CASE GenerateEmpty
  BY <1>1, <1>3, EmptyTypes
<1>4. CASE GenerateLiteral
  BY <1>1, <1>4, LiteralTypes
<1>5. CASE GenerateVarExpr
  BY <1>1, <1>5, VariableTypes
<1>6. CASE Combine
  BY <1>1, <1>6, CombineTypes
<1>7. CASE Minus
  BY <1>1, <1>7, MinusTypes
<1>8. CASE CreateCall
  BY <1>1, <1>8, ResultOfCallTypes
<1>9. CASE GenerateChain
  BY <1>1, <1>9, ChainTypes
<1>10. CASE GeneratePrefixExpr
  BY <1>1, <1>10, PrefixTypes
<1>11. CASE Negate
  BY <1>1, <1>11, NegateTypes
<1>12. CASE GenerateFnCallExpr
  BY <1>1, <1>12, CallTypes
<1>13. CASE GenerateOperand
  BY <1>1, <1>13, StatementTypes
<1>14. CASE GenerateEach
  BY <1>1, <1>14, EachTypes
<1>15. CASE GenerateFnDef
  BY <1>1, <1>15, FnDefTypes
<1>16. CASE Branch
  BY <1>1, <1>16, BranchTypes
<1> QED
  BY <1>2, <1>3, <1>4, <1>5, <1>6, <1>7, <1>8, <1>9, <1>10, <1>11, <1>12, <1>13, <1>14,
     <1>15, <1>16 DEF CodegenNext, Stops

\* The operands of an operation are of two types, or no integers.
LEMMA CombineCause ==
  ASSUME Running, TypesFit(todo, values), job.do = "combine", ~sameIntegers
  PROVE  MixesTypes
<1> DEFINE m == job.node
           count == Len(values)
<1>1. PICK y : Typed(todo, y) /\ Holds(y[1], values)
  BY DEF TypesFit
<1> DEFINE x == y[1]
<1>2. x.count = count /\ Demands(job, x) /\ \A i \in 1 .. count : x.types[i] \subseteq {values[i].type}
  BY <1>1, AtStack DEF Holds
<1>3. /\ m \in DOMAIN tree /\ tree[m].kind \in Chains /\ count \in Nat /\ count > 1
  BY AtJob DEF DepthFits, JobFits, About
<1>4. x.types[count - 1] = {TypeOf[tree[m].kids[1]]}
  BY <1>2 DEF Demands
<1>5. PICK k \in Kids(m) : x.types[count] = {TypeOf[k]}
  BY <1>2 DEF Demands
<1>6. left = values[count - 1] /\ top = values[count]
  BY DEF left, top
<1> HIDE DEF count, x
<1>7. count - 1 \in 1 .. count /\ count \in 1 .. count
  BY <1>3
<1>8. left.type = TypeOf[tree[m].kids[1]] /\ top.type = TypeOf[k]
  BY <1>2, <1>4, <1>5, <1>6, <1>7
<1>9. TypeOf[k] \notin {TypeOf[tree[m].kids[1]]} \cap IntegerTypes
  BY <1>8 DEF sameIntegers
<1>10. m \in Of(Chains)
  BY <1>3 DEF Of
<1> QED
  BY <1>9, <1>10 DEF MixesTypes

\* The arguments of a call are not of the types of the parameters.
LEMMA CallCause ==
  ASSUME Running, Resolved, TypesFit(todo, values), job.do = "call",
         argumentTypes # functions[callee].params,
         NEW c \in 1 .. Len(tree) + 1, Progress(c, todo, functions, allocated)
  PROVE  MixesTypes
<1> DEFINE m == job.node
           count == Len(values)
           kids == tree[m].kids
           number == Len(kids)
           first == count - number + 1
           given == arguments
<1>1. PICK y : Typed(todo, y) /\ Holds(y[1], values)
  BY DEF TypesFit
<1> DEFINE x == y[1]
<1>2. x.count = count /\ Demands(job, x) /\ \A i \in 1 .. count : x.types[i] \subseteq {values[i].type}
  BY <1>1, AtStack DEF Holds
<1>3. m \in DOMAIN tree /\ tree[m].kind = "FnCallExpr"
  BY CalledFunction
<1>4. PICK f \in Functions(m) : functions[callee] = Signature(f)
  BY CalledFunction
<1>5. /\ count \in Nat /\ number \in Nat /\ count >= number /\ DOMAIN kids = 1 .. number
      /\ DOMAIN values = 1 .. count /\ here.kids = kids
  BY AtJob, Here DEF DepthFits, here
<1>6. \A i \in DOMAIN kids : x.types[(count - number) + i] = {TypeOf[kids[i]]}
  BY <1>2 DEF Demands
<1>7. given = SubSeq(values, first, count)
  BY <1>5 DEF arguments
<1> HIDE DEF count, number, x, kids, given
<1>8. \A i \in 1 .. number : /\ (count - number) + i \in 1 .. count
                             /\ first + i - 1 = (count - number) + i
  BY <1>5
<1>9. DOMAIN given = 1 .. number /\ \A i \in 1 .. number : given[i] = values[(count - number) + i]
  <2> DEFINE R == {values[i] : i \in 1 .. count}
  <2>1. \A i \in first .. count : values[i] \in R
    BY <1>5
  <2>2. first \in Int /\ count \in Int /\ count - first + 1 = number
        /\ (~(first <= count) => number = 0)
    BY <1>5
  <2> HIDE DEF R, first
  <2>3. /\ given \in Seq(R) /\ Len(given) = (IF first <= count THEN count - first + 1 ELSE 0)
        /\ \A i \in 1 .. count - first + 1 : given[i] = values[first + i - 1]
    BY <1>7, <2>1, <2>2, SubSeqProperties
  <2>4. DOMAIN given = 1 .. Len(given) /\ Len(given) = number
    BY <2>2, <2>3, LenProperties
  <2> QED
    BY <1>8, <2>2, <2>3, <2>4 DEF first
<1>10. ASSUME NEW i \in 1 .. number PROVE given[i].type = TypeOf[kids[i]]
  <2> DEFINE k == (count - number) + i
  <2>1. k \in 1 .. count /\ given[i] = values[k] /\ x.types[k] = {TypeOf[kids[i]]}
    BY <1>5, <1>6, <1>8, <1>9
  <2> HIDE DEF k
  <2> QED
    BY <1>2, <2>1
<1>11. argumentTypes = [k \in DOMAIN kids |-> TypeOf[kids[k]]]
  BY <1>5, <1>9, <1>10 DEF argumentTypes, given
<1>12. functions[callee].params = [k \in DOMAIN Params(f) |-> TypeOfDeclaration(Params(f)[k])]
  BY <1>4 DEF Signature
<1>13. [k \in DOMAIN tree[m].kids |-> TypeOf[tree[m].kids[k]]]
         # [k \in DOMAIN Params(f) |-> TypeOfDeclaration(Params(f)[k])]
  BY <1>11, <1>12 DEF kids
<1>14. m \in Of({"FnCallExpr"})
  BY <1>3 DEF Of
<1> QED
  BY <1>13, <1>14 DEF MixesTypes

-----------------------------------------------------------------------------
(* The generation ends for a cause.                                          *)

\* The causes, for an outcome.
HasCause(how) ==
  /\ how = "assert_failed" => \E m \in Arguments : tree[m].kind = "VarExpr"
  /\ how = "codegen_error" =>
       \/ \E m \in Arguments : ~Correct(m)
       \/ InitialisesWithItself
       \/ HasGlobalVariable /\ LacksValue
  /\ how = "crashed" => HasGlobalVariable
  /\ how = "undefined" => MixesTypes
  /\ how \in {"generated", "no_main"} =>
       (how = "no_main" <=> mains = {})

LEMMA CauseStep ==
  ASSUME TypeOK, Generable, CodeInv, Resolved, CodegenNext,
         NEW c \in 1 .. Len(tree) + 1, Progress(c, todo, functions, allocated),
         NullsFor(values), TypesFit(todo, values)
  PROVE  HasCause(outcome')
<1> DEFINE how == outcome'
<1>1. CASE ~Stops
  <2>1. how = "running"
    BY <1>1 DEF CodegenNext, Stops, Do, Then, Yield, Generate,
      GenerateLiteral, GenerateEmpty, GenerateVarExpr, GenerateChain, Combine,
      GeneratePrefixExpr, Negate, Minus, GenerateFnCallExpr, CreateCall, GenerateOperand,
      Declare, CreateStore, CreateRet, Branch, Merge, GenerateEach, Statement, EndBlock,
      GenerateFnDef
  <2> QED
    BY <2>1 DEF HasCause
<1>2. CASE fatalCodegenError
  <2>1. Running /\ how = "codegen_error"
    BY <1>2, Doing DEF fatalCodegenError, Stop
  <2>2. HasGlobalVariable /\ LacksValue
    BY <1>2, <2>1, NullCause DEF LacksGlobalValue
  <2> QED
    BY <2>1, <2>2 DEF HasCause
<1>3. CASE AssertSymbol
  <2>1. Running /\ how = "assert_failed"
    BY <1>3, Doing DEF AssertSymbol, Generate, Stop
  <2> QED
    BY <1>3, <2>1, AssertCause DEF HasCause
<1>4. CASE RefuseUnallocated
  <2>1. Running /\ how = "codegen_error"
    BY <1>4, Doing DEF RefuseUnallocated, Generate, Stop
  <2> QED
    BY <1>4, <2>1, UnallocatedCause DEF HasCause
<1>5. CASE RefuseCallee
  <2>1. Running /\ how = "codegen_error"
    BY <1>5, Doing DEF RefuseCallee, Generate, Stop
  <2> QED
    BY <1>5, <2>1, CalleeCause DEF HasCause
<1>6. CASE CombineOthers
  <2>1. Running /\ how = "undefined" /\ job.do = "combine" /\ ~sameIntegers
    BY <1>6, Doing DEF CombineOthers, Stop
  <2> QED
    BY <2>1, CombineCause DEF HasCause
<1>7. CASE CreateOtherCall
  <2>1. Running /\ how = "undefined" /\ job.do = "call"
        /\ argumentTypes # functions[callee].params
    BY <1>7, Doing DEF CreateOtherCall, Stop
  <2> QED
    BY <2>1, CallCause DEF HasCause
<1>8. CASE DeclareNowhere
  <2>1. Running /\ how = "crashed"
    BY <1>8, Doing DEF DeclareNowhere, Stop
  <2> QED
    BY <1>8, <2>1, NowhereCause DEF HasCause
<1>9. CASE EndRoot
  <2>1. Running
    BY <1>9, Doing DEF EndRoot
  <2>2. how \in {"generated", "no_main"} /\ (how = "no_main" <=> mains = {})
    BY <1>9, <2>1, EndCause
  <2> QED
    BY <2>2 DEF HasCause
<1> QED
  BY <1>1, <1>2, <1>3, <1>4, <1>5, <1>6, <1>7, <1>8, <1>9 DEF Stops

\* All of this is about the tree, which nobody changes.
LEMMA SameDeclared ==
  ASSUME tree' = tree
  PROVE  /\ \A m : /\ Visible(m)' = Visible(m) /\ Kids(m)' = Kids(m)
                   /\ Functions(m)' = Functions(m)
                   /\ Declared(m)' = Declared(m)
                   /\ TypeOfDeclaration(m)' = TypeOfDeclaration(m)
                   /\ Params(m)' = Params(m)
                   /\ Signature(m)' = Signature(m)
         /\ \A kinds : Of(kinds)' = Of(kinds)
         /\ \A m, kinds : Around(m, kinds)' = Around(m, kinds)
         /\ LacksValue' = LacksValue /\ HasGlobalVariable' = HasGlobalVariable
         /\ mains' = mains
<1>1. /\ Declarations' = Declarations
      /\ \A m : Subtree(m)' = Subtree(m) /\ Owner(m)' = Owner(m) /\ Variables(m)' = Variables(m)
  BY SameTree
<1>2. \A m : Visible(m)' = Visible(m)
  BY <1>1 DEF Visible
<1>3. \A m : Functions(m)' = Functions(m)
  BY <1>1, <1>2 DEF Functions
<1>4. \A m : Declared(m)' = Declared(m)
  BY <1>2 DEF Declared
<1>5. \A m : TypeOfDeclaration(m)' = TypeOfDeclaration(m)
  BY DEF TypeOfDeclaration
<1>6. \A m : Params(m)' = Params(m) /\ Kids(m)' = Kids(m)
  BY DEF Params, Kids
<1>7. \A m : Signature(m)' = Signature(m)
  BY <1>5, <1>6 DEF Signature
<1>8. \A kinds : Of(kinds)' = Of(kinds)
  BY DEF Of
<1>9. \A m, kinds : Around(m, kinds)' = Around(m, kinds)
  BY <1>1, <1>8 DEF Around
<1>10. LacksValue' = LacksValue /\ mains' = mains
  BY <1>8 DEF LacksValue, mains, Of
<1>11. HasGlobalVariable' = HasGlobalVariable
  BY <1>6 DEF HasGlobalVariable
<1> QED
  BY <1>2, <1>3, <1>4, <1>5, <1>6, <1>7, <1>8, <1>9, <1>10, <1>11

LEMMA SameTypeOf ==
  ASSUME tree' = tree
  PROVE  TypeOf' = TypeOf
<1>1. \A m : TypeOfOperand(m)' = TypeOfOperand(m)
  BY SameDeclared DEF TypeOfOperand
<1>2. \A m : Negated(m)' = Negated(m)
  BY DEF Negated
<1> QED
  BY <1>1, <1>2 DEF TypeOf

LEMMA SameCauses ==
  ASSUME tree' = tree, NEW how
  PROVE  HasCause(how)' = HasCause(how)
<1>1. MixesTypes' = MixesTypes
  <2>1. TypeOf' = TypeOf
    BY SameTypeOf
  <2>2. /\ \A m : Kids(m)' = Kids(m) /\ Functions(m)' = Functions(m) /\ Params(m)' = Params(m)
                  /\ TypeOfDeclaration(m)' = TypeOfDeclaration(m)
        /\ \A kinds : Of(kinds)' = Of(kinds)
    BY SameDeclared
  <2> QED
    BY <2>1, <2>2 DEF MixesTypes
<1>2. InitialisesWithItself' = InitialisesWithItself
  <2>1. /\ \A m : Variables(m)' = Variables(m)
    BY SameTree
  <2>2. Of({"VarExpr"})' = Of({"VarExpr"}) /\ \A m : Around(m, {"VarDecl"})' = Around(m, {"VarDecl"})
    BY SameDeclared
  <2> QED
    BY <2>1, <2>2 DEF InitialisesWithItself
<1>3. (\E m \in Arguments : tree[m].kind = "VarExpr")' = (\E m \in Arguments : tree[m].kind = "VarExpr")
  BY SameTree
<1>4. (\E m \in Arguments : ~Correct(m))' = (\E m \in Arguments : ~Correct(m))
  BY SameTree
<1>5. LacksValue' = LacksValue /\ HasGlobalVariable' = HasGlobalVariable /\ mains' = mains
  BY SameDeclared
<1> QED
  BY <1>1, <1>2, <1>3, <1>4, <1>5 DEF HasCause

LEMMA SameProgress ==
  ASSUME tree' = tree, NEW c, Progress(c, todo', functions', allocated')
  PROVE  Progress(c, todo, functions, allocated)'
<1>1. OnItsWay(c, todo)'
  BY SameTree DEF Progress, OnItsWay, Ascending, ToCome, Comes, Coming
<1>2. Initialising(todo)'
  BY SameTree DEF Progress, Initialising, MayPrecede
<1>3. Allocates(c, todo, allocated)'
  BY DEF Progress, Allocates, Storage, Of
<1>4. Knows(c, functions)'
  <2>1. (\A f : Signature(f)' = Signature(f)) /\ Of({"FnDef"})' = Of({"FnDef"})
    BY SameDeclared
  <2> QED
    BY <2>1 DEF Progress, Knows
<1>5. (\A k \in DOMAIN todo : Accounted(functions, todo[k]))'
  <2>1. \A k \in DOMAIN todo' : Accounted(functions', todo'[k])
    BY DEF Progress
  <2>2. LacksValue' = LacksValue /\ \A m : Functions(m)' = Functions(m)
    BY SameDeclared
  <2> QED
    BY <2>1, <2>2 DEF Accounted, IsOf
<1> QED
  BY <1>1, <1>2, <1>3, <1>4, <1>5 DEF Progress

LEMMA SameTypesFit ==
  ASSUME tree' = tree, TypesFit(todo', values')
  PROVE  TypesFit(todo, values)'
<1>1. TypeOf' = TypeOf
  BY SameTypeOf
<1>2. \A j, x : After(j, x)' = After(j, x)
  BY <1>1 DEF After, Promise, Keeps, Gain, IsOf, Stack
<1>3. \A j, x : Demands(j, x)' = Demands(j, x)
  BY <1>1, SameDeclared DEF Demands
<1>4. PICK y : Typed(todo', y) /\ Holds(y[1], values')
  BY DEF TypesFit
<1>5. Typed(todo, y)'
  BY <1>2, <1>3, <1>4 DEF Typed
<1>6. Holds(y[1], values)'
  BY <1>4 DEF Holds
<1> QED
  BY <1>5, <1>6 DEF TypesFit

LEMMA SameNulls ==
  ASSUME tree' = tree, NullsFor(values')
  PROVE  NullsFor(values)'
BY SameDeclared DEF NullsFor, LacksGlobalValue

\* While it goes on there is a place in the text up to which it has come, and
\* the values that wait are of the types that are expected.
OnTheWay ==
  /\ \E c \in 1 .. Len(tree) + 1 : Progress(c, todo, functions, allocated)
  /\ NullsFor(values)
  /\ TypesFit(todo, values)

FailureInv == (outcome = "running" => OnTheWay) /\ HasCause(outcome)

LEMMA FailureBegins ==
  ASSUME TypeOK, CodegenInit
  PROVE  FailureInv
<1> DEFINE j == [do |-> "generate", node |-> 1]
           s == <<j>>
<1>1. /\ todo = s /\ values = <<>> /\ functions = <<>> /\ outcome = "running"
      /\ WellFormed(tree)
  BY DEF CodegenInit, TypeOK
<1>2. /\ Len(tree) \in Nat /\ DOMAIN tree = 1 .. Len(tree) /\ 1 \in DOMAIN tree
      /\ tree[1].kind = "Root"
      /\ \A k \in 2 .. Len(tree) : Parent(k) \in 1 .. k - 1
  BY <1>1, TreeShape
<1>3. j.do = "generate" /\ j.node = 1
  OBVIOUS
<1> HIDE DEF j
<1>4. s[1] = j /\ DOMAIN s = {1} /\ 1 + 1 \notin {1}
  OBVIOUS
<1> HIDE DEF s
<1>5. Comes(j) = {1} /\ ToCome(s) = {1}
  BY <1>3, <1>4 DEF Comes, ToCome
<1>6. OnItsWay(1, s)
  <2>1. Ascending(s)
    BY <1>4 DEF Ascending
  <2>2. Coming(1) = {1}
    <3>1. ASSUME NEW m \in Coming(1) PROVE m = 1
      <4>1. m \in 1 .. Len(tree) /\ (m = 1 \/ Parent(m) < 1)
        BY DEF Coming
      <4>2. m \in 2 .. Len(tree) => Parent(m) \in Nat /\ ~(Parent(m) < 1)
        BY <1>2
      <4> QED
        BY <1>2, <4>1, <4>2
    <3>2. 1 \in Coming(1)
      BY <1>2 DEF Coming
    <3> QED
      BY <3>1, <3>2
  <2> QED
    BY <1>3, <1>4, <1>5, <2>1, <2>2 DEF OnItsWay
<1>7. Initialising(s)
  BY <1>3, <1>4 DEF Initialising
<1>8. Allocates(1, s, allocated)
  BY <1>2 DEF Allocates, Storage, Of
<1>9. Knows(1, <<>>)
  <2>1. \A f \in Of({"FnDef"}) : ~(f < 1)
    BY <1>2 DEF Of
  <2> QED
    BY <2>1 DEF Knows
<1>10. Accounted(<<>>, j)
  BY <1>2, <1>3 DEF Accounted, IsOf
<1>11. Progress(1, s, <<>>, allocated)
  BY <1>4, <1>6, <1>7, <1>8, <1>9, <1>10 DEF Progress
<1>12. NullsFor(<<>>)
  BY DEF NullsFor
<1>13. TypesFit(s, <<>>)
  <2> DEFINE x == Bare(0)
             y == <<x>>
  <2>1. y[1] = x
    OBVIOUS
  <2>2. Holds(x, <<>>)
    BY BareCount
  <2> HIDE DEF x, y
  <2>3. Typed(s, y)
    BY <1>3, <1>4 DEF Typed, Demands
  <2> QED
    BY <2>1, <2>2, <2>3 DEF TypesFit
<1>14. 1 \in 1 .. Len(tree) + 1
  BY <1>2
<1>15. OnTheWay
  BY <1>1, <1>11, <1>12, <1>13, <1>14 DEF OnTheWay
<1>16. HasCause("running")
  BY DEF HasCause
<1> QED
  BY <1>1, <1>15, <1>16 DEF FailureInv

LEMMA SameWay ==
  ASSUME tree' = tree,
         \E c \in 1 .. Len(tree) + 1 : Progress(c, todo', functions', allocated'),
         NullsFor(values'), TypesFit(todo', values')
  PROVE  OnTheWay'
<1>1. PICK c \in 1 .. Len(tree) + 1 : Progress(c, todo', functions', allocated')
  OBVIOUS
<1>2. Progress(c, todo, functions, allocated)'
  BY <1>1, SameProgress
<1>3. NullsFor(values)' /\ TypesFit(todo, values)'
  BY SameNulls, SameTypesFit
<1> QED
  BY <1>2, <1>3 DEF OnTheWay

LEMMA SameCause ==
  ASSUME tree' = tree, HasCause(outcome')
  PROVE  HasCause(outcome)'
<1> DEFINE how == outcome'
<1>1. \A x : HasCause(x)' = HasCause(x)
  BY SameCauses
<1> QED
  BY <1>1

LEMMA FailureStep ==
  ASSUME TypeOK, ScopingInv, ArgsBare, GenerationInv, FailureInv, [BackendNext]_backendVars
  PROVE  FailureInv'
<1>1. CASE tree' = tree /\ UNCHANGED codegenVars
  <2>1. /\ todo' = todo /\ values' = values /\ functions' = functions
        /\ allocated' = allocated /\ outcome' = outcome
    BY <1>1 DEF codegenVars, generated
  <2>2. ASSUME outcome' = "running" PROVE OnTheWay'
    BY <1>1, <2>1, <2>2, SameWay DEF FailureInv, OnTheWay
  <2>3. HasCause(outcome)'
    BY <1>1, <2>1, SameCause DEF FailureInv
  <2> QED
    BY <2>2, <2>3 DEF FailureInv
<1>2. CASE CodegenNext
  <2>1. /\ tree' = tree /\ status = "analysed" /\ outcome = "running"
    BY <1>2, CodegenKeepsTree DEF vars, CodegenNext, Do, Generate,
      fatalCodegenError, AssertSymbol, RefuseUnallocated,
      RefuseCallee, CombineOthers, CreateOtherCall, DeclareNowhere,
      GenerateLiteral, GenerateEmpty, GenerateVarExpr, GenerateChain,
      Combine, GeneratePrefixExpr, Negate, Minus, GenerateFnCallExpr,
      CreateCall, GenerateOperand, Declare, CreateStore, CreateRet, Branch,
      Merge, GenerateEach, Statement, EndBlock, GenerateFnDef, EndRoot
  <2>2. Resolved
    BY <2>1, AnalysedIsResolved
  <2>3. PICK c \in 1 .. Len(tree) + 1 : Progress(c, todo, functions, allocated)
    BY <2>1 DEF FailureInv, OnTheWay
  <2>4. Generable /\ CodeInv /\ NullsFor(values) /\ TypesFit(todo, values)
    BY <2>1 DEF FailureInv, OnTheWay, GenerationInv
  <2>5. HasCause(outcome')
    BY <1>2, <2>2, <2>3, <2>4, CauseStep
  <2>6. HasCause(outcome)'
    BY <2>1, <2>5, SameCause
  <2>7. ASSUME outcome' = "running" PROVE OnTheWay'
    <3>1. ~Stops
      BY <2>7 DEF Stops, Stop, fatalCodegenError, AssertSymbol, RefuseUnallocated,
                  RefuseCallee, CombineOthers, CreateOtherCall, DeclareNowhere, EndRoot
    <3>2. Proceeds
      BY <1>2, <2>3, <2>4, <3>1, ProgressStep
    <3>3. NullsFor(values')
      BY <1>2, <2>3, <2>4, NullsStep
    <3>4. TypesFit(todo', values')
      BY <1>2, <2>2, <2>3, <2>4, <3>1, TypesStep
    <3> QED
      BY <2>1, <3>2, <3>3, <3>4, SameWay DEF Proceeds
  <2> QED
    BY <2>6, <2>7 DEF FailureInv
<1>3. CASE Next /\ UNCHANGED codegenVars
  BY <1>1, <1>3, NextKeepsTree
<1>4. CASE UNCHANGED vars /\ UNCHANGED codegenVars
  BY <1>1, <1>4 DEF vars
<1>5. GenerateNode \/ GenerateEdge => UNCHANGED vars
  BY DEF GenerateNode, GenerateEdge
<1>6. UNCHANGED backendVars => UNCHANGED vars /\ UNCHANGED codegenVars
  BY DEF backendVars
<1>7. UNCHANGED <<dotVars, codegenVars>> => UNCHANGED codegenVars
  OBVIOUS
<1> QED
  BY <1>2, <1>3, <1>4, <1>5, <1>6, <1>7 DEF BackendNext

\* The analysis gives no symbol to what stands below a call: the arguments are
\* not analysed (sema.cpp:131-142).
THEOREM BareInvariant ==
  ASSUME ParametersFit
  PROVE  Spec => []ArgsBare
<1>1. TypeOK /\ Init => ArgsBare
  BY BareAtFirst
<1>2. TypeOK /\ ScopingInv /\ ArgsBare /\ [Next]_vars => ArgsBare'
  BY BareStep
<1> QED
  BY <1>1, <1>2, SemaTypeCorrect, ScopingInvariant, PTL DEF Spec

\* The generation of an analysed tree ends early only for what the analysis does
\* not look at: the arguments of calls, the types, and what is left out before the
\* first function; and it finds main where there is one (codegen.cpp:41-333).
THEOREM GenerationFailsForACause ==
  ASSUME ParametersFit
  PROVE  BackendSpec => []FailsForACause
<1>1. TypeOK /\ BackendInit => GenerationInv /\ FailureInv
  BY GenerationBegins, FailureBegins DEF BackendInit
<1>2. TypeOK /\ ScopingInv /\ ArgsBare /\ GenerationInv /\ FailureInv
        /\ [BackendNext]_backendVars => GenerationInv' /\ FailureInv'
  BY GenerationStep, FailureStep
<1>3. FailureInv => FailsForACause
  BY DEF FailureInv, HasCause, FailsForACause
<1>4. BackendSpec => []TypeOK
  BY TreeStays
<1>5. BackendSpec => []ScopingInv /\ []ArgsBare
  BY Analysis, ScopingInvariant, BareInvariant, PTL
<1> QED
  BY <1>1, <1>2, <1>3, <1>4, <1>5, PTL DEF BackendSpec
=============================================================================
