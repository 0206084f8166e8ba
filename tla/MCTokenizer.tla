----------------------------- MODULE MCTokenizer -----------------------------
(***************************************************************************)
(* Source texts for model-checking Tokenizer.                              *)
(***************************************************************************)
EXTENDS Tokenizer, FiniteSets

UpTo(n, alphabet) == UNION {[1 .. m -> alphabet] : m \in 0 .. n}

Chars(s) == [k \in 1 .. Len(s) |-> SubSeq(s, k, k)]

\* Whole lines: every keyword and symbol, and the pairs that meet in programs.
Lines == {Chars(s) : s \in {
  "pub fn f(a: i32) b { return 1.5; }",
  "var v:bool=true and !false or a<=b;",
  "if(a>=1){b=b+2*c/d-e;}else{x=y;}\n",
  "a==b!=c<d>e // note = 1;\ny=2;",
  "iff fnn orr andd 12ab a1.2 1.2.3 .5 1. 4..",
  "x=1;// y#\nz=2;",
  "x=1;\r\n//c\rvar"}}

Letters == {"i", "f", "1", ".", "/", "=", ";", " ", "\n", "#"}
Pairs == {"o", "r", "0", ".", "/", "!", "=", "\r"}

SmallSources == UpTo(4, Letters) \cup UpTo(4, Pairs) \cup Lines
CommentsAndNames == UpTo(4, {"i", "1", "/", " ", "\n", "_"})
ShortSources == UpTo(3, Letters) \cup UpTo(3, Pairs) \cup Lines
=============================================================================
