-------------------------------- MODULE Text --------------------------------
(***************************************************************************)
(* The std::string operations the compiler reads its source text with.  A  *)
(* text is a sequence of one-character strings; positions count from 0.    *)
(***************************************************************************)
EXTENDS Integers, Sequences, FiniteSetsExt

CharAt(text, k) == text[k + 1]

\* The characters at positions p .. q-1.
Slice(text, p, q) == SubSeq(text, p + 1, q)

\* text.find(class, p), with Len(text) for npos.
FindFrom(text, p, class) ==
  Min({Len(text)} \cup {k \in p .. Len(text) - 1 : CharAt(text, k) \in class})

\* text.rfind(class, p), with -1 for npos.
FindBackFrom(text, p, class) ==
  Max({-1} \cup {k \in 0 .. p : CharAt(text, k) \in class})
=============================================================================
