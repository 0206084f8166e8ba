---------------------------- MODULE MCDiagnostics ----------------------------
(***************************************************************************)
(* Source texts for model-checking Tokenizer and Diagnostics together.     *)
(***************************************************************************)
EXTENDS Diagnostics, MCTokenizer

Texts == SmallSources \cup UpTo(5, {"a", "1", "=", "/", " ", "\n"})
=============================================================================
